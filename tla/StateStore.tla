------------------------------ MODULE StateStore ------------------------------
(***************************************************************************)
(* StateImageStore (storage/state_store.h): the logical images of          *)
(* recurrent model state, each with at most one Device and one Host        *)
(* replica, and the two slot pools the replicas live in.                   *)
(*                                                                         *)
(* A store is a value s = [img, freeDev, freeHost].  Each method is a pair *)
(* of operators on stores: CanX(s, ...), the method's own check (it throws *)
(* or returns false when the check fails), and X(s, ...), the store it     *)
(* leaves.  ContextState strings several methods together in one handler;  *)
(* the specification at the end of this module calls them in any order.    *)
(*                                                                         *)
(* Abstractions.  A slot is its identity, not its bytes.  Generations and  *)
(* content epochs are left out: a handle here is an image.  A transfer id  *)
(* is nonzero exactly while a replica is pending.  The source that a fork  *)
(* binding or a StateImageTransfer capability names is the field `from` of *)
(* its destination.                                                        *)
(***************************************************************************)
EXTENDS Naturals, FiniteSets

CONSTANTS
    Images,      \* logical descriptors (objects_)
    DevSlots,    \* slots of the Device pool
    HostSlots,   \* slots of the Host pool
    None,        \* an empty optional
    MaxRefs      \* bound: checkpoint references of one image

ASSUME StoreAssumption ==
    /\ IsFiniteSet(Images)
    /\ None \notin Images \cup DevSlots \cup HostSlots
    /\ MaxRefs \in Nat

Roles == {"Free", "ReservedDestination", "ActiveMutable", "CheckpointImmutable"}

Image == [role   : Roles,
          dev    : DevSlots \cup {None},    \* device_slot
          host   : HostSlots \cup {None},   \* host_slot
          pdev   : DevSlots \cup {None},    \* pending_device_slot
          phost  : HostSlots \cup {None},   \* pending_host_slot
          refs   : Nat,                     \* checkpoint_references
          pins   : Nat,                     \* source_pins
          pinned : BOOLEAN,                 \* destination_pinned
          from   : Images \cup {None}]

Store == [img      : [Images -> Image],
          freeDev  : SUBSET DevSlots,
          freeHost : SUBSET HostSlots]

\* Object{.role = role}
NewObject(role) ==
    [role |-> role, dev |-> None, host |-> None, pdev |-> None, phost |-> None,
     refs |-> 0, pins |-> 0, pinned |-> FALSE, from |-> None]

EmptyStore == [img |-> [h \in Images |-> NewObject("Free")],
               freeDev |-> DevSlots, freeHost |-> HostSlots]

HasPending(o) == o.pdev # None \/ o.phost # None

\* source_pins == 0, not destination_pinned, no pending replica
Quiet(o) == o.pins = 0 /\ ~o.pinned /\ ~HasPending(o)

Immutable(o) == o.role = "CheckpointImmutable"

-------------------------------------------------------------------------------
(* Allocation and release.                                                 *)

CanReserveDestination(s, h, d) == s.img[h].role = "Free" /\ d \in s.freeDev

ReserveDestination(s, h, d) ==
    [s EXCEPT !.img[h] = [NewObject("ReservedDestination") EXCEPT !.dev = d],
              !.freeDev = @ \ {d}]

CanReserveLogicalDestination(s, h) == s.img[h].role = "Free"

ReserveLogicalDestination(s, h) ==
    [s EXCEPT !.img[h] = NewObject("ReservedDestination")]

CanActivateReset(s, h) ==
    LET o == s.img[h] IN o.role = "ReservedDestination" /\ o.dev # None /\ Quiet(o)

ActivateReset(s, h) == [s EXCEPT !.img[h].role = "ActiveMutable"]

CanRelease(s, h) ==
    LET o == s.img[h] IN o.role # "Free" /\ o.refs = 0 /\ Quiet(o)

Release(s, h) ==
    [s EXCEPT !.img[h] = NewObject("Free"),
              !.freeDev = @ \cup ({s.img[h].dev} \ {None}),
              !.freeHost = @ \cup ({s.img[h].host} \ {None})]

-------------------------------------------------------------------------------
(* Checkpoint references and the change of role.                           *)

CanRetainReference(s, h) == Immutable(s.img[h])

RetainReference(s, h) == [s EXCEPT !.img[h].refs = @ + 1]

CanReleaseReference(s, h) == Immutable(s.img[h]) /\ s.img[h].refs # 0

ReleaseReference(s, h) == [s EXCEPT !.img[h].refs = @ - 1]

CanFreeze(s, h) ==
    LET o == s.img[h] IN o.role = "ActiveMutable" /\ o.dev # None /\ Quiet(o)

Freeze(s, h) == [s EXCEPT !.img[h].role = "CheckpointImmutable"]

\* thaw() and move_checkpoint_to_active() make the same check
CanThaw(s, h) ==
    LET o == s.img[h] IN Immutable(o) /\ o.dev # None /\ o.refs = 0 /\ Quiet(o)

Thaw(s, h) == [s EXCEPT !.img[h].role = "ActiveMutable"]

\* the Host replica of a moved checkpoint would go stale: it is released
MoveToActive(s, h) ==
    [s EXCEPT !.img[h].role = "ActiveMutable",
              !.img[h].host = None,
              !.freeHost = @ \cup ({s.img[h].host} \ {None})]

CanRecycle(s, h) ==
    LET o == s.img[h]
    IN  Immutable(o) /\ o.dev # None /\ o.host = None /\ o.refs = 1 /\ Quiet(o)

Recycle(s, h) ==
    [s EXCEPT !.img[h].refs = 0, !.img[h].role = "ReservedDestination"]

CanRestoreRecycled(s, h) ==
    LET o == s.img[h]
    IN  /\ o.role = "ReservedDestination" /\ o.dev # None /\ o.host = None
        /\ o.refs = 0 /\ Quiet(o)

RestoreRecycled(s, h) ==
    [s EXCEPT !.img[h].refs = 1, !.img[h].role = "CheckpointImmutable"]

-------------------------------------------------------------------------------
(* Replicas.                                                               *)

CanDropReplica(s, h) ==
    LET o == s.img[h] IN Immutable(o) /\ o.dev # None /\ o.host # None /\ Quiet(o)

DropDeviceReplica(s, h) ==
    [s EXCEPT !.img[h].dev = None, !.freeDev = @ \cup {s.img[h].dev}]

DropHostReplica(s, h) ==
    [s EXCEPT !.img[h].host = None, !.freeHost = @ \cup {s.img[h].host}]

BareDestination(o) ==
    /\ o.role = "ReservedDestination"
    /\ o.dev = None /\ o.host = None
    /\ Quiet(o)

CanSplitIdentity(s, h, k) == h # k /\ CanDropReplica(s, h) /\ BareDestination(s.img[k])

SplitIdentity(s, h, k) ==
    [s EXCEPT !.img[k].dev = s.img[h].dev,
              !.img[k].role = "ActiveMutable",
              !.img[h].dev = None]

-------------------------------------------------------------------------------
(* Forks between two Device replicas: the next execution reads the source  *)
(* and writes the destination.                                             *)

CanBeginFork(s, h, k) ==
    LET source == s.img[h]  dest == s.img[k]
    IN  /\ h # k
        /\ Immutable(source) /\ source.dev # None
        /\ dest.role = "ReservedDestination" /\ dest.dev # None /\ Quiet(dest)

BeginFork(s, h, k) ==
    [s EXCEPT !.img[h].pins = @ + 1,
              !.img[k].pinned = TRUE,
              !.img[k].role = "ActiveMutable",
              !.img[k].from = h]

CanCommitFork(s, h, k) ==
    LET source == s.img[h]  dest == s.img[k]
    IN  /\ Immutable(source) /\ source.pins # 0
        /\ dest.role = "ActiveMutable" /\ dest.dev # None /\ dest.pinned

CommitFork(s, h, k) ==
    [s EXCEPT !.img[h].pins = @ - 1,
              !.img[k].pinned = FALSE,
              !.img[k].from = None]

CanAbortFork(s, h, k) == h # k /\ CanCommitFork(s, h, k)

AbortFork(s, h, k) ==
    [s EXCEPT !.img[h].pins = @ - 1,
              !.img[k].pinned = FALSE,
              !.img[k].role = "ReservedDestination",
              !.img[k].from = None]

-------------------------------------------------------------------------------
(* Asynchronous transfers between the pools.                               *)

CanBeginDeviceToHost(s, h, t) ==
    LET o == s.img[h]
    IN  /\ Immutable(o) /\ o.dev # None /\ o.host = None /\ ~HasPending(o)
        /\ t \in s.freeHost

BeginDeviceToHost(s, h, t) ==
    [s EXCEPT !.img[h].phost = t, !.img[h].pinned = TRUE, !.img[h].pins = @ + 1,
              !.freeHost = @ \ {t}]

CanBeginHostToDevice(s, h, d) ==
    LET o == s.img[h]
    IN  /\ Immutable(o) /\ o.host # None /\ o.dev = None /\ ~HasPending(o)
        /\ d \in s.freeDev

BeginHostToDevice(s, h, d) ==
    [s EXCEPT !.img[h].pdev = d, !.img[h].pinned = TRUE, !.img[h].pins = @ + 1,
              !.freeDev = @ \ {d}]

CanBeginHostFork(s, h, k, d) ==
    /\ h # k
    /\ Immutable(s.img[h]) /\ s.img[h].host # None
    /\ BareDestination(s.img[k])
    /\ d \in s.freeDev

BeginHostFork(s, h, k, d) ==
    [s EXCEPT !.img[k].pdev = d, !.img[k].pinned = TRUE,
              !.img[k].role = "ActiveMutable", !.img[k].from = h,
              !.img[h].pins = @ + 1,
              !.freeDev = @ \ {d}]

(* Mutant: the source slot goes back to the pool although it is kept.      *)
PublishDeviceToHostReturns(s, h, keep) ==
    LET o == s.img[h]
    IN  [s EXCEPT !.img[h].host = o.phost, !.img[h].phost = None,
                  !.img[h].dev = IF keep THEN @ ELSE None,
                  !.img[h].pins = @ - 1, !.img[h].pinned = FALSE,
                  !.freeDev = @ \cup {o.dev}]

\* publish_transfer, one operator per direction; `keep` is keep_source_replica
PublishDeviceToHost(s, h, keep) ==
    LET o == s.img[h]
    IN  [s EXCEPT !.img[h].host = o.phost, !.img[h].phost = None,
                  !.img[h].dev = IF keep THEN @ ELSE None,
                  !.img[h].pins = @ - 1, !.img[h].pinned = FALSE,
                  !.freeDev = IF keep THEN @ ELSE @ \cup {o.dev}]

PublishHostToDevice(s, h, keep) ==
    LET o == s.img[h]
    IN  [s EXCEPT !.img[h].dev = o.pdev, !.img[h].pdev = None,
                  !.img[h].host = IF keep THEN @ ELSE None,
                  !.img[h].pins = @ - 1, !.img[h].pinned = FALSE,
                  !.freeHost = IF keep THEN @ ELSE @ \cup {o.host}]

PublishHostFork(s, h, k) ==
    [s EXCEPT !.img[k].dev = s.img[k].pdev, !.img[k].pdev = None,
              !.img[k].pinned = FALSE, !.img[k].from = None,
              !.img[h].pins = @ - 1]

AbortDeviceToHost(s, h) ==
    [s EXCEPT !.img[h].phost = None, !.img[h].pins = @ - 1,
              !.img[h].pinned = FALSE,
              !.freeHost = @ \cup {s.img[h].phost}]

AbortHostToDevice(s, h) ==
    [s EXCEPT !.img[h].pdev = None, !.img[h].pins = @ - 1,
              !.img[h].pinned = FALSE,
              !.freeDev = @ \cup {s.img[h].pdev}]

(* Mutant: the aborted transfer keeps its Device slot.                     *)
AbortHostForkLeaks(s, h, k) ==
    [s EXCEPT !.img[k].pdev = None, !.img[k].pinned = FALSE,
              !.img[k].role = "ReservedDestination", !.img[k].from = None,
              !.img[h].pins = @ - 1]

AbortHostFork(s, h, k) ==
    [s EXCEPT !.img[k].pdev = None, !.img[k].pinned = FALSE,
              !.img[k].role = "ReservedDestination", !.img[k].from = None,
              !.img[h].pins = @ - 1,
              !.freeDev = @ \cup {s.img[k].pdev}]

\* a StateImageTransfer of each direction exists and has not been consumed
TransferToHost(s, h) == s.img[h].phost # None
TransferToDevice(s, h) == s.img[h].pdev # None /\ s.img[h].from = None
TransferToFork(s, h, k) == s.img[k].pdev # None /\ s.img[k].from = h
\* a fork binding exists
Forked(s, h, k) == s.img[k].from = h /\ s.img[k].pdev = None

-------------------------------------------------------------------------------
(* The store on its own: its methods, called in any order their checks     *)
(* allow.  References are bounded by MaxRefs.                              *)

VARIABLE store

StoreInit == store = EmptyStore

\* keep_source_replica: the one caller that passes FALSE (publish_pressure_work)
\* demotes only images nothing else pins
MayKeep(s, h) == IF s.img[h].pins = 1 THEN BOOLEAN ELSE {TRUE}

Reserve == \E h \in Images :
    \/ \E d \in DevSlots : /\ CanReserveDestination(store, h, d)
                          /\ store' = ReserveDestination(store, h, d)
    \/ /\ CanReserveLogicalDestination(store, h)
       /\ store' = ReserveLogicalDestination(store, h)

Drop == \E h \in Images : CanRelease(store, h) /\ store' = Release(store, h)

References == \E h \in Images :
    \/ /\ CanRetainReference(store, h) /\ store.img[h].refs < MaxRefs
       /\ store' = RetainReference(store, h)
    \/ CanReleaseReference(store, h) /\ store' = ReleaseReference(store, h)

ChangeRole == \E h \in Images :
    \/ CanActivateReset(store, h) /\ store' = ActivateReset(store, h)
    \/ CanFreeze(store, h) /\ store' = Freeze(store, h)
    \/ CanThaw(store, h) /\ store' = Thaw(store, h)
    \/ CanThaw(store, h) /\ store' = MoveToActive(store, h)
    \/ CanRecycle(store, h) /\ store' = Recycle(store, h)
    \/ CanRestoreRecycled(store, h) /\ store' = RestoreRecycled(store, h)

Replicas == \E h \in Images :
    \/ CanDropReplica(store, h) /\ store' = DropDeviceReplica(store, h)
    \/ CanDropReplica(store, h) /\ store' = DropHostReplica(store, h)
    \/ \E k \in Images : /\ CanSplitIdentity(store, h, k)
                         /\ store' = SplitIdentity(store, h, k)

Forks == \E h, k \in Images :
    \/ CanBeginFork(store, h, k) /\ store' = BeginFork(store, h, k)
    \/ /\ Forked(store, h, k) /\ CanCommitFork(store, h, k)
       /\ store' = CommitFork(store, h, k)
    \/ /\ Forked(store, h, k) /\ CanAbortFork(store, h, k)
       /\ store' = AbortFork(store, h, k)

BeginTransfer == \E h \in Images :
    \/ \E t \in HostSlots : /\ CanBeginDeviceToHost(store, h, t)
                           /\ store' = BeginDeviceToHost(store, h, t)
    \/ \E d \in DevSlots :
          \/ /\ CanBeginHostToDevice(store, h, d)
             /\ store' = BeginHostToDevice(store, h, d)
          \/ \E k \in Images : /\ CanBeginHostFork(store, h, k, d)
                               /\ store' = BeginHostFork(store, h, k, d)

EndTransfer == \E h \in Images :
    \/ /\ TransferToHost(store, h)
       /\ \/ \E keep \in MayKeep(store, h) : store' = PublishDeviceToHost(store, h, keep)
          \/ store' = AbortDeviceToHost(store, h)
    \/ /\ TransferToDevice(store, h)
       /\ \/ \E keep \in MayKeep(store, h) : store' = PublishHostToDevice(store, h, keep)
          \/ store' = AbortHostToDevice(store, h)
    \/ \E k \in Images :
          /\ TransferToFork(store, h, k)
          /\ \/ store' = PublishHostFork(store, h, k)
             \/ store' = AbortHostFork(store, h, k)

StoreNext == \/ Reserve \/ Drop \/ References \/ ChangeRole
             \/ Replicas \/ Forks \/ BeginTransfer \/ EndTransfer

StoreSpec == StoreInit /\ [][StoreNext]_store

-------------------------------------------------------------------------------
StoreTypeOK == store \in Store

DeviceHeld(o) == {o.dev, o.pdev} \ {None}
HostHeld(o) == {o.host, o.phost} \ {None}

(* Every slot of both pools is free or held by exactly one image, as a     *)
(* published or as a pending replica: no slot leaks, none is handed out    *)
(* twice and no two identities alias one (return_device_slot,              *)
(* split_device_replica_identity, publish_transfer, abort_transfer).       *)
SlotsPartitioned ==
    /\ \A h \in Images :
          LET o == store.img[h]
          IN  /\ DeviceHeld(o) \cap store.freeDev = {}
              /\ HostHeld(o) \cap store.freeHost = {}
              /\ \A k \in Images \ {h} :
                    /\ DeviceHeld(o) \cap DeviceHeld(store.img[k]) = {}
                    /\ HostHeld(o) \cap HostHeld(store.img[k]) = {}
    /\ \A d \in DevSlots \ store.freeDev :
          \E h \in Images : d \in DeviceHeld(store.img[h])
    /\ \A t \in HostSlots \ store.freeHost :
          \E h \in Images : t \in HostHeld(store.img[h])

(* A published checkpoint always has a replica to restore it from, and an  *)
(* image that executes writes owns a Device slot or is about to: whatever  *)
(* the order of demotions, restores, splits, forks and aborts, no sequence *)
(* of legal calls strands an image.                                        *)
ImagesResident ==
    \A h \in Images :
        LET o == store.img[h]
        IN  /\ Immutable(o) => o.dev # None \/ o.host # None
            /\ o.role = "ActiveMutable" => o.dev # None \/ o.pdev # None

(* The source of a pending fork is still an immutable image when the fork  *)
(* settles, and it keeps the replica the fork reads (the Device one, or    *)
(* the Host one for a Host fork): neither release, thaw, move, recycle,    *)
(* split, demotion nor a dropped replica can take it away under the        *)
(* reader.                                                                 *)
ForkSourcesLive ==
    \A k \in Images :
        LET o == store.img[k]
        IN  o.from # None =>
              /\ Immutable(store.img[o.from])
              /\ IF o.pdev = None THEN store.img[o.from].dev # None
                                 ELSE store.img[o.from].host # None

(* The store is sound under every order of its calls: SlotsPartitioned,    *)
(* ImagesResident and ForkSourcesLive together.                            *)
StoreSound == SlotsPartitioned /\ ImagesResident /\ ForkSourcesLive
===============================================================================
