--------------------------- MODULE MediaCacheProofs ---------------------------
(***************************************************************************)
(* The safety invariants of the media preparation cache, for every number  *)
(* of requests, keys, threads and part lists and every limit.              *)
(*                                                                         *)
(* None of the five is inductive by itself. The inductive invariant IInv   *)
(* ties the four places that speak of one task together:                   *)
(*   - Tasks: what a task's state says of its payload (Payload), of how    *)
(*     far its request is (Begun) and of the pending entry its request     *)
(*     still waits on (Awaited); Awaited is why no builder dangles;        *)
(*   - Single: inflight names the unfinished task of a key, so a second    *)
(*     task for it cannot start; the queue holds queued tasks only;        *)
(*   - Calls: a request's entries stand for its first parts in order, and  *)
(*     what it has taken is what those parts need;                         *)
(*   - Books: ready, lru and retained agree; a key being built is not      *)
(*     ready, which is why publishing never replaces a cached payload;     *)
(*   - Account: the bytes in use stay under the live limit. It follows     *)
(*     from no other part: a reservation tests it, every other step only   *)
(*     drops references (LiveShrinks) or keeps them.                       *)
(***************************************************************************)
EXTENDS MediaCache, DataProofs

\* Where a request can be, how it can fail, what it waits for, and the states of a task.
Labels == Permitted \cup {"gate", "encode", "engine", "over"}
Errors == {NoError, "cancelled", "timeout", "invalid", "budget"}
PendingItem == [hit : BOOLEAN, f : Flights]
TaskStates == Running \cup {"none", "submit", "queued", "failed", "over"}

(* The variables have their types. *)
TypeOK ==
    /\ parts \in [Requests -> PartLists]
    /\ pc \in [Requests -> Labels]
    /\ idx \in [Requests -> Nat \ {0}]
    /\ pending \in [Requests -> Seq(PendingItem)]
    /\ error \in [Requests -> Errors]
    /\ taken \in [Requests -> SUBSET Flights]
    /\ signal \in [Requests -> SUBSET Signals]
    /\ claimed \in [Requests -> Nat]
    /\ flight \in [Flights -> [st : TaskStates, err : Errors, built : BOOLEAN]]
    /\ queue \in Seq(Flights) /\ IsInjective(queue)
    /\ inflight \in [Keys -> Flights \cup {NoFlight}]
    /\ ready \in [Keys -> Flights \cup {NoFlight}]
    /\ lru \in Seq(Keys) /\ IsInjective(lru)
    /\ retained \in Nat

(* A task owns a payload from its reservation on, unless it failed. *)
Payload(f) ==
    LET t == flight[f] IN
    /\ t.st \in {"none", "submit", "queued", "claim", "reserve", "evict"} =>
          ~t.built /\ t.err = NoError
    /\ t.st = "build" => t.built /\ t.err = NoError
    /\ t.st = "failed" => ~t.built /\ t.err # NoError
    /\ t.st \in {"publish", "erase", "over"} => (t.err = NoError => t.built)

(* The tasks a request has not begun, is beginning, or could not begin. *)
Begun(f) ==
    LET r == f[1]  i == f[2]  st == flight[f].st IN
    /\ st # "none" => i <= Len(parts[r])
    /\ pc[r] \in {"gate", "begin"} /\ i >= idx[r] => st = "none"
    /\ pc[r] = "submit" /\ i > idx[r] => st = "none"
    /\ (st = "submit") = (pc[r] = "submit" /\ i = idx[r])
    /\ pc[r] = "submit_failed" => (st = "failed") = (i = idx[r])
    /\ st = "failed" => pc[r] \notin {"gate", "begin", "submit"}

(* A task that may still run its builder is awaited by its own request. *)
Awaited(f) ==
    LET r == f[1]  i == f[2] IN
    flight[f].st \in {"queued", "claim", "reserve", "evict", "build", "publish"} =>
        /\ pc[r] \in Permitted
        /\ i \in DOMAIN pending[r] /\ pending[r][i] = [hit |-> FALSE, f |-> f]
        /\ pc[r] \in {"await", "drain"} => idx[r] <= i

\* Every task.
Tasks == \A f \in Flights : Payload(f) /\ Begun(f) /\ Awaited(f)

(* A payload that was built to the end. *)
Good(f) ==
    /\ flight[f].st \in {"publish", "erase", "over"}
    /\ flight[f].built /\ flight[f].err = NoError

(* inflight names the unfinished task of a key, and nothing else. *)
Single ==
    /\ OneFlightPerKey
    /\ \A k \in Keys : inflight[k] # NoFlight =>
          Key(inflight[k]) = k /\ flight[inflight[k]].st \notin {"none", "over"}
    /\ \A f \in ToSet(queue) : flight[f].st = "queued"

(* The entries a request waits for, one for each part it has begun. *)
Entries(r) ==
    /\ Len(pending[r]) <= Len(parts[r])
    /\ \A i \in DOMAIN pending[r] :
          /\ flight[pending[r][i].f].st # "none"
          /\ Key(pending[r][i].f) = parts[r][i]
          /\ pending[r][i].hit => Good(pending[r][i].f)

(* The keys of the payloads a request has taken, and of its first parts. *)
Shown(r) == {Key(f) : f \in taken[r]}
Through(r) == {parts[r][i] : i \in 1 .. idx[r] - 1}

(* How far a request is with its parts and its payloads. *)
Progress(r) ==
    /\ pc[r] \in {"gate", "engine", "over"} => pending[r] = <<>>
    /\ pc[r] = "gate" => idx[r] = 1
    /\ pc[r] \in {"begin", "submit", "submit_failed"} => Len(pending[r]) = idx[r] - 1
    /\ pc[r] \in {"submit", "submit_failed"} => idx[r] <= Len(parts[r])
    /\ pc[r] = "await" => idx[r] <= Len(pending[r]) + 1
    /\ pc[r] = "drain" => idx[r] <= Len(pending[r]) /\ error[r] # NoError
    /\ pc[r] = "await" /\ error[r] = NoError =>
          /\ Len(pending[r]) = Len(parts[r])
          /\ Shown(r) = Through(r)
    /\ pc[r] \in {"encode", "engine"} => Shown(r) = ToSet(parts[r])
    /\ pc[r] \notin {"await", "drain", "encode", "engine"} => taken[r] = {}
    /\ \A f \in taken[r] : Good(f)

\* Every request.
Calls == \A r \in Requests : Entries(r) /\ Progress(r)

(* The books of the cache. *)
Books ==
    /\ ToSet(lru) = {k \in Keys : ready[k] # NoFlight}
    /\ \A k \in Keys : ready[k] # NoFlight => Key(ready[k]) = k /\ Good(ready[k])
    /\ \A f \in Flights :
          flight[f].st \in {"submit", "queued", "claim", "reserve", "evict", "build"} =>
              ready[Key(f)] = NoFlight
    /\ retained = SumFunctionOnSet(Bytes, ToSet(lru))
    /\ retained <= RetainLimit

(* The bytes referenced by the cache, the tasks and the requests. *)
Account == Live <= LiveLimit

(* The inductive invariant. *)
IInv == TypeOK /\ Tasks /\ Single /\ Calls /\ Books /\ Account
-----------------------------------------------------------------------------
(* Flights are pairs of a request and a part; there are finitely many. *)
LEMMA FlightFacts ==
    /\ IsFiniteSet(Flights) /\ NoFlight \notin Flights
    /\ \A f \in Flights : /\ f[1] \in Requests /\ f[2] \in Nat \ {0} /\ f = <<f[1], f[2]>>
                          /\ Owner(f) = f[1]
    /\ \A r \in Requests, p \in PartLists, i \in Nat \ {0} :
          i <= Len(p) => <<r, i>> \in Flights
<1> DEFINE len == [p \in PartLists |-> Len(p)]
           lengths == {0} \cup {len[p] : p \in PartLists}
<1>1. IsFiniteSet(lengths) /\ lengths \subseteq Nat /\ lengths # {}
  <2>1. IsFiniteSet(PartLists) /\ PartLists \subseteq Seq(Keys)
    BY MediaAssumption
  <2>2. IsFiniteSet({len[p] : p \in PartLists})
    BY <2>1, FiniteImage
  <2>3. IsFiniteSet({0})
    BY FS_Singleton
  <2> HIDE DEF len
  <2>4. IsFiniteSet(lengths)
    BY <2>2, <2>3, FS_Union
  <2> QED BY <2>1, <2>4 DEF len
<1>2. MaxParts = Max(lengths)
  <2>1. {Len(p) : p \in PartLists} = {len[p] : p \in PartLists}
    OBVIOUS
  <2> QED BY <2>1 DEF MaxParts
<1>3. MaxParts \in Nat /\ \A p \in PartLists : Len(p) <= MaxParts
  <2> HIDE DEF lengths
  <2>1. MaxParts \in Nat /\ \A m \in lengths : m <= MaxParts
    BY <1>1, <1>2, FiniteMax
  <2> QED BY <2>1 DEF lengths
<1> HIDE DEF len, lengths
<1>4. IsFiniteSet(Flights)
  <2>1. IsFiniteSet(1 .. MaxParts) /\ IsFiniteSet(Requests)
    BY <1>3, FS_Interval, MediaAssumption
  <2> QED BY <2>1, FS_Product DEF Flights
<1>5. \A r \in Requests, p \in PartLists, i \in Nat \ {0} : i <= Len(p) => <<r, i>> \in Flights
  BY <1>3, MediaAssumption DEF Flights
<1>6. \A f \in Flights : /\ f[1] \in Requests /\ f[2] \in Nat \ {0} /\ f = <<f[1], f[2]>>
                         /\ Owner(f) = f[1]
  BY <1>3 DEF Flights, Owner
<1>7. NoFlight \notin Flights
  BY DEF NoFlight, Flights
<1> QED BY <1>4, <1>5, <1>6, <1>7

(* A flight that was begun has a key, and the key a size. *)
LEMMA KeyFacts ==
    ASSUME TypeOK, NEW f \in Flights, f[2] <= Len(parts[f[1]])
    PROVE  Key(f) \in Keys /\ Bytes[Key(f)] \in Nat \ {0}
<1>1. f[1] \in Requests /\ f[2] \in Nat \ {0}
  BY FlightFacts
<1>2. parts[f[1]] \in Seq(Keys) /\ Bytes \in [Keys -> Nat \ {0}]
  BY <1>1, MediaAssumption DEF TypeOK
<1>3. f[2] \in 1 .. Len(parts[f[1]])
  BY <1>1, <1>2
<1> QED BY <1>2, <1>3 DEF Key

(* Live adds naturals over finitely many payloads. *)
LEMMA LiveFacts ==
    ASSUME TypeOK, Tasks, NEW S \in SUBSET Flights, \A f \in S : flight[f].st # "none"
    PROVE  /\ IsFiniteSet(S)
           /\ \A f \in S : [x \in S |-> Bytes[Key(x)]][f] \in Nat
           /\ SumBytes(S) \in Nat
<1>1. IsFiniteSet(S)
  BY FlightFacts, FS_Subset
<1>2. \A f \in S : f[2] <= Len(parts[f[1]])
  BY DEF Tasks, Begun
<1>3. \A f \in S : Bytes[Key(f)] \in Nat
  BY <1>2, KeyFacts
<1>4. \A f \in S : [x \in S |-> Bytes[Key(x)]][f] \in Nat
  BY <1>3
<1> QED BY <1>1, <1>4, SumNat DEF SumBytes

(* What is referenced was begun. *)
LEMMA ReferencedBegun ==
    ASSUME TypeOK, Tasks, NEW f \in Flights, Referenced(f)
    PROVE  flight[f].st # "none" /\ flight[f].st # "submit" /\ flight[f].built
BY DEF Referenced, Tasks, Payload

(* No payload more is referenced: the account does not grow. *)
LEMMA LiveShrinks ==
    ASSUME TypeOK, Tasks, parts' = parts, Account,
           \A f \in Flights : Referenced(f)' => Referenced(f)
    PROVE  Account'
<1> DEFINE S == {f \in Flights : Referenced(f)}
           R == {f \in Flights : Referenced(f)'}
           fun == [f \in S |-> Bytes[Key(f)]]
           res == [f \in R |-> Bytes[Key(f)]]
<1>1. Live = SumFunctionOnSet(fun, S) /\ Live' = SumFunctionOnSet(res, R)
  BY DEF Live, SumBytes, Key
<1>2. R \subseteq S /\ S \subseteq Flights /\ \A f \in S : flight[f].st # "none"
  BY ReferencedBegun
<1>3. IsFiniteSet(S) /\ (\A f \in S : fun[f] \in Nat) /\ IsFiniteSet(R)
  <2> HIDE DEF S, R
  <2> QED BY <1>2, LiveFacts, FS_Subset
<1>4. \A f \in R : res[f] \in Nat /\ res[f] = fun[f]
  BY <1>2, <1>3
<1>5. SumFunctionOnSet(fun, R) <= SumFunctionOnSet(fun, S)
  <2> HIDE DEF S, R, fun
  <2> QED BY <1>2, <1>3, SumSubset
<1>6. SumFunctionOnSet(res, R) = SumFunctionOnSet(fun, R)
  <2> HIDE DEF S, R, fun, res
  <2> QED BY <1>3, <1>4, SumSame
<1>7. Live' <= Live /\ Live \in Nat /\ Live' \in Nat
  <2>1. SumFunctionOnSet(fun, S) \in Nat /\ SumFunctionOnSet(fun, R) \in Nat
    <3> HIDE DEF S, R, fun
    <3> QED BY <1>2, <1>3, SumNat
  <2> HIDE DEF S, R, fun, res
  <2> QED BY <1>1, <1>5, <1>6, <2>1
<1>8. LiveLimit \in Nat
  BY MediaAssumption
<1> QED BY <1>7, <1>8 DEF Account

(* A reservation that fits: one payload more is referenced. *)
LEMMA LiveGrows ==
    ASSUME TypeOK, Tasks, parts' = parts, NEW g \in Flights,
           flight[g].st = "reserve", Fits(Bytes[Key(g)]),
           \A f \in Flights : Referenced(f)' => f = g \/ Referenced(f)
    PROVE  Account'
<1> DEFINE S == {f \in Flights : Referenced(f)}
           R == {f \in Flights : Referenced(f)'}
           W == S \cup {g}
           fun == [f \in S |-> Bytes[Key(f)]]
           all == [f \in W |-> Bytes[Key(f)]]
           res == [f \in R |-> Bytes[Key(f)]]
<1>1. Live = SumFunctionOnSet(fun, S) /\ Live' = SumFunctionOnSet(res, R)
  BY DEF Live, SumBytes, Key
<1>2. R \subseteq W /\ W \subseteq Flights /\ (\A f \in W : flight[f].st # "none") /\ g \notin S
  <2>1. ~flight[g].built
    BY DEF Tasks, Payload
  <2> QED BY <2>1, ReferencedBegun
<1>3. IsFiniteSet(W) /\ (\A f \in W : all[f] \in Nat) /\ IsFiniteSet(R) /\ IsFiniteSet(S)
  <2>1. IsFiniteSet(W) /\ \A f \in W : all[f] \in Nat
    <3> HIDE DEF W
    <3> QED BY <1>2, LiveFacts
  <2>2. S \subseteq W
    OBVIOUS
  <2> HIDE DEF S, R, W
  <2> QED BY <1>2, <2>1, <2>2, FS_Subset
<1>4. (\A f \in R : res[f] \in Nat /\ res[f] = all[f]) /\ (\A f \in S : fun[f] \in Nat /\ fun[f] = all[f])
  BY <1>2, <1>3
<1>5. SumFunctionOnSet(res, R) = SumFunctionOnSet(all, R) /\ SumFunctionOnSet(fun, S) = SumFunctionOnSet(all, S)
  <2> HIDE DEF S, R, W, fun, all, res
  <2> QED BY <1>3, <1>4, SumSame
<1>6. SumFunctionOnSet(all, R) <= SumFunctionOnSet(all, W)
  <2> HIDE DEF S, R, W, fun, all, res
  <2> QED BY <1>2, <1>3, SumSubset
<1>7. SumFunctionOnSet(all, W) = all[g] + SumFunctionOnSet(all, S)
  <2>1. \A f \in S \cup {g} : all[f] \in Nat
    BY <1>3
  <2> HIDE DEF S, R, fun, all, res
  <2> QED BY <1>2, <1>3, <2>1, SumAdd
<1>8. SumFunctionOnSet(all, R) \in Nat /\ SumFunctionOnSet(all, S) \in Nat /\ all[g] \in Nat
      /\ all[g] = Bytes[Key(g)]
  <2>1. (\A f \in S : all[f] \in Nat) /\ (\A f \in R : all[f] \in Nat) /\ g \in W
    BY <1>2, <1>3
  <2>2. all[g] \in Nat /\ all[g] = Bytes[Key(g)]
    BY <1>3, <2>1
  <2> HIDE DEF S, R, W, fun, all, res
  <2> QED BY <1>3, <2>1, <2>2, SumNat
<1>9. LiveLimit \in Nat
  BY MediaAssumption
<1> HIDE DEF S, R, W, fun, all, res
<1> QED BY <1>1, <1>5, <1>6, <1>7, <1>8, <1>9 DEF Account, Fits
-----------------------------------------------------------------------------
(* A step of one request.  It may begin or abandon a task of its own, which has no
   payload yet, reorder the cache, and hold payloads that something refers to. *)
LEMMA CallFrame ==
    ASSUME IInv, TypeOK', NEW r \in Requests,
           UNCHANGED <<parts, ready, retained>>, ToSet(lru') = ToSet(lru),
           \A q \in Requests \ {r} :
               /\ pc'[q] = pc[q] /\ idx'[q] = idx[q] /\ pending'[q] = pending[q]
               /\ error'[q] = error[q] /\ taken'[q] = taken[q],
           \A f \in Flights :
               \/ flight'[f] = flight[f]
               \/ /\ f[1] = r /\ ~flight[f].built /\ ~flight'[f].built
                  /\ Payload(f)' /\ flight'[f].st # "none"
                  /\ flight'[f].st \in {"submit", "queued", "claim", "reserve", "evict", "build"}
                        => ready[Key(f)] = NoFlight,
           \A f \in Flights : f[1] = r => Begun(f)' /\ Awaited(f)',
           Entries(r)', Progress(r)',
           \A f \in Flights : f \in HeldBy(r)' /\ flight'[f].built => Referenced(f)
    PROVE  Tasks' /\ Calls' /\ Books' /\ Account' /\ \A f : Key(f)' = Key(f)
<1>1. \A f : Key(f)' = Key(f)
  BY DEF Key
<1>2. \A f \in Flights : Good(f) => Good(f)'
  BY DEF Good
<1>3. Tasks'
  <2>1. ASSUME NEW f \in Flights PROVE (Payload(f) /\ Begun(f) /\ Awaited(f))'
    <3>1. Payload(f) /\ Begun(f) /\ Awaited(f) /\ f[1] \in Requests
      BY FlightFacts DEF IInv, Tasks
    <3>2. Payload(f)'
      BY <3>1 DEF Payload
    <3>3. CASE f[1] = r
      BY <3>2, <3>3
    <3>4. CASE f[1] # r
      <4>1. flight'[f] = flight[f]
        BY <3>4
      <4> QED BY <3>1, <3>2, <3>4, <4>1 DEF Begun, Awaited
    <3> QED BY <3>3, <3>4
  <2> QED BY <2>1 DEF Tasks
<1>4. Calls'
  <2>1. ASSUME NEW q \in Requests, q # r PROVE (Entries(q) /\ Progress(q))'
    <3>1. /\ Entries(q) /\ Progress(q) /\ pending[q] \in Seq(PendingItem)
          /\ taken[q] \in SUBSET Flights
      BY DEF IInv, Calls, TypeOK
    <3>2. /\ pc'[q] = pc[q] /\ idx'[q] = idx[q] /\ pending'[q] = pending[q]
          /\ error'[q] = error[q] /\ taken'[q] = taken[q]
      BY <2>1
    <3>3. \A i \in DOMAIN pending[q] : pending[q][i].f \in Flights
      <4>1. \A i \in DOMAIN pending[q] : pending[q][i] \in PendingItem
        BY <3>1
      <4> QED BY <4>1 DEF PendingItem
    <3>4. \A f \in Flights : flight[f].st # "none" => flight'[f].st # "none"
      OBVIOUS
    <3>5. Entries(q)'
      BY <1>1, <1>2, <3>1, <3>2, <3>3, <3>4 DEF Entries
    <3>6. Shown(q)' = Shown(q) /\ Through(q)' = Through(q)
      BY <3>2 DEF Shown, Through, Key
    <3>7. Progress(q)'
      BY <1>2, <3>1, <3>2, <3>6 DEF Progress
    <3> QED BY <3>5, <3>7
  <2> QED BY <2>1 DEF Calls
<1>5. Books'
  <2>1. \A k \in Keys : ready[k] # NoFlight => ready[k] \in Flights /\ Key(ready[k]) = k /\ Good(ready[k])
    BY DEF IInv, Books, TypeOK
  <2>2. ASSUME NEW f \in Flights,
               flight'[f].st \in {"submit", "queued", "claim", "reserve", "evict", "build"}
        PROVE  ready[Key(f)] = NoFlight
    BY <2>2 DEF IInv, Books
  <2>3. /\ ToSet(lru) = {k \in Keys : ready[k] # NoFlight}
        /\ retained = SumFunctionOnSet(Bytes, ToSet(lru)) /\ retained <= RetainLimit
    BY DEF IInv, Books
  <2> QED BY <1>1, <1>2, <2>1, <2>2, <2>3 DEF Books
<1>6. Account'
  <2>1. \A q \in Requests \ {r} : HeldBy(q)' = HeldBy(q)
    BY DEF HeldBy
  <2>2. ASSUME NEW f \in Flights, Referenced(f)' PROVE Referenced(f)
    <3>1. flight'[f].built
      BY <2>2 DEF Referenced
    <3>2. flight'[f] = flight[f]
      BY <3>1
    <3> QED BY <2>1, <2>2, <3>1, <3>2 DEF Referenced
  <2> QED BY <2>2, LiveShrinks DEF IInv
<1> QED BY <1>1, <1>3, <1>4, <1>5, <1>6

(* A step of one request that leaves the tasks and the cache alone. *)
LEMMA CallStep ==
    ASSUME IInv, TypeOK', NEW r \in Requests,
           UNCHANGED <<parts, flight, queue, inflight, ready, lru, retained>>,
           \A q \in Requests \ {r} :
               /\ pc'[q] = pc[q] /\ idx'[q] = idx[q] /\ pending'[q] = pending[q]
               /\ error'[q] = error[q] /\ taken'[q] = taken[q],
           pc'[r] # "submit_failed",
           \A f \in Flights : f[1] = r => Begun(f)' /\ Awaited(f)',
           Entries(r)', Progress(r)',
           HeldBy(r)' \subseteq HeldBy(r)
    PROVE  IInv'
<1>1. Tasks' /\ Calls' /\ Books' /\ Account'
  <2>1. \A f \in Flights : f \in HeldBy(r)' /\ flight'[f].built => Referenced(f)
    BY DEF Referenced
  <2> QED BY <2>1, CallFrame
<1>2. Single'
  <2>1. ASSUME NEW f \in Flights PROVE pc'[Owner(f)] = "submit_failed" => pc[Owner(f)] = "submit_failed"
    BY FlightFacts
  <2>2. OneFlightPerKey'
    BY <2>1 DEF IInv, Single, OneFlightPerKey, Key
  <2> QED BY <2>2 DEF IInv, Single, Key
<1> QED BY <1>1, <1>2 DEF IInv

(* What the invariant says of one request and its tasks. *)
LEMMA RequestFacts ==
    ASSUME IInv, NEW r \in Requests
    PROVE  /\ pc[r] \in Labels /\ idx[r] \in Nat \ {0} /\ error[r] \in Errors
           /\ parts[r] \in Seq(Keys) /\ parts[r] \in PartLists
           /\ Len(parts[r]) \in Nat \ {0}
           /\ pending[r] \in Seq(PendingItem)
           /\ Len(pending[r]) \in Nat /\ DOMAIN pending[r] = 1 .. Len(pending[r])
           /\ taken[r] \in SUBSET Flights /\ signal[r] \in SUBSET {"cancelled", "timeout"}
           /\ Entries(r) /\ Progress(r)
           /\ \A f \in Flights : f[1] = r => Payload(f) /\ Begun(f) /\ Awaited(f)
           /\ InterruptKind(r) \in Errors \ {NoError}
           /\ StopKind(r) \in Errors \ {NoError}
<1>1. parts[r] \in PartLists /\ parts[r] \in Seq(Keys) /\ parts[r] # <<>> /\ signal[r] \in SUBSET {"cancelled", "timeout"}
  BY MediaAssumption DEF IInv, TypeOK
<1>2. Len(parts[r]) \in Nat \ {0}
  BY <1>1
<1>3. pending[r] \in Seq(PendingItem)
  BY DEF IInv, TypeOK
<1>4. Len(pending[r]) \in Nat /\ DOMAIN pending[r] = 1 .. Len(pending[r])
  BY <1>3
<1>5. InterruptKind(r) \in Errors \ {NoError} /\ StopKind(r) \in Errors \ {NoError}
  BY DEF InterruptKind, StopKind, Errors, NoError
<1>6. pc[r] \in Labels /\ idx[r] \in Nat \ {0} /\ error[r] \in Errors /\ taken[r] \in SUBSET Flights
  BY DEF IInv, TypeOK
<1>7. Entries(r) /\ Progress(r) /\ \A f \in Flights : f[1] = r => Payload(f) /\ Begun(f) /\ Awaited(f)
  BY DEF IInv, Calls, Tasks
<1> QED BY <1>1, <1>2, <1>3, <1>4, <1>5, <1>6, <1>7

(* A request keeps its entries. *)
LEMMA SameEntries ==
    ASSUME NEW r \in Requests, Entries(r), UNCHANGED <<parts, flight>>, pending'[r] = pending[r]
    PROVE  /\ Entries(r)'
           /\ \A f : Good(f)' <=> Good(f)
           /\ taken'[r] \subseteq taken[r] => HeldBy(r)' \subseteq HeldBy(r)
<1>1. \A f : (Good(f)' <=> Good(f)) /\ Key(f)' = Key(f)
  BY DEF Good, Key
<1>2. Entries(r)'
  BY <1>1 DEF Entries
<1> QED BY <1>1, <1>2 DEF HeldBy

(* The three updates of a request's own variables. *)
LEMMA CallUpdates ==
    ASSUME IInv, NEW r \in Requests
    PROVE  /\ \A l \in Labels : Goto(r, l) =>
                 /\ pc' \in [Requests -> Labels] /\ pc'[r] = l
                 /\ \A q \in Requests \ {r} : pc'[q] = pc[q]
           /\ \A kind \in Errors \ {NoError} : Fail(r, kind) =>
                 /\ error' \in [Requests -> Errors] /\ error'[r] # NoError
                 /\ \A q \in Requests \ {r} : error'[q] = error[q]
           /\ Advance(r) =>
                 /\ idx' \in [Requests -> Nat \ {0}] /\ idx'[r] = idx[r] + 1
                 /\ \A q \in Requests \ {r} : idx'[q] = idx[q]
<1>1. /\ pc \in [Requests -> Labels] /\ error \in [Requests -> Errors]
      /\ idx \in [Requests -> Nat \ {0}]
  BY DEF IInv, TypeOK
<1>2. ASSUME NEW l \in Labels, Goto(r, l)
      PROVE  /\ pc' \in [Requests -> Labels] /\ pc'[r] = l
             /\ \A q \in Requests \ {r} : pc'[q] = pc[q]
  BY <1>1, <1>2 DEF Goto
<1>3. ASSUME NEW kind \in Errors \ {NoError}, Fail(r, kind)
      PROVE  /\ error' \in [Requests -> Errors] /\ error'[r] # NoError
             /\ \A q \in Requests \ {r} : error'[q] = error[q]
  BY <1>1, <1>3 DEF Fail
<1>4. ASSUME Advance(r)
      PROVE  /\ idx' \in [Requests -> Nat \ {0}] /\ idx'[r] = idx[r] + 1
             /\ \A q \in Requests \ {r} : idx'[q] = idx[q]
  BY <1>1, <1>4 DEF Advance
<1> QED BY <1>2, <1>3, <1>4

(* The poll for a permit. *)
LEMMA AcquireRequestKeeps ==
    ASSUME IInv, NEW r \in Requests, AcquireRequest(r) PROVE IInv'
<1>0. /\ Entries(r) /\ Progress(r) /\ idx[r] \in Nat \ {0} /\ DOMAIN pending[r] = 1 .. Len(pending[r])
      /\ InterruptKind(r) \in Errors \ {NoError} /\ {"begin", "over"} \subseteq Labels
  BY RequestFacts DEF Labels, Permitted
<1>1. /\ pc[r] = "gate" /\ pc' \in [Requests -> Labels] /\ pc'[r] \in {"begin", "over"}
      /\ \A q \in Requests \ {r} : pc'[q] = pc[q]
  BY <1>0, CallUpdates DEF AcquireRequest
<1>2. error' \in [Requests -> Errors] /\ \A q \in Requests \ {r} : error'[q] = error[q]
  BY <1>0, CallUpdates DEF AcquireRequest, IInv, TypeOK
<1>3. UNCHANGED <<parts, idx, pending, taken, signal, claimed, flight, queue, inflight, ready,
                  lru, retained>>
  BY DEF AcquireRequest, cacheVars
<1>4. TypeOK'
  BY <1>1, <1>2, <1>3 DEF IInv, TypeOK
<1>5. ASSUME NEW f \in Flights, f[1] = r PROVE Begun(f)' /\ Awaited(f)'
  <2>1. Begun(f) /\ Awaited(f) /\ f[2] \in Nat \ {0}
    BY <1>5, RequestFacts, FlightFacts
  <2> QED BY <1>0, <1>1, <1>3, <1>5, <2>1 DEF Begun, Awaited, Progress, Permitted
<1>6. Entries(r)' /\ Progress(r)' /\ HeldBy(r)' \subseteq HeldBy(r)
  BY <1>0, <1>1, <1>3 DEF Entries, Progress, HeldBy, Good, Key
<1> QED BY <1>1, <1>2, <1>3, <1>4, <1>5, <1>6, CallStep

(* enforce_image_resize_policy() throws before a part is begun. *)
LEMMA RejectPolicyKeeps ==
    ASSUME IInv, NEW r \in Requests, RejectPolicy(r) PROVE IInv'
<1>0. /\ Entries(r) /\ Progress(r) /\ idx[r] \in Nat \ {0} /\ DOMAIN pending[r] = 1 .. Len(pending[r])
      /\ pending[r] \in Seq(PendingItem)
      /\ "invalid" \in Errors \ {NoError} /\ "over" \in Labels
  BY RequestFacts DEF Labels, Permitted, Errors, NoError
<1>1. /\ pc[r] = "begin" /\ idx[r] = 1 /\ pc' \in [Requests -> Labels] /\ pc'[r] = "over"
      /\ \A q \in Requests \ {r} : pc'[q] = pc[q]
  BY <1>0, CallUpdates DEF RejectPolicy
<1>2. error' \in [Requests -> Errors] /\ \A q \in Requests \ {r} : error'[q] = error[q]
  BY <1>0, CallUpdates DEF RejectPolicy
<1>3. UNCHANGED <<parts, idx, pending, taken, signal, claimed, flight, queue, inflight, ready,
                  lru, retained>>
  BY DEF RejectPolicy, cacheVars
<1>4. TypeOK'
  BY <1>1, <1>2, <1>3 DEF IInv, TypeOK
<1>5. ASSUME NEW f \in Flights, f[1] = r PROVE Begun(f)' /\ Awaited(f)'
  <2>1. Begun(f) /\ Awaited(f) /\ f[2] \in Nat \ {0}
    BY <1>5, RequestFacts, FlightFacts
  <2> QED BY <1>0, <1>1, <1>3, <1>5, <2>1 DEF Begun, Awaited, Progress, Permitted
<1>6. pending[r] = <<>>
  BY <1>0, <1>1 DEF Progress
<1>7. Entries(r)' /\ Progress(r)' /\ HeldBy(r)' \subseteq HeldBy(r)
  BY <1>0, <1>1, <1>3, <1>6 DEF Entries, Progress, HeldBy, Good, Key
<1> QED BY <1>1, <1>2, <1>3, <1>4, <1>5, <1>7, CallStep

(* The control check before a part throws. *)
LEMMA BeginInterruptedKeeps ==
    ASSUME IInv, NEW r \in Requests, BeginInterrupted(r) PROVE IInv'
<1>0. /\ Entries(r) /\ Progress(r) /\ idx[r] \in Nat \ {0} /\ DOMAIN pending[r] = 1 .. Len(pending[r])
      /\ Len(pending[r]) \in Nat
      /\ InterruptKind(r) \in Errors \ {NoError} /\ "await" \in Labels
  BY RequestFacts DEF Labels, Permitted
<1>1. /\ pc[r] = "begin" /\ pc' \in [Requests -> Labels] /\ pc'[r] = "await"
      /\ \A q \in Requests \ {r} : pc'[q] = pc[q]
  BY <1>0, CallUpdates DEF BeginInterrupted
<1>2. /\ error' \in [Requests -> Errors] /\ \A q \in Requests \ {r} : error'[q] = error[q]
      /\ error'[r] # NoError
  BY <1>0, CallUpdates DEF BeginInterrupted
<1>3. /\ idx' \in [Requests -> Nat \ {0}] /\ idx'[r] = 1
      /\ \A q \in Requests \ {r} : idx'[q] = idx[q]
      /\ UNCHANGED <<parts, pending, taken, signal, claimed, flight, queue, inflight, ready,
                     lru, retained>>
  BY DEF BeginInterrupted, cacheVars, IInv, TypeOK
<1>4. TypeOK'
  BY <1>1, <1>2, <1>3 DEF IInv, TypeOK
<1>5. ASSUME NEW f \in Flights, f[1] = r PROVE Begun(f)' /\ Awaited(f)'
  <2>1. Begun(f) /\ Awaited(f) /\ f[2] \in Nat \ {0}
    BY <1>5, RequestFacts, FlightFacts
  <2> QED BY <1>0, <1>1, <1>3, <1>5, <2>1 DEF Begun, Awaited, Progress, Permitted
<1>6. Entries(r)' /\ Progress(r)' /\ HeldBy(r)' \subseteq HeldBy(r)
  BY <1>0, <1>1, <1>2, <1>3, SameEntries DEF Progress
<1> QED BY <1>1, <1>2, <1>3, <1>4, <1>5, <1>6, CallStep

(* Every part is begun. *)
LEMMA AllBegunKeeps ==
    ASSUME IInv, NEW r \in Requests, AllBegun(r) PROVE IInv'
<1>0. /\ Entries(r) /\ Progress(r) /\ idx[r] \in Nat \ {0} /\ DOMAIN pending[r] = 1 .. Len(pending[r])
      /\ Len(pending[r]) \in Nat /\ Len(parts[r]) \in Nat /\ "await" \in Labels
  BY RequestFacts DEF Labels, Permitted
<1>1. /\ pc[r] = "begin" /\ pc' \in [Requests -> Labels] /\ pc'[r] = "await"
      /\ \A q \in Requests \ {r} : pc'[q] = pc[q]
  BY <1>0, CallUpdates DEF AllBegun
<1>2. /\ idx' \in [Requests -> Nat \ {0}] /\ idx'[r] = 1
      /\ \A q \in Requests \ {r} : idx'[q] = idx[q]
      /\ UNCHANGED <<parts, pending, error, taken, signal, claimed, flight, queue, inflight, ready,
                     lru, retained>>
      /\ idx[r] > Len(parts[r])
  BY DEF AllBegun, cacheVars, IInv, TypeOK
<1>3. TypeOK'
  BY <1>1, <1>2 DEF IInv, TypeOK
<1>4. ASSUME NEW f \in Flights, f[1] = r PROVE Begun(f)' /\ Awaited(f)'
  <2>1. Begun(f) /\ Awaited(f) /\ f[2] \in Nat \ {0}
    BY <1>4, RequestFacts, FlightFacts
  <2> QED BY <1>0, <1>1, <1>2, <1>4, <2>1 DEF Begun, Awaited, Progress, Permitted
<1>5. Len(pending[r]) = Len(parts[r]) /\ taken[r] = {}
  BY <1>0, <1>1, <1>2 DEF Entries, Progress
<1>6. Shown(r)' = {} /\ Through(r)' = {}
  BY <1>2, <1>5 DEF Shown, Through
<1>7. Entries(r)' /\ Progress(r)' /\ HeldBy(r)' \subseteq HeldBy(r)
  BY <1>0, <1>1, <1>2, <1>5, <1>6, SameEntries DEF Progress
<1> QED BY <1>1, <1>2, <1>3, <1>4, <1>7, CallStep

(* await() is interrupted: the first error is stored. *)
LEMMA AwaitInterruptedKeeps ==
    ASSUME IInv, NEW r \in Requests, AwaitInterrupted(r) PROVE IInv'
<1>0. /\ Entries(r) /\ Progress(r) /\ idx[r] \in Nat \ {0} /\ DOMAIN pending[r] = 1 .. Len(pending[r])
      /\ Len(pending[r]) \in Nat
      /\ InterruptKind(r) \in Errors \ {NoError} /\ "drain" \in Labels
  BY RequestFacts DEF Labels, Permitted
<1>1. /\ pc[r] = "await" /\ pc' \in [Requests -> Labels] /\ pc'[r] = "drain"
      /\ idx[r] <= Len(pending[r])
      /\ \A q \in Requests \ {r} : pc'[q] = pc[q]
  BY <1>0, CallUpdates DEF AwaitInterrupted
<1>2. /\ error' \in [Requests -> Errors] /\ \A q \in Requests \ {r} : error'[q] = error[q]
      /\ error'[r] # NoError
  BY <1>0, CallUpdates DEF AwaitInterrupted
<1>3. UNCHANGED <<parts, idx, pending, taken, signal, claimed, flight, queue, inflight, ready,
                  lru, retained>>
  BY DEF AwaitInterrupted, cacheVars
<1>4. TypeOK'
  BY <1>1, <1>2, <1>3 DEF IInv, TypeOK
<1>5. ASSUME NEW f \in Flights, f[1] = r PROVE Begun(f)' /\ Awaited(f)'
  <2>1. Begun(f) /\ Awaited(f) /\ f[2] \in Nat \ {0}
    BY <1>5, RequestFacts, FlightFacts
  <2> QED BY <1>0, <1>1, <1>3, <1>5, <2>1 DEF Begun, Awaited, Progress, Permitted
<1>6. Entries(r)' /\ Progress(r)' /\ HeldBy(r)' \subseteq HeldBy(r)
  BY <1>0, <1>1, <1>2, <1>3, SameEntries DEF Progress
<1> QED BY <1>1, <1>2, <1>3, <1>4, <1>5, <1>6, CallStep

(* The task a request waits for is done: none of its own lies behind. *)
LEMMA AwaitedDone ==
    ASSUME IInv, NEW r \in Requests, pc[r] \in {"await", "drain"}, idx[r] <= Len(pending[r]),
           pending[r][idx[r]].hit \/ Done(pending[r][idx[r]].f),
           NEW f \in Flights, f[1] = r,
           flight[f].st \in {"queued", "claim", "reserve", "evict", "build", "publish"}
    PROVE  idx[r] + 1 <= f[2] /\ f[2] \in DOMAIN pending[r]
           /\ pending[r][f[2]] = [hit |-> FALSE, f |-> f]
<1>1. Awaited(f) /\ f[2] \in Nat \ {0} /\ idx[r] \in Nat \ {0}
  BY RequestFacts, FlightFacts
<1>2. idx[r] <= f[2] /\ f[2] \in DOMAIN pending[r] /\ pending[r][f[2]] = [hit |-> FALSE, f |-> f]
  BY <1>1 DEF Awaited
<1>3. f[2] # idx[r]
  BY <1>2 DEF Done
<1> QED BY <1>1, <1>2, <1>3

(* The part whose wait was interrupted is drained. *)
LEMMA DrainKeeps ==
    ASSUME IInv, NEW r \in Requests, Drain(r) PROVE IInv'
<1>0. /\ Entries(r) /\ Progress(r) /\ idx[r] \in Nat \ {0} /\ DOMAIN pending[r] = 1 .. Len(pending[r])
      /\ Len(pending[r]) \in Nat /\ "await" \in Labels
  BY RequestFacts DEF Labels, Permitted
<1>1. /\ pc[r] = "drain" /\ pc' \in [Requests -> Labels] /\ pc'[r] = "await"
      /\ \A q \in Requests \ {r} : pc'[q] = pc[q]
  BY <1>0, CallUpdates DEF Drain
<1>2. /\ idx' \in [Requests -> Nat \ {0}] /\ idx'[r] = idx[r] + 1
      /\ \A q \in Requests \ {r} : idx'[q] = idx[q]
  BY <1>0, CallUpdates DEF Drain
<1>3. /\ UNCHANGED <<parts, pending, error, taken, signal, claimed, flight, queue, inflight, ready,
                     lru, retained>>
      /\ pending[r][idx[r]].hit \/ Done(pending[r][idx[r]].f)
  BY DEF Drain, cacheVars
<1>4. TypeOK'
  BY <1>1, <1>2, <1>3 DEF IInv, TypeOK
<1>5. idx[r] <= Len(pending[r]) /\ error[r] # NoError
  BY <1>0, <1>1 DEF Progress
<1>6. ASSUME NEW f \in Flights, f[1] = r PROVE Begun(f)' /\ Awaited(f)'
  <2>1. Begun(f) /\ f[2] \in Nat \ {0}
    BY <1>6, RequestFacts, FlightFacts
  <2>2. Begun(f)'
    BY <1>0, <1>1, <1>2, <1>3, <1>6, <2>1 DEF Begun
  <2>3. Awaited(f)'
    <3>1. flight[f].st \in {"queued", "claim", "reserve", "evict", "build", "publish"} =>
              idx[r] + 1 <= f[2] /\ f[2] \in DOMAIN pending[r]
              /\ pending[r][f[2]] = [hit |-> FALSE, f |-> f]
      BY <1>1, <1>3, <1>5, <1>6, AwaitedDone
    <3> QED BY <1>1, <1>2, <1>3, <1>6, <3>1 DEF Awaited, Permitted
  <2> QED BY <2>2, <2>3
<1>7. Entries(r)' /\ Progress(r)' /\ HeldBy(r)' \subseteq HeldBy(r)
  BY <1>0, <1>1, <1>2, <1>3, <1>5, SameEntries DEF Progress
<1> QED BY <1>1, <1>2, <1>3, <1>4, <1>6, <1>7, CallStep

(* await() returns a payload, or an error is stored. *)
LEMMA AwaitCases ==
    ASSUME IInv, NEW r \in Requests, Await(r)
    PROVE  /\ idx[r] \in DOMAIN pending[r]
           /\ error' \in [Requests -> Errors]
           /\ \A q \in Requests \ {r} : error'[q] = error[q] /\ taken'[q] = taken[q]
           /\ taken' \in [Requests -> SUBSET Flights]
           /\ \/ error'[r] # NoError /\ taken'[r] = taken[r]
              \/ /\ error[r] = NoError /\ error'[r] = NoError
                 /\ taken'[r] = taken[r] \cup {pending[r][idx[r]].f}
                 /\ Good(pending[r][idx[r]].f)
<1> DEFINE p == pending[r][idx[r]]
           failure == IF p.hit THEN NoError ELSE flight[p.f].err
<1>1. idx[r] \in DOMAIN pending[r] /\ p \in PendingItem /\ p.f \in Flights /\ p.hit \in BOOLEAN
  <2>1. idx[r] <= Len(pending[r])
    BY DEF Await
  <2>2. idx[r] \in Nat \ {0} /\ pending[r] \in Seq(PendingItem)
    BY RequestFacts
  <2>3. idx[r] \in DOMAIN pending[r] /\ p \in PendingItem
    BY <2>1, <2>2
  <2> QED BY <2>3 DEF PendingItem
<1>2. taken \in [Requests -> SUBSET Flights] /\ error \in [Requests -> Errors]
  BY DEF IInv, TypeOK
<1>3. failure \in Errors /\ "budget" \in Errors \ {NoError}
  BY <1>1 DEF IInv, TypeOK, Errors, NoError
<1>4. p.hit \/ Done(p.f)
  BY DEF Await
<1>5. CASE error[r] = NoError /\ failure = NoError /\ taken' = [taken EXCEPT ![r] = @ \cup {p.f}]
           /\ UNCHANGED error
  <2>1. Good(p.f)
    <3>1. CASE p.hit
      <4>1. Entries(r)
        BY RequestFacts
      <4> QED BY <1>1, <3>1, <4>1 DEF Entries
    <3>2. CASE ~p.hit
      <4>1. Payload(p.f) /\ flight[p.f].err = NoError /\ Done(p.f)
        BY <1>1, <1>4, <1>5, <3>2 DEF IInv, Tasks
      <4> HIDE DEF p
      <4> QED BY <4>1 DEF Payload, Done, Good
    <3> QED BY <3>1, <3>2
  <2> HIDE DEF p, failure
  <2>2. taken' \in [Requests -> SUBSET Flights] /\ taken'[r] = taken[r] \cup {p.f}
        /\ \A q \in Requests \ {r} : taken'[q] = taken[q]
    BY <1>1, <1>2, <1>5
  <2>3. error' = error
    BY <1>5
  <2> QED BY <1>1, <1>2, <1>5, <2>1, <2>2, <2>3 DEF p
<1>6. CASE (\E kind \in Errors \ {NoError} : Fail(r, kind)) /\ UNCHANGED taken
  BY <1>1, <1>2, <1>6, CallUpdates
<1>7. CASE error[r] # NoError /\ UNCHANGED <<error, taken>>
  BY <1>1, <1>2, <1>7, SMTT(40)
<1>8. \/ error[r] = NoError /\ failure = NoError /\ taken' = [taken EXCEPT ![r] = @ \cup {p.f}]
          /\ UNCHANGED error
      \/ Fail(r, "budget") /\ UNCHANGED taken
      \/ failure # NoError /\ Fail(r, failure) /\ UNCHANGED taken
      \/ error[r] # NoError /\ UNCHANGED <<error, taken>>
  BY DEF Await
<1> HIDE DEF p, failure
<1> QED BY <1>3, <1>5, <1>6, <1>7, <1>8

(* await() of the next part. *)
LEMMA AwaitKeeps ==
    ASSUME IInv, NEW r \in Requests, Await(r) PROVE IInv'
<1>0. /\ Entries(r) /\ Progress(r) /\ idx[r] \in Nat \ {0} /\ DOMAIN pending[r] = 1 .. Len(pending[r])
      /\ Len(pending[r]) \in Nat /\ taken[r] \in SUBSET Flights
  BY RequestFacts
<1>1. /\ idx' \in [Requests -> Nat \ {0}] /\ idx'[r] = idx[r] + 1
      /\ \A q \in Requests \ {r} : idx'[q] = idx[q]
  BY CallUpdates DEF Await
<1>2. /\ UNCHANGED <<parts, pc, pending, signal, claimed, flight, queue, inflight, ready,
                     lru, retained>>
      /\ pc[r] = "await" /\ idx[r] <= Len(pending[r])
      /\ pending[r][idx[r]].hit \/ Done(pending[r][idx[r]].f)
  BY DEF Await, cacheVars
<1>3. TypeOK'
  BY <1>1, <1>2, AwaitCases DEF IInv, TypeOK
<1>4. ASSUME NEW f \in Flights, f[1] = r PROVE Begun(f)' /\ Awaited(f)'
  <2>1. Begun(f) /\ f[2] \in Nat \ {0}
    BY <1>4, RequestFacts, FlightFacts
  <2>2. Begun(f)'
    BY <1>0, <1>1, <1>2, <1>4, <2>1 DEF Begun
  <2>3. Awaited(f)'
    <3>1. flight[f].st \in {"queued", "claim", "reserve", "evict", "build", "publish"} =>
              idx[r] + 1 <= f[2] /\ f[2] \in DOMAIN pending[r]
              /\ pending[r][f[2]] = [hit |-> FALSE, f |-> f]
      BY <1>2, <1>4, AwaitedDone
    <3> QED BY <1>1, <1>2, <1>4, <3>1 DEF Awaited, Permitted
  <2> QED BY <2>2, <2>3
<1>5. Entries(r)' /\ \A f : Good(f)' <=> Good(f)
  BY <1>0, <1>2, SameEntries
<1>6. Progress(r)' /\ HeldBy(r)' \subseteq HeldBy(r)
  <2>1. CASE error'[r] # NoError /\ taken'[r] = taken[r]
    BY <1>0, <1>1, <1>2, <1>5, <2>1, SameEntries DEF Progress
  <2>2. CASE /\ error[r] = NoError /\ error'[r] = NoError
             /\ taken'[r] = taken[r] \cup {pending[r][idx[r]].f}
             /\ Good(pending[r][idx[r]].f)
    <3> DEFINE g == pending[r][idx[r]].f
    <3>1. idx[r] \in DOMAIN pending[r] /\ Key(g) = parts[r][idx[r]]
      BY <1>0, <1>2, SMTT(40) DEF Entries
    <3>2. Shown(r) = Through(r) /\ Len(pending[r]) = Len(parts[r])
      BY <1>0, <1>2, <2>2 DEF Progress
    <3>3. Shown(r)' = Shown(r) \cup {Key(g)}
      BY <1>2, <2>2 DEF Shown, Key
    <3>4. Through(r)' = Through(r) \cup {parts[r][idx[r]]}
      <4>1. 1 .. idx'[r] - 1 = (1 .. idx[r] - 1) \cup {idx[r]}
        BY <1>0, <1>1
      <4> QED BY <1>2, <4>1 DEF Through
    <3>5. \A f \in taken'[r] : Good(f)'
      BY <1>0, <1>5, <2>2 DEF Progress
    <3>6. Shown(r)' = Through(r)'
      BY <3>1, <3>2, <3>3, <3>4
    <3>7. Progress(r)'
      BY <1>0, <1>1, <1>2, <2>2, <3>2, <3>5, <3>6 DEF Progress
    <3>8. HeldBy(r)' \subseteq HeldBy(r)
      BY <1>2, <2>2, <3>1 DEF HeldBy
    <3> QED BY <3>7, <3>8
  <2> QED BY <2>1, <2>2, AwaitCases
<1>7. \A q \in Requests \ {r} : error'[q] = error[q] /\ taken'[q] = taken[q]
  BY AwaitCases
<1> QED BY <1>1, <1>2, <1>3, <1>4, <1>5, <1>6, <1>7, CallStep

(* A request that has awaited everything owns no task that still runs. *)
LEMMA NothingAwaited ==
    ASSUME IInv, NEW r \in Requests, NEW f \in Flights, f[1] = r,
           (pc[r] = "await" /\ idx[r] > Len(pending[r])) \/ pc[r] \notin Permitted
    PROVE  /\ flight[f].st \notin {"queued", "claim", "reserve", "evict", "build", "publish"}
           /\ f[2] \in Nat
<1>1. Awaited(f) /\ f[2] \in Nat \ {0} /\ idx[r] \in Nat \ {0} /\ DOMAIN pending[r] = 1 .. Len(pending[r])
      /\ Len(pending[r]) \in Nat
  BY RequestFacts, FlightFacts
<1> QED BY <1>1 DEF Awaited

(* process() goes on to encode the prompt, or unwinds with its error. *)
LEMMA UnwindKeeps ==
    ASSUME IInv, NEW r \in Requests, Unwind(r) PROVE IInv'
<1>0. /\ Entries(r) /\ Progress(r) /\ idx[r] \in Nat \ {0} /\ DOMAIN pending[r] = 1 .. Len(pending[r])
      /\ Len(pending[r]) \in Nat /\ taken[r] \in SUBSET Flights /\ {"encode", "over"} \subseteq Labels
  BY RequestFacts DEF Labels
<1>1. /\ UNCHANGED <<parts, idx, error, signal, claimed, flight, queue, inflight, ready,
                     lru, retained>>
      /\ pc[r] = "await" /\ idx[r] > Len(pending[r])
  BY DEF Unwind, cacheVars
<1>2. /\ pc' \in [Requests -> Labels] /\ \A q \in Requests \ {r} : pc'[q] = pc[q]
      /\ pc'[r] = IF error[r] = NoError THEN "encode" ELSE "over"
  BY <1>0, CallUpdates DEF Unwind
<1>3. /\ pending' \in [Requests -> Seq(PendingItem)]
      /\ taken' \in [Requests -> SUBSET Flights]
      /\ \A q \in Requests \ {r} : pending'[q] = pending[q] /\ taken'[q] = taken[q]
      /\ pending'[r] = IF error[r] = NoError THEN pending[r] ELSE <<>>
      /\ taken'[r] = IF error[r] = NoError THEN taken[r] ELSE {}
  <2>1. /\ pending \in [Requests -> Seq(PendingItem)] /\ taken \in [Requests -> SUBSET Flights]
        /\ <<>> \in Seq(PendingItem)
    BY DEF IInv, TypeOK
  <2>2. CASE error[r] = NoError
    BY <2>1, <2>2 DEF Unwind
  <2>3. CASE error[r] # NoError
    BY <2>1, <2>3 DEF Unwind
  <2> QED BY <2>2, <2>3
<1>4. TypeOK'
  BY <1>1, <1>2, <1>3 DEF IInv, TypeOK
<1>5. ASSUME NEW f \in Flights, f[1] = r PROVE Begun(f)' /\ Awaited(f)'
  <2>1. Begun(f) /\ f[2] \in Nat
        /\ flight[f].st \notin {"queued", "claim", "reserve", "evict", "build", "publish"}
    BY <1>1, <1>5, RequestFacts, NothingAwaited
  <2> QED BY <1>0, <1>1, <1>2, <1>5, <2>1 DEF Begun, Awaited
<1>6. CASE error[r] = NoError
  <2>1. Shown(r) = Through(r) /\ Len(pending[r]) = Len(parts[r]) /\ idx[r] - 1 = Len(parts[r])
    BY <1>0, <1>1, <1>6 DEF Progress
  <2>2. Through(r) = ToSet(parts[r])
    <3>1. DOMAIN parts[r] = 1 .. Len(parts[r])
      BY RequestFacts
    <3> QED BY <2>1, <3>1 DEF Through, ToSet
  <2>3. Shown(r)' = Shown(r) /\ pending'[r] = pending[r] /\ taken'[r] = taken[r] /\ pc'[r] = "encode"
    BY <1>1, <1>2, <1>3, <1>6 DEF Shown, Key
  <2>4. Entries(r)' /\ HeldBy(r)' \subseteq HeldBy(r) /\ \A f : Good(f)' <=> Good(f)
    BY <1>0, <1>1, <2>3, SameEntries
  <2>5. Progress(r)'
    BY <1>0, <1>1, <2>1, <2>2, <2>3, <2>4 DEF Progress
  <2> QED BY <1>1, <1>2, <1>3, <1>4, <1>5, <2>3, <2>4, <2>5, CallStep
<1>7. CASE error[r] # NoError
  <2>1. pending'[r] = <<>> /\ taken'[r] = {} /\ pc'[r] = "over"
    BY <1>2, <1>3, <1>7
  <2>2. Entries(r)' /\ HeldBy(r)' \subseteq HeldBy(r)
    <3>1. Len(parts'[r]) \in Nat
      BY <1>1, RequestFacts
    <3> QED BY <2>1, <3>1 DEF Entries, HeldBy
  <2>3. Progress(r)'
    BY <2>1 DEF Progress
  <2> QED BY <1>1, <1>2, <1>3, <1>4, <1>5, <2>1, <2>2, <2>3, CallStep
<1> QED BY <1>6, <1>7

(* The prompt is returned with its payloads, or the encoding throws. *)
LEMMA EncodeKeeps ==
    ASSUME IInv, NEW r \in Requests, Encode(r) PROVE IInv'
<1>0. /\ Entries(r) /\ Progress(r) /\ idx[r] \in Nat \ {0} /\ taken[r] \in SUBSET Flights
      /\ {"engine", "over"} \subseteq Labels /\ Len(parts[r]) \in Nat
      /\ InterruptKind(r) \in Errors \ {NoError} /\ "invalid" \in Errors \ {NoError}
  BY RequestFacts DEF Labels, Errors, NoError
<1>1. /\ UNCHANGED <<parts, idx, signal, claimed, flight, queue, inflight, ready, lru, retained>>
      /\ pc[r] = "encode"
      /\ pending' \in [Requests -> Seq(PendingItem)]
      /\ pending'[r] = <<>> /\ \A q \in Requests \ {r} : pending'[q] = pending[q]
  BY DEF Encode, cacheVars, IInv, TypeOK
<1>2. taken \in [Requests -> SUBSET Flights] /\ error \in [Requests -> Errors]
  BY DEF IInv, TypeOK
<1>3. /\ pc' \in [Requests -> Labels] /\ \A q \in Requests \ {r} : pc'[q] = pc[q]
      /\ pc'[r] \in {"engine", "over"}
      /\ taken' \in [Requests -> SUBSET Flights]
      /\ \A q \in Requests \ {r} : taken'[q] = taken[q]
      /\ taken'[r] = IF pc'[r] = "engine" THEN taken[r] ELSE {}
  BY <1>0, <1>2, CallUpdates, ZenonT(40) DEF Encode
<1>4. error' \in [Requests -> Errors] /\ \A q \in Requests \ {r} : error'[q] = error[q]
  BY <1>0, <1>2, CallUpdates DEF Encode
<1>5. TypeOK'
  BY <1>1, <1>3, <1>4 DEF IInv, TypeOK
<1>6. ASSUME NEW f \in Flights, f[1] = r PROVE Begun(f)' /\ Awaited(f)'
  <2>1. Begun(f) /\ f[2] \in Nat
        /\ flight[f].st \notin {"queued", "claim", "reserve", "evict", "build", "publish"}
    BY <1>1, <1>6, RequestFacts, NothingAwaited DEF Permitted
  <2> QED BY <1>0, <1>1, <1>3, <1>6, <2>1 DEF Begun, Awaited
<1>7. Entries(r)' /\ HeldBy(r)' \subseteq HeldBy(r)
  BY <1>0, <1>1, <1>3 DEF Entries, HeldBy
<1>8. pc'[r] = "engine" => Shown(r)' = Shown(r)
  BY <1>1, <1>3 DEF Shown, Key
<1>9. \A f : Good(f)' <=> Good(f)
  BY <1>1 DEF Good
<1>10. Progress(r)'
  BY <1>0, <1>1, <1>3, <1>8, <1>9 DEF Progress
<1> QED BY <1>1, <1>3, <1>4, <1>5, <1>6, <1>7, <1>10, CallStep

(* The engine drops the prompt and its payloads. *)
LEMMA ReleasePromptKeeps ==
    ASSUME IInv, NEW r \in Requests, ReleasePrompt(r) PROVE IInv'
<1>0. /\ Entries(r) /\ Progress(r) /\ idx[r] \in Nat \ {0} /\ taken[r] \in SUBSET Flights
      /\ "over" \in Labels
  BY RequestFacts DEF Labels
<1>1. /\ UNCHANGED <<parts, idx, pending, error, signal, claimed, flight, queue, inflight, ready,
                     lru, retained>>
      /\ pc[r] = "engine"
      /\ taken' \in [Requests -> SUBSET Flights]
      /\ taken'[r] = {} /\ \A q \in Requests \ {r} : taken'[q] = taken[q]
  BY DEF ReleasePrompt, cacheVars, IInv, TypeOK
<1>2. /\ pc' \in [Requests -> Labels] /\ \A q \in Requests \ {r} : pc'[q] = pc[q]
      /\ pc'[r] = "over"
  BY <1>0, CallUpdates DEF ReleasePrompt
<1>3. TypeOK'
  BY <1>1, <1>2 DEF IInv, TypeOK
<1>4. ASSUME NEW f \in Flights, f[1] = r PROVE Begun(f)' /\ Awaited(f)'
  <2>1. Begun(f) /\ f[2] \in Nat
        /\ flight[f].st \notin {"queued", "claim", "reserve", "evict", "build", "publish"}
    BY <1>1, <1>4, RequestFacts, NothingAwaited DEF Permitted
  <2> QED BY <1>0, <1>1, <1>2, <1>4, <2>1 DEF Begun, Awaited
<1>5. Entries(r)' /\ HeldBy(r)' \subseteq HeldBy(r)
  BY <1>0, <1>1, SameEntries
<1>6. Progress(r)'
  BY <1>0, <1>1, <1>2 DEF Progress
<1> QED BY <1>1, <1>2, <1>3, <1>4, <1>5, <1>6, CallStep

(* A cancellation or a deadline only raises a signal. *)
LEMMA SignalKeeps ==
    ASSUME IInv, NEW r \in Requests, Signal(r) PROVE IInv'
<1>1. UNCHANGED <<parts, pc, idx, pending, error, taken, claimed, flight, queue, inflight, ready,
                  lru, retained>>
  BY DEF Signal, cacheVars
<1>2. signal' \in [Requests -> SUBSET Signals] /\ pc[r] # "over" /\ pc[r] \in Labels
  BY DEF Signal, IInv, TypeOK
<1>3. TypeOK'
  BY <1>1, <1>2 DEF IInv, TypeOK
<1>4. Tasks'
  BY <1>1, ZenonT(40) DEF IInv, Tasks, Payload, Begun, Awaited
<1>5. Single' /\ Books'
  BY <1>1 DEF IInv, Single, OneFlightPerKey, Books, Good, Key
<1>6. Calls'
  <2>1. ASSUME NEW q \in Requests PROVE (Entries(q) /\ Progress(q))'
    <3>1. Entries(q) /\ Progress(q)
      BY DEF IInv, Calls
    <3>2. Shown(q)' = Shown(q) /\ Through(q)' = Through(q)
      BY <1>1 DEF Shown, Through, Key
    <3> QED BY <1>1, <3>1, <3>2, SameEntries DEF Progress
  <2> QED BY <2>1 DEF Calls
<1>7. Account'
  <2>1. \A f \in Flights : Referenced(f)' => Referenced(f)
    BY <1>1 DEF Referenced, HeldBy
  <2> QED BY <1>1, <2>1, LiveShrinks DEF IInv
<1> QED BY <1>3, <1>4, <1>5, <1>6, <1>7 DEF IInv
-----------------------------------------------------------------------------
(* The tasks.  A task that moves on, with the flights in their places. *)
Outcome == [st : TaskStates, err : Errors, built : BOOLEAN]

(* What the invariant says of a task. *)
LEMMA TaskFacts ==
    ASSUME IInv, NEW g \in Flights
    PROVE  /\ flight[g] \in Outcome /\ flight \in [Flights -> Outcome]
           /\ Payload(g) /\ Begun(g) /\ Awaited(g) /\ g[1] \in Requests /\ Owner(g) = g[1]
           /\ flight[g].st # "none" => Key(g) \in Keys /\ Bytes[Key(g)] \in Nat \ {0}
           /\ flight[g].st \in Running \cup {"submit", "queued"} => inflight[Key(g)] = g
           /\ StopKind(g[1]) \in Errors \ {NoError}
<1>1. flight[g] \in Outcome /\ flight \in [Flights -> Outcome] /\ TypeOK
  BY DEF IInv, TypeOK, Outcome
<1>2. Payload(g) /\ Begun(g) /\ Awaited(g) /\ g[1] \in Requests /\ Owner(g) = g[1]
  BY FlightFacts DEF IInv, Tasks
<1>3. flight[g].st # "none" => Key(g) \in Keys /\ Bytes[Key(g)] \in Nat \ {0}
  BY <1>1, <1>2, KeyFacts DEF Begun
<1>4. flight[g].st \in Running \cup {"submit", "queued"} => inflight[Key(g)] = g
  BY DEF IInv, Single, OneFlightPerKey
<1> QED BY <1>1, <1>2, <1>3, <1>4, RequestFacts

(* The step of a task: its request and its place in inflight do not change. *)
LEMMA TaskStep ==
    ASSUME IInv, NEW g \in Flights, NEW t \in Outcome,
           UNCHANGED <<parts, pc, idx, pending, error, taken, inflight>>,
           flight' = [flight EXCEPT ![g] = t],
           flight[g].st \in (Running \ {"erase"}) \cup {"queued"}, t.st \in Running,
           t.st \in {"claim", "reserve", "evict"} => ~t.built /\ t.err = NoError,
           t.st = "build" => t.built /\ t.err = NoError,
           t.st \in {"publish", "erase"} /\ t.err = NoError => t.built,
           Good(g) => t.st \in {"publish", "erase"} /\ t.built /\ t.err = NoError
    PROVE  /\ Tasks' /\ Calls' /\ OneFlightPerKey'
           /\ \A k \in Keys : inflight'[k] # NoFlight =>
                 Key(inflight[k])' = k /\ flight'[inflight'[k]].st \notin {"none", "over"}
           /\ \A f \in Flights : Good(f) => Good(f)'
           /\ flight' \in [Flights -> Outcome] /\ flight'[g] = t
           /\ \A f \in Flights : f # g => flight'[f] = flight[f]
           /\ \A f : Key(f)' = Key(f)
<1>1. flight' \in [Flights -> Outcome] /\ flight'[g] = t
      /\ \A f \in Flights : f # g => flight'[f] = flight[f]
  BY TaskFacts
<1>2. \A f : Key(f)' = Key(f)
  BY DEF Key
<1>3. ASSUME NEW f \in Flights, Good(f) PROVE Good(f)'
  BY <1>1, <1>3 DEF Good
<1>4. Tasks'
  <2>1. ASSUME NEW f \in Flights, f # g PROVE (Payload(f) /\ Begun(f) /\ Awaited(f))'
    BY <1>1, <2>1, TaskFacts DEF Payload, Begun, Awaited
  <2>2. Payload(g)'
    BY <1>1 DEF Payload, Running
  <2>3. Begun(g)'
    <3>1. Begun(g)
      BY TaskFacts
    <3> QED BY <1>1, <3>1 DEF Begun, Running
  <2>4. Awaited(g)'
    <3>1. Awaited(g)
      BY TaskFacts
    <3> QED BY <1>1, <3>1 DEF Awaited, Running
  <2> QED BY <2>1, <2>2, <2>3, <2>4 DEF Tasks
<1>5. OneFlightPerKey'
  <2>1. inflight[Key(g)] = g
    BY TaskFacts
  <2>2. OneFlightPerKey
    BY DEF IInv, Single
  <2>3. ASSUME NEW f \in Flights,
               \/ flight'[f].st \in Running \cup {"submit", "queued"}
               \/ flight'[f].st = "failed" /\ pc'[Owner(f)] = "submit_failed"
        PROVE  inflight'[Key(f)'] = f
    <3>1. CASE f = g
      BY <1>2, <2>1, <3>1
    <3>2. CASE f # g
      BY <1>1, <1>2, <2>2, <2>3, <3>2 DEF OneFlightPerKey
    <3> QED BY <3>1, <3>2
  <2> QED BY <2>3 DEF OneFlightPerKey
<1>6. ASSUME NEW k \in Keys, inflight'[k] # NoFlight
      PROVE  Key(inflight[k])' = k /\ flight'[inflight'[k]].st \notin {"none", "over"}
  <2>1. /\ inflight[k] \in Flights /\ Key(inflight[k]) = k
        /\ flight[inflight[k]].st \notin {"none", "over"}
    BY <1>6 DEF IInv, Single, TypeOK
  <2> QED BY <1>1, <1>2, <2>1 DEF Running
<1>7. Calls'
  <2>1. ASSUME NEW q \in Requests PROVE (Entries(q) /\ Progress(q))'
    <3>1. /\ Entries(q) /\ Progress(q) /\ taken[q] \in SUBSET Flights
          /\ pending[q] \in Seq(PendingItem)
      BY RequestFacts
    <3>2. Shown(q)' = Shown(q) /\ Through(q)' = Through(q)
      BY DEF Shown, Through, Key
    <3>3. Progress(q)'
      BY <1>3, <3>1, <3>2 DEF Progress
    <3>4. \A i \in DOMAIN pending[q] : pending[q][i].f \in Flights
      <4>1. \A i \in DOMAIN pending[q] : pending[q][i] \in PendingItem
        BY <3>1
      <4> QED BY <4>1 DEF PendingItem
    <3>5. \A f \in Flights : flight[f].st # "none" => flight'[f].st # "none"
      BY <1>1 DEF Running
    <3>6. Entries(q)'
      BY <1>2, <1>3, <3>1, <3>4, <3>5 DEF Entries
    <3> QED BY <3>3, <3>6
  <2> QED BY <2>1 DEF Calls
<1> QED BY <1>1, <1>2, <1>3, <1>4, <1>5, <1>6, <1>7

(* ... and the cache does not change either. *)
LEMMA TaskKeeps ==
    ASSUME IInv, NEW g \in Flights, NEW t \in Outcome,
           UNCHANGED <<parts, pc, idx, pending, error, taken, signal, inflight, ready, lru, retained>>,
           claimed' \in [Requests -> Nat],
           flight' = [flight EXCEPT ![g] = t],
           flight[g].st \in (Running \ {"erase"}) \cup {"queued"}, t.st \in Running,
           t.st \in {"claim", "reserve", "evict", "build"} =>
               t.err = NoError /\ flight[g].st # "publish",
           t.st \in {"claim", "reserve", "evict"} => ~t.built,
           t.st = "build" => t.built,
           t.st \in {"publish", "erase"} /\ t.err = NoError => t.built,
           Good(g) => t.st \in {"publish", "erase"} /\ t.built /\ t.err = NoError,
           queue' \in Seq(Flights), IsInjective(queue'),
           ToSet(queue') \subseteq ToSet(queue) \ {g},
           \/ t.built => flight[g].built /\ flight[g].st \in Running
           \/ flight[g].st = "reserve" /\ Fits(Bytes[Key(g)])
    PROVE  IInv'
<1>1. /\ Tasks' /\ Calls' /\ OneFlightPerKey'
      /\ \A k \in Keys : inflight'[k] # NoFlight =>
             Key(inflight[k])' = k /\ flight'[inflight'[k]].st \notin {"none", "over"}
      /\ \A f \in Flights : Good(f) => Good(f)'
      /\ flight' \in [Flights -> Outcome] /\ flight'[g] = t
      /\ \A f \in Flights : f # g => flight'[f] = flight[f]
      /\ \A f : Key(f)' = Key(f)
  BY TaskStep
<1>2. TypeOK'
  BY <1>1 DEF IInv, TypeOK, Outcome
<1>3. Single'
  <2>1. \A f \in ToSet(queue') : f \in Flights /\ f # g /\ flight[f].st = "queued"
    <3>1. ToSet(queue) \subseteq Flights
      BY DEF IInv, TypeOK, ToSet
    <3> QED BY <3>1 DEF IInv, Single
  <2>2. \A f \in ToSet(queue') : flight'[f].st = "queued"
    BY <1>1, <2>1
  <2> QED BY <1>1, <2>2 DEF Single
<1>4. Books'
  <2>1. ASSUME NEW f \in Flights,
               flight'[f].st \in {"submit", "queued", "claim", "reserve", "evict", "build"}
        PROVE  ready[Key(f)] = NoFlight
    <3>1. flight[f].st \in {"submit", "queued", "claim", "reserve", "evict", "build"}
      BY <1>1, <2>1 DEF Running
    <3> QED BY <3>1 DEF IInv, Books
  <2>2. \A k \in Keys : ready[k] # NoFlight => ready[k] \in Flights /\ Key(ready[k]) = k /\ Good(ready[k])
    BY DEF IInv, Books, TypeOK
  <2>3. /\ ToSet(lru) = {k \in Keys : ready[k] # NoFlight}
        /\ retained = SumFunctionOnSet(Bytes, ToSet(lru)) /\ retained <= RetainLimit
    BY DEF IInv, Books
  <2> QED BY <1>1, <2>1, <2>2, <2>3 DEF Books
<1>5. Account'
  <2>1. \A q \in Requests : HeldBy(q)' = HeldBy(q)
    BY DEF HeldBy
  <2>2. ASSUME NEW f \in Flights, f # g, Referenced(f)' PROVE Referenced(f)
    BY <1>1, <2>1, <2>2 DEF Referenced
  <2>3. CASE t.built => flight[g].built /\ flight[g].st \in Running
    <3>1. Referenced(g)' => Referenced(g)
      BY <1>1, <2>3 DEF Referenced
    <3> QED BY <2>2, <3>1, LiveShrinks DEF IInv
  <2>4. CASE flight[g].st = "reserve" /\ Fits(Bytes[Key(g)])
    BY <2>2, <2>4, LiveGrows DEF IInv
  <2> QED BY <2>3, <2>4
<1> QED BY <1>1, <1>2, <1>3, <1>4, <1>5 DEF IInv

(* Where a queue without its head, or the same queue, stands. *)
LEMMA QueueFacts ==
    ASSUME IInv
    PROVE  /\ queue \in Seq(Flights) /\ IsInjective(queue) /\ ToSet(queue) \subseteq Flights
           /\ \A f \in ToSet(queue) : flight[f].st = "queued"
BY DEF IInv, TypeOK, Single, ToSet

(* A pool thread takes the front of the queue. *)
LEMMA DequeueKeeps == ASSUME IInv, Dequeue PROVE IInv'
<1> DEFINE g == Head(queue)
           t == [flight[g] EXCEPT !.st = "claim"]
<1>1. /\ g \in Flights /\ g \in ToSet(queue) /\ queue' \in Seq(Flights) /\ IsInjective(queue')
      /\ ToSet(queue') = ToSet(queue) \ {g}
  BY QueueFacts, TailRest DEF Dequeue
<1>2. flight[g].st = "queued" /\ Payload(g) /\ flight[g] \in Outcome
  BY <1>1, QueueFacts, TaskFacts
<1>3. ~flight[g].built /\ flight[g].err = NoError
  BY <1>2 DEF Payload
<1>4. t \in Outcome /\ t.st = "claim" /\ t.err = NoError /\ ~t.built
  BY <1>2, <1>3 DEF Outcome, TaskStates, Running
<1>5. flight' = [flight EXCEPT ![g] = t]
  BY <1>1, TaskFacts DEF Dequeue, TaskGoto
<1>6. /\ UNCHANGED <<parts, pc, idx, pending, error, taken, signal, inflight, ready, lru, retained>>
      /\ claimed' \in [Requests -> Nat]
  BY DEF Dequeue, procVars, cacheVars, IInv, TypeOK
<1>7. ~Good(g)
  BY <1>2 DEF Good
<1>8. "claim" \in Running
  BY DEF Running
<1> HIDE DEF g, t
<1> QED BY <1>1, <1>2, <1>4, <1>5, <1>6, <1>7, <1>8, TaskKeeps

(* A step of a running task that does not touch the queue. *)
LEMMA RunningKeeps ==
    ASSUME IInv, NEW g \in Flights, NEW t \in Outcome,
           UNCHANGED <<procVars, queue, cacheVars>>,
           claimed' \in [Requests -> Nat],
           flight' = [flight EXCEPT ![g] = t],
           flight[g].st \in Running \ {"erase"}, t.st \in Running,
           t.st \in {"claim", "reserve", "evict", "build"} =>
               t.err = NoError /\ flight[g].st # "publish",
           t.st \in {"claim", "reserve", "evict"} => ~t.built,
           t.st = "build" => t.built,
           t.st \in {"publish", "erase"} /\ t.err = NoError => t.built,
           Good(g) => t.st \in {"publish", "erase"} /\ t.built /\ t.err = NoError,
           \/ t.built => flight[g].built
           \/ flight[g].st = "reserve" /\ Fits(Bytes[Key(g)])
    PROVE  IInv'
<1>1. UNCHANGED <<parts, pc, idx, pending, error, taken, signal, inflight, ready, lru, retained>>
      /\ queue' = queue
  BY DEF procVars, cacheVars
<1>2. queue' \in Seq(Flights) /\ IsInjective(queue') /\ ToSet(queue') \subseteq ToSet(queue) \ {g}
  BY <1>1, QueueFacts DEF Running
<1>3. flight[g].st \in (Running \ {"erase"}) \cup {"queued"}
  OBVIOUS
<1> QED BY <1>1, <1>2, <1>3, TaskKeeps

(* A task fails with an error and keeps its payload or drops it. *)
LEMMA TaskFailsKeeps ==
    ASSUME IInv, NEW g \in Flights, NEW kind \in Errors \ {NoError}, NEW keep \in BOOLEAN,
           UNCHANGED <<procVars, queue, cacheVars>>,
           claimed' \in [Requests -> Nat],
           TaskFails(g, kind, keep),
           flight[g].st \in {"claim", "reserve", "build"}
    PROVE  IInv'
<1> DEFINE t == [st |-> "publish", err |-> kind, built |-> flight[g].built /\ keep]
<1>1. flight[g] \in Outcome
  BY TaskFacts
<1>2. t \in Outcome /\ t.st = "publish" /\ t.err # NoError /\ (t.built => flight[g].built)
  <2>1. (flight[g].built /\ keep) \in BOOLEAN /\ ((flight[g].built /\ keep) => flight[g].built)
    BY <1>1, Zenon DEF Outcome
  <2> DEFINE b == flight[g].built /\ keep
  <2> HIDE DEF b
  <2>2. "publish" \in TaskStates /\ kind \in Errors
    BY DEF TaskStates, Running
  <2> QED BY <2>1, <2>2 DEF Outcome, b
<1>3. flight' = [flight EXCEPT ![g] = t]
  BY DEF TaskFails
<1>4. ~Good(g) /\ flight[g].st \in Running \ {"erase"} /\ "publish" \in Running
  BY DEF Good, Running
<1> HIDE DEF t
<1> QED BY <1>2, <1>3, <1>4, RunningKeeps

(* The budget is claimed, or exceeded. *)
LEMMA ClaimKeeps == ASSUME IInv, NEW g \in Flights, Claim(g) PROVE IInv'
<1> DEFINE t == [flight[g] EXCEPT !.st = "reserve"]
<1>1. /\ flight[g].st = "claim" /\ UNCHANGED <<procVars, queue, cacheVars>>
      /\ (flight' = [flight EXCEPT ![g].st = "reserve"] \/ TaskFails(g, "budget", FALSE))
  BY DEF Claim, TaskGoto
<1>2. flight[g] \in Outcome /\ ~flight[g].built /\ flight[g].err = NoError
  BY <1>1, TaskFacts DEF Payload
<1>3. claimed' \in [Requests -> Nat]
  <2>1. /\ g[1] \in Requests /\ Owner(g) = g[1] /\ Bytes[Key(g)] \in Nat
        /\ claimed \in [Requests -> Nat]
    BY <1>1, TaskFacts DEF IInv, TypeOK
  <2> QED BY <2>1 DEF Claim
<1>4. CASE flight' = [flight EXCEPT ![g].st = "reserve"]
  <2>1. t \in Outcome /\ t.st = "reserve" /\ t.err = NoError /\ ~t.built
    BY <1>2 DEF Outcome, TaskStates, Running
  <2>2. flight' = [flight EXCEPT ![g] = t]
    BY <1>4
  <2>3. ~Good(g) /\ flight[g].st \in Running \ {"erase"} /\ "reserve" \in Running
    BY <1>1 DEF Good, Running
  <2> HIDE DEF t
  <2> QED BY <1>1, <1>3, <2>1, <2>2, <2>3, RunningKeeps
<1>5. CASE TaskFails(g, "budget", FALSE)
  <2>1. "budget" \in Errors \ {NoError} /\ FALSE \in BOOLEAN
    BY DEF Errors, NoError
  <2> QED BY <1>1, <1>3, <1>5, <2>1, TaskFailsKeeps
<1> QED BY <1>1, <1>4, <1>5

(* The reservation fits, or the builder goes on to evict. *)
LEMMA ReserveKeeps == ASSUME IInv, NEW g \in Flights, Reserve(g) PROVE IInv'
<1>1. /\ flight[g].st = "reserve" /\ UNCHANGED <<procVars, queue, cacheVars>>
      /\ claimed' \in [Requests -> Nat]
  BY DEF Reserve, IInv, TypeOK
<1>2. flight[g] \in Outcome /\ ~flight[g].built /\ flight[g].err = NoError
  BY <1>1, TaskFacts DEF Payload
<1>3. ~Good(g) /\ flight[g].st \in Running \ {"erase"} /\ {"build", "evict"} \subseteq Running
  BY <1>1 DEF Good, Running
<1>4. CASE Fits(Bytes[Key(g)])
  <2> DEFINE t == [flight[g] EXCEPT !.st = "build", !.built = TRUE]
  <2>1. t \in Outcome /\ t.st = "build" /\ t.err = NoError /\ t.built
    BY <1>2 DEF Outcome, TaskStates, Running
  <2>2. flight' = [flight EXCEPT ![g] = t]
    BY <1>4, TaskFacts DEF Reserve
  <2> HIDE DEF t
  <2> QED BY <1>1, <1>3, <1>4, <2>1, <2>2, RunningKeeps
<1>5. CASE ~Fits(Bytes[Key(g)])
  <2> DEFINE t == [flight[g] EXCEPT !.st = "evict"]
  <2>1. t \in Outcome /\ t.st = "evict" /\ t.err = NoError /\ ~t.built
    BY <1>2 DEF Outcome, TaskStates, Running
  <2>2. flight' = [flight EXCEPT ![g] = t]
    BY <1>5 DEF Reserve, TaskGoto
  <2> HIDE DEF t
  <2> QED BY <1>1, <1>3, <2>1, <2>2, RunningKeeps
<1> QED BY <1>4, <1>5

(* A control check throws in a task. *)
LEMMA StopTaskKeeps == ASSUME IInv, NEW g \in Flights, StopTask(g) PROVE IInv'
<1>1. /\ flight[g].st \in {"claim", "reserve", "build"} /\ UNCHANGED <<procVars, queue, cacheVars>>
      /\ claimed' \in [Requests -> Nat]
  BY DEF StopTask, IInv, TypeOK
<1>2. PICK keep \in {FALSE, flight[g].st = "build"} : TaskFails(g, StopKind(Owner(g)), keep)
  BY DEF StopTask
<1>3. keep \in BOOLEAN
  <2>1. (flight[g].st = "build") \in BOOLEAN /\ FALSE \in BOOLEAN
    BY Zenon
  <2> QED BY <1>2, <2>1, Zenon
<1>4. StopKind(Owner(g)) \in Errors \ {NoError}
  BY TaskFacts
<1> QED BY <1>1, <1>2, <1>3, <1>4, TaskFailsKeeps

(* The decoder rejects the media. *)
LEMMA RejectMediaKeeps == ASSUME IInv, NEW g \in Flights, RejectMedia(g) PROVE IInv'
<1>1. /\ flight[g].st \in {"claim", "reserve", "build"} /\ UNCHANGED <<procVars, queue, cacheVars>>
      /\ claimed' \in [Requests -> Nat] /\ TaskFails(g, "invalid", FALSE)
  BY DEF RejectMedia, IInv, TypeOK
<1>2. "invalid" \in Errors \ {NoError} /\ FALSE \in BOOLEAN
  BY DEF Errors, NoError
<1> QED BY <1>1, <1>2, TaskFailsKeeps

(* The flight is done. *)
LEMMA PublishKeeps == ASSUME IInv, NEW g \in Flights, Publish(g) PROVE IInv'
<1> DEFINE t == [flight[g] EXCEPT !.st = "erase"]
<1>1. /\ flight[g].st = "publish" /\ UNCHANGED <<procVars, queue, cacheVars>>
      /\ claimed' \in [Requests -> Nat] /\ flight' = [flight EXCEPT ![g] = t]
  BY DEF Publish, TaskGoto, IInv, TypeOK
<1>2. flight[g] \in Outcome /\ (flight[g].err = NoError => flight[g].built)
  BY <1>1, TaskFacts DEF Payload
<1>3. t \in Outcome /\ t.st = "erase" /\ t.err = flight[g].err /\ t.built = flight[g].built
  BY <1>2 DEF Outcome, TaskStates, Running
<1>4. flight[g].st \in Running \ {"erase"} /\ "erase" \in Running
  BY <1>1 DEF Running
<1>5. Good(g) => t.st \in {"publish", "erase"} /\ t.built /\ t.err = NoError
  BY <1>3 DEF Good
<1> HIDE DEF t
<1> QED BY <1>1, <1>2, <1>3, <1>4, <1>5, RunningKeeps
-----------------------------------------------------------------------------
(* The cache.  The first n entries of the list, and what the others weigh. *)
LEMMA EvictFacts ==
    ASSUME IInv, NEW n \in 0 .. Len(lru)
    PROVE  /\ SubSeq(lru, 1, n) \in Seq(Keys) /\ IsInjective(SubSeq(lru, 1, n))
           /\ Kept(n) \subseteq ToSet(lru) /\ ToSet(lru) \subseteq Keys
           /\ n = 0 => Kept(n) = {}
           /\ IsFiniteSet(Kept(n)) /\ \A k \in Keys : Bytes[k] \in Nat
           /\ retained - TailBytes(n) = SumFunctionOnSet(Bytes, Kept(n))
           /\ SumFunctionOnSet(Bytes, Kept(n)) \in Nat
           /\ SumFunctionOnSet(Bytes, Kept(n)) <= retained
<1>1. lru \in Seq(Keys) /\ IsInjective(lru) /\ Bytes \in [Keys -> Nat \ {0}] /\ IsFiniteSet(Keys)
  BY MediaAssumption DEF IInv, TypeOK
<1>2. ToSet(lru) \subseteq Keys
  BY <1>1 DEF ToSet
<1>3. /\ SubSeq(lru, 1, n) \in Seq(Keys) /\ IsInjective(SubSeq(lru, 1, n))
      /\ Kept(n) \subseteq ToSet(lru) /\ (n = 0 => Kept(n) = {})
  BY <1>1, PrefixRest DEF Kept
<1>4. TailBytes(n) = SumFunctionOnSet(Bytes, ToSet(lru) \ Kept(n))
  BY MapIsFunction DEF TailBytes
<1>5. IsFiniteSet(ToSet(lru)) /\ IsFiniteSet(Kept(n)) /\ IsFiniteSet(ToSet(lru) \ Kept(n))
  <2>1. ToSet(lru) \ Kept(n) \subseteq Keys /\ Kept(n) \subseteq Keys
    BY <1>2, <1>3
  <2> QED BY <1>1, <1>2, <2>1, FS_Subset
<1>6. retained = SumFunctionOnSet(Bytes, ToSet(lru))
  BY DEF IInv, Books
<1>7. (\A k \in Keys : Bytes[k] \in Nat) /\ (\A k \in ToSet(lru) : Bytes[k] \in Nat)
  BY <1>1, <1>2
<1>8. SumFunctionOnSet(Bytes, ToSet(lru))
        = SumFunctionOnSet(Bytes, Kept(n)) + SumFunctionOnSet(Bytes, ToSet(lru) \ Kept(n))
  BY <1>3, <1>5, <1>7, SumSplit
<1>9. SumFunctionOnSet(Bytes, Kept(n)) \in Nat /\ SumFunctionOnSet(Bytes, ToSet(lru) \ Kept(n)) \in Nat
  <2>1. (\A k \in Kept(n) : Bytes[k] \in Nat) /\ (\A k \in ToSet(lru) \ Kept(n) : Bytes[k] \in Nat)
    BY <1>3, <1>7
  <2> QED BY <1>5, <2>1, SumNat
<1>10. retained - TailBytes(n) = SumFunctionOnSet(Bytes, Kept(n))
       /\ SumFunctionOnSet(Bytes, Kept(n)) <= retained
  BY <1>4, <1>6, <1>8, <1>9
<1> QED BY <1>2, <1>3, <1>5, <1>7, <1>9, <1>10

(* A running task moves on and the cache changes under its mutex. *)
LEMMA CacheStep ==
    ASSUME IInv, NEW g \in Flights, NEW t \in Outcome,
           UNCHANGED <<procVars, claimed, queue, inflight>>,
           flight' = [flight EXCEPT ![g] = t],
           flight[g].st \in {"evict", "build"}, t.st \in {"reserve", "publish"},
           t.st = "reserve" => ~t.built /\ t.err = NoError /\ flight[g].st = "evict",
           t.st = "publish" => t.built /\ t.err = NoError /\ flight[g].st = "build",
           ready' \in [Keys -> Flights \cup {NoFlight}],
           lru' \in Seq(Keys), IsInjective(lru'), retained' \in Nat,
           \A k \in Keys : ready'[k] \in {NoFlight, ready[k]} \/ (ready'[k] = g /\ k = Key(g) /\ t.st = "publish"),
           ToSet(lru') = {k \in Keys : ready'[k] # NoFlight},
           retained' = SumFunctionOnSet(Bytes, ToSet(lru')), retained' <= RetainLimit
    PROVE  IInv'
<1>0. /\ UNCHANGED <<parts, pc, idx, pending, error, taken, signal, inflight>>
      /\ claimed' = claimed /\ queue' = queue
  BY DEF procVars
<1>1. /\ Tasks' /\ Calls' /\ OneFlightPerKey'
      /\ \A k \in Keys : inflight'[k] # NoFlight =>
             Key(inflight[k])' = k /\ flight'[inflight'[k]].st \notin {"none", "over"}
      /\ \A f \in Flights : Good(f) => Good(f)'
      /\ flight' \in [Flights -> Outcome] /\ flight'[g] = t
      /\ \A f \in Flights : f # g => flight'[f] = flight[f]
      /\ \A f : Key(f)' = Key(f)
  <2>1. ~Good(g) /\ flight[g].st \in (Running \ {"erase"}) \cup {"queued"} /\ t.st \in Running
    BY DEF Good, Running
  <2> QED BY <1>0, <2>1, TaskStep
<1>2. TypeOK'
  BY <1>0, <1>1 DEF IInv, TypeOK, Outcome
<1>3. Single'
  <2>1. \A f \in ToSet(queue) : f \in Flights /\ f # g /\ flight[f].st = "queued"
    BY QueueFacts
  <2>2. \A f \in ToSet(queue') : flight'[f].st = "queued"
    BY <1>0, <1>1, <2>1
  <2> QED BY <1>1, <2>2 DEF Single
<1>4. Books'
  <2>1. ASSUME NEW f \in Flights,
               flight'[f].st \in {"submit", "queued", "claim", "reserve", "evict", "build"}
        PROVE  ready'[Key(f)] = NoFlight
    <3>1. flight[f].st \in {"submit", "queued", "claim", "reserve", "evict", "build"}
          /\ (f = g => t.st = "reserve")
      BY <1>1, <2>1
    <3>2. Key(f) \in Keys /\ inflight[Key(f)] = f
      BY <3>1, TaskFacts DEF Running
    <3>3. inflight[Key(g)] = g
      BY TaskFacts DEF Running
    <3>4. ready[Key(f)] = NoFlight
      BY <3>1 DEF IInv, Books
    <3> QED BY <3>1, <3>2, <3>3, <3>4
  <2>2. \A k \in Keys : ready[k] # NoFlight => ready[k] \in Flights /\ Key(ready[k]) = k /\ Good(ready[k])
    BY DEF IInv, Books, TypeOK
  <2>3. t.st = "publish" => Good(g)'
    BY <1>1 DEF Good
  <2>4. ASSUME NEW k \in Keys, ready'[k] # NoFlight PROVE Key(ready'[k]) = k /\ Good(ready[k])'
    <3>1. CASE ready'[k] = ready[k]
      BY <1>1, <2>2, <2>4, <3>1 DEF Good
    <3>2. CASE ready'[k] = g /\ k = Key(g) /\ t.st = "publish"
      BY <2>3, <3>2 DEF Good
    <3> QED BY <2>4, <3>1, <3>2
  <2> QED BY <1>1, <2>1, <2>4 DEF Books
<1>5. Account'
  <2>1. \A q \in Requests : HeldBy(q)' = HeldBy(q)
    BY <1>0 DEF HeldBy
  <2>2. ASSUME NEW f \in Flights, Referenced(f)' PROVE Referenced(f)
    <3>1. CASE f = g
      <4>1. t.st = "publish" /\ flight[g].built /\ flight[g].st = "build"
        <5>1. t.built
          BY <1>1, <2>2, <3>1 DEF Referenced
        <5>2. t.st = "publish" /\ flight[g].st = "build"
          BY <5>1
        <5> QED BY <5>2, TaskFacts DEF Payload
      <4> QED BY <3>1, <4>1 DEF Referenced, Running
    <3>2. CASE f # g
      <4>1. \A k \in Keys : ready'[k] = f => ready[k] = f
        BY <3>2, FlightFacts
      <4> QED BY <1>1, <2>1, <2>2, <3>2, <4>1 DEF Referenced
    <3> QED BY <3>1, <3>2
  <2> QED BY <1>0, <2>2, LiveShrinks DEF IInv
<1> QED BY <1>1, <1>2, <1>3, <1>4, <1>5 DEF IInv

(* evict_one_locked(), and back to the reservation. *)
LEMMA EvictOneKeeps == ASSUME IInv, NEW g \in Flights, EvictOne(g) PROVE IInv'
<1> DEFINE t == [flight[g] EXCEPT !.st = "reserve"]
<1>1. /\ flight[g].st = "evict" /\ UNCHANGED <<procVars, claimed, queue, inflight>>
      /\ flight' = [flight EXCEPT ![g] = t]
  BY DEF EvictOne, TaskGoto
<1>2. flight[g] \in Outcome /\ ~flight[g].built /\ flight[g].err = NoError
  BY <1>1, TaskFacts DEF Payload
<1>3. t \in Outcome /\ t.st = "reserve" /\ t.err = NoError /\ ~t.built
  BY <1>2 DEF Outcome, TaskStates, Running
<1>4. /\ ready \in [Keys -> Flights \cup {NoFlight}] /\ lru \in Seq(Keys) /\ IsInjective(lru)
      /\ retained \in Nat
      /\ ToSet(lru) = {k \in Keys : ready[k] # NoFlight}
      /\ retained = SumFunctionOnSet(Bytes, ToSet(lru)) /\ retained <= RetainLimit
      /\ RetainLimit \in Nat
  BY MediaAssumption DEF IInv, TypeOK, Books
<1> HIDE DEF t
<1>5. CASE lru = <<>>
  <2>1. UNCHANGED <<lru, ready, retained>>
    BY <1>5 DEF EvictOne
  <2> QED BY <1>1, <1>3, <1>4, <2>1, CacheStep
<1>6. CASE lru # <<>>
  <2> DEFINE n == Len(lru) - 1
  <2>1. n \in 0 .. Len(lru)
    BY <1>4, <1>6
  <2>2. Evict(n)
    BY <1>6 DEF EvictOne
  <2> HIDE DEF n
  <2>3. /\ SubSeq(lru, 1, n) \in Seq(Keys) /\ IsInjective(SubSeq(lru, 1, n))
        /\ Kept(n) \subseteq ToSet(lru) /\ ToSet(lru) \subseteq Keys
        /\ retained - TailBytes(n) = SumFunctionOnSet(Bytes, Kept(n))
        /\ SumFunctionOnSet(Bytes, Kept(n)) \in Nat
        /\ SumFunctionOnSet(Bytes, Kept(n)) <= retained
    BY <2>1, EvictFacts
  <2>4. lru' \in Seq(Keys) /\ IsInjective(lru') /\ ToSet(lru') = Kept(n)
    BY <2>2, <2>3 DEF Evict, Kept
  <2>5. /\ ready' \in [Keys -> Flights \cup {NoFlight}]
        /\ \A k \in Keys : ready'[k] = IF k \in Kept(n) THEN ready[k] ELSE NoFlight
    BY <1>4, <2>2 DEF Evict
  <2>6. ToSet(lru') = {k \in Keys : ready'[k] # NoFlight}
    BY <1>4, <2>3, <2>4, <2>5
  <2>7. retained' \in Nat /\ retained' = SumFunctionOnSet(Bytes, ToSet(lru')) /\ retained' <= RetainLimit
    BY <1>4, <2>2, <2>3, <2>4 DEF Evict
  <2> QED BY <1>1, <1>3, <2>4, <2>5, <2>6, <2>7, CacheStep
<1> QED BY <1>5, <1>6

(* A finished build is offered to the cache. *)
LEMMA BuildKeeps == ASSUME IInv, NEW g \in Flights, Build(g) PROVE IInv'
<1> DEFINE t == [flight[g] EXCEPT !.st = "publish"]
           k == Key(g)
<1>1. /\ flight[g].st = "build" /\ UNCHANGED <<procVars, claimed, queue, inflight>>
      /\ flight' = [flight EXCEPT ![g] = t] /\ Retain(g)
  BY DEF Build, TaskGoto
<1>2. flight[g] \in Outcome /\ flight[g].built /\ flight[g].err = NoError
  BY <1>1, TaskFacts DEF Payload
<1>3. t \in Outcome /\ t.st = "publish" /\ t.err = NoError /\ t.built
  BY <1>2 DEF Outcome, TaskStates, Running
<1>4. /\ ready \in [Keys -> Flights \cup {NoFlight}] /\ lru \in Seq(Keys) /\ IsInjective(lru)
      /\ retained \in Nat
      /\ ToSet(lru) = {x \in Keys : ready[x] # NoFlight}
      /\ retained = SumFunctionOnSet(Bytes, ToSet(lru)) /\ retained <= RetainLimit
      /\ RetainLimit \in Nat
  BY MediaAssumption DEF IInv, TypeOK, Books
<1>5. k \in Keys /\ Bytes[k] \in Nat /\ k \notin ToSet(lru)
  <2>1. ready[Key(g)] = NoFlight
    BY <1>1 DEF IInv, Books
  <2> QED BY <1>1, <1>4, <2>1, TaskFacts
<1> HIDE DEF t
<1>6. CASE Bytes[k] > RetainLimit
  <2>1. UNCHANGED <<ready, lru, retained>>
    BY <1>1, <1>6 DEF Retain
  <2> QED BY <1>1, <1>3, <1>4, <2>1, CacheStep
<1>7. CASE ~(Bytes[k] > RetainLimit)
  <2> DEFINE M == {m \in 0 .. Len(lru) : retained - TailBytes(m) + Bytes[k] <= RetainLimit}
             n == Max(M)
  <2>1. n \in M
    <3>1. 0 .. Len(lru) \subseteq Nat /\ 0 \in 0 .. Len(lru) /\ Len(lru) \in Nat
      BY <1>4
    <3>2. IsFiniteSet(M)
      <4>1. IsFiniteSet(0 .. Len(lru)) /\ M \subseteq 0 .. Len(lru)
        BY <3>1, FS_Interval
      <4> HIDE DEF M
      <4> QED BY <4>1, FS_Subset
    <3>3. 0 \in M
      <4>1. retained - TailBytes(0) = SumFunctionOnSet(Bytes, Kept(0)) /\ Kept(0) = {}
        BY <3>1, EvictFacts
      <4>2. retained - TailBytes(0) = 0
        BY <4>1, SumEmpty
      <4> QED BY <1>4, <1>5, <1>7, <3>1, <4>2
    <3>4. M \subseteq Nat /\ M # {}
      BY <3>1, <3>3
    <3> HIDE DEF M
    <3> QED BY <3>2, <3>4, FiniteMax
  <2>2. /\ lru' = <<k>> \o SubSeq(lru, 1, n)
        /\ ready' = [x \in Keys |-> IF x \in Kept(n) THEN ready[x]
                                    ELSE IF x = k THEN g ELSE NoFlight]
        /\ retained' = retained - TailBytes(n) + Bytes[k]
    BY <1>1, <1>7 DEF Retain
  <2>3. n \in 0 .. Len(lru) /\ retained - TailBytes(n) + Bytes[k] <= RetainLimit
    BY <2>1
  <2> HIDE DEF M, n, k
  <2>4. /\ SubSeq(lru, 1, n) \in Seq(Keys) /\ IsInjective(SubSeq(lru, 1, n))
        /\ Kept(n) \subseteq ToSet(lru) /\ ToSet(lru) \subseteq Keys
        /\ IsFiniteSet(Kept(n)) /\ \A x \in Keys : Bytes[x] \in Nat
        /\ retained - TailBytes(n) = SumFunctionOnSet(Bytes, Kept(n))
        /\ SumFunctionOnSet(Bytes, Kept(n)) \in Nat
    BY <2>3, EvictFacts
  <2>5. lru' \in Seq(Keys) /\ IsInjective(lru') /\ ToSet(lru') = Kept(n) \cup {k}
    <3>1. k \notin ToSet(SubSeq(lru, 1, n))
      BY <1>5, <2>4 DEF Kept
    <3> QED BY <1>5, <2>2, <2>4, <3>1, ConsNew, ZenonT(40) DEF Kept
  <2>6. ready' \in [Keys -> Flights \cup {NoFlight}]
    BY <1>4, <2>2
  <2>7. \A x \in Keys : ready'[x] \in {NoFlight, ready[x]} \/ (ready'[x] = g /\ x = Key(g) /\ t.st = "publish")
    BY <1>3, <2>2 DEF k
  <2>8. ToSet(lru') = {x \in Keys : ready'[x] # NoFlight}
    <3>1. ASSUME NEW x \in Keys PROVE x \in Kept(n) \cup {k} <=> ready'[x] # NoFlight
      BY <1>4, <1>5, <2>2, <2>4, FlightFacts
    <3> QED BY <1>5, <2>4, <2>5, <3>1
  <2>9. retained' \in Nat /\ retained' = SumFunctionOnSet(Bytes, ToSet(lru')) /\ retained' <= RetainLimit
    <3>1. k \notin Kept(n) /\ \A x \in Kept(n) \cup {k} : Bytes[x] \in Nat
      BY <1>5, <2>4
    <3>2. SumFunctionOnSet(Bytes, Kept(n) \cup {k}) = Bytes[k] + SumFunctionOnSet(Bytes, Kept(n))
      BY <2>4, <3>1, SumAdd
    <3>3. retained' = SumFunctionOnSet(Bytes, Kept(n)) + Bytes[k] /\ retained' <= RetainLimit
      BY <2>2, <2>3, <2>4
    <3>4. retained' \in Nat /\ retained' = SumFunctionOnSet(Bytes, Kept(n) \cup {k})
      BY <1>5, <2>4, <3>2, <3>3
    <3> QED BY <2>5, <3>3, <3>4
  <2> QED BY <1>1, <1>3, <2>5, <2>6, <2>7, <2>8, <2>9, CacheStep
<1> QED BY <1>6, <1>7
-----------------------------------------------------------------------------
(* The key is erased from inflight: it still names the task that erases it. *)
LEMMA EraseKeeps == ASSUME IInv, NEW g \in Flights, Erase(g) PROVE IInv'
<1> DEFINE t == [flight[g] EXCEPT !.st = "over"]
           k == Key(g)
<1>1. /\ flight[g].st = "erase" /\ flight' = [flight EXCEPT ![g] = t]
      /\ inflight' = [inflight EXCEPT ![k] = NoFlight]
      /\ UNCHANGED <<parts, pc, idx, pending, error, taken, signal, claimed, queue, ready, lru, retained>>
  BY DEF Erase, TaskGoto, procVars
<1>2. /\ flight[g] \in Outcome /\ flight \in [Flights -> Outcome] /\ Payload(g) /\ Begun(g)
      /\ k \in Keys /\ inflight[k] = g
  BY <1>1, TaskFacts DEF Running
<1>3. t \in Outcome /\ t.st = "over" /\ t.err = flight[g].err /\ t.built = flight[g].built
  BY <1>2 DEF Outcome, TaskStates
<1> HIDE DEF t, k
<1>4. /\ flight' \in [Flights -> Outcome] /\ flight'[g] = t
      /\ \A f \in Flights : f # g => flight'[f] = flight[f]
  BY <1>1, <1>2, <1>3
<1>5. /\ inflight' \in [Keys -> Flights \cup {NoFlight}] /\ inflight'[k] = NoFlight
      /\ \A x \in Keys : x # k => inflight'[x] = inflight[x]
  <2>1. inflight \in [Keys -> Flights \cup {NoFlight}]
    BY DEF IInv, TypeOK
  <2> QED BY <1>1, <1>2, <2>1
<1>6. (\A f : Key(f)' = Key(f)) /\ \A f \in Flights : Good(f) => Good(f)'
  BY <1>1, <1>3, <1>4 DEF Key, Good
<1>7. TypeOK'
  BY <1>1, <1>4, <1>5 DEF IInv, TypeOK, Outcome
<1>8. Tasks'
  <2>1. ASSUME NEW f \in Flights, f # g PROVE (Payload(f) /\ Begun(f) /\ Awaited(f))'
    BY <1>1, <1>4, <2>1, TaskFacts DEF Payload, Begun, Awaited
  <2>2. Payload(g)' /\ Begun(g)' /\ Awaited(g)'
    BY <1>1, <1>2, <1>3, <1>4 DEF Payload, Begun, Awaited
  <2> QED BY <2>1, <2>2 DEF Tasks
<1>9. Single'
  <2>1. ASSUME NEW f \in Flights,
               \/ flight'[f].st \in Running \cup {"submit", "queued"}
               \/ flight'[f].st = "failed" /\ pc'[Owner(f)] = "submit_failed"
        PROVE  inflight'[Key(f)'] = f
    <3>1. f # g
      BY <1>3, <1>4, <2>1 DEF Running
    <3>2. inflight[Key(f)] = f /\ flight[f].st # "none"
      BY <1>1, <1>4, <2>1, <3>1 DEF IInv, Single, OneFlightPerKey, Running
    <3>3. Key(f) \in Keys /\ Key(f) # k
      BY <1>2, <3>1, <3>2, TaskFacts
    <3> QED BY <1>5, <1>6, <3>2, <3>3
  <2>2. ASSUME NEW x \in Keys, inflight'[x] # NoFlight
        PROVE  Key(inflight[x])' = x /\ flight'[inflight'[x]].st \notin {"none", "over"}
    <3>1. x # k /\ inflight'[x] = inflight[x]
      BY <1>5, <2>2
    <3>2. inflight[x] \in Flights /\ Key(inflight[x]) = x /\ flight[inflight[x]].st \notin {"none", "over"}
      BY <2>2, <3>1 DEF IInv, Single, TypeOK
    <3>3. inflight[x] # g
      BY <3>1, <3>2 DEF k
    <3> QED BY <1>4, <1>6, <3>1, <3>2, <3>3
  <2>3. \A f \in ToSet(queue') : flight'[f].st = "queued"
    BY <1>1, <1>4, QueueFacts
  <2> QED BY <2>1, <2>2, <2>3 DEF Single, OneFlightPerKey
<1>10. Calls'
  <2>1. ASSUME NEW q \in Requests PROVE (Entries(q) /\ Progress(q))'
    <3>1. /\ Entries(q) /\ Progress(q) /\ taken[q] \in SUBSET Flights
          /\ pending[q] \in Seq(PendingItem)
      BY RequestFacts
    <3>2. Shown(q)' = Shown(q) /\ Through(q)' = Through(q)
      BY <1>1 DEF Shown, Through, Key
    <3>3. Progress(q)'
      BY <1>1, <1>6, <3>1, <3>2 DEF Progress
    <3>4. \A i \in DOMAIN pending[q] : pending[q][i].f \in Flights
      <4>1. \A i \in DOMAIN pending[q] : pending[q][i] \in PendingItem
        BY <3>1
      <4> QED BY <4>1 DEF PendingItem
    <3>5. \A f \in Flights : flight[f].st # "none" => flight'[f].st # "none"
      BY <1>3, <1>4
    <3>6. Entries(q)'
      BY <1>1, <1>6, <3>1, <3>4, <3>5 DEF Entries
    <3> QED BY <3>3, <3>6
  <2> QED BY <2>1 DEF Calls
<1>11. Books'
  <2>1. ASSUME NEW f \in Flights,
               flight'[f].st \in {"submit", "queued", "claim", "reserve", "evict", "build"}
        PROVE  ready[Key(f)] = NoFlight
    BY <1>3, <1>4, <2>1 DEF IInv, Books
  <2>2. \A x \in Keys : ready[x] # NoFlight => ready[x] \in Flights /\ Key(ready[x]) = x /\ Good(ready[x])
    BY DEF IInv, Books, TypeOK
  <2>3. /\ ToSet(lru) = {x \in Keys : ready[x] # NoFlight}
        /\ retained = SumFunctionOnSet(Bytes, ToSet(lru)) /\ retained <= RetainLimit
    BY DEF IInv, Books
  <2> QED BY <1>1, <1>6, <2>1, <2>2, <2>3 DEF Books
<1>12. Account'
  <2>1. ASSUME NEW f \in Flights, Referenced(f)' PROVE Referenced(f)
    <3>1. CASE f = g
      BY <1>1, <1>3, <1>4, <2>1, <3>1 DEF Referenced, Running
    <3>2. CASE f # g
      BY <1>1, <1>4, <2>1, <3>2 DEF Referenced, HeldBy
    <3> QED BY <3>1, <3>2
  <2> QED BY <1>1, <2>1, LiveShrinks DEF IInv
<1> QED BY <1>7, <1>8, <1>9, <1>10, <1>11, <1>12 DEF IInv

(* One more entry for the part a request has begun. *)
LEMMA PendingAppend ==
    ASSUME IInv, NEW r \in Requests, pc[r] \in {"begin", "submit"}, idx[r] <= Len(parts[r]),
           NEW p \in PendingItem, pending' = [pending EXCEPT ![r] = Append(@, p)],
           parts' = parts, taken' = taken,
           \A f \in Flights : Good(f) => Good(f)',
           \A f \in Flights : flight[f].st # "none" => flight'[f].st # "none",
           flight'[p.f].st # "none", Key(p.f) = parts[r][idx[r]], p.hit => Good(p.f)'
    PROVE  /\ pending' \in [Requests -> Seq(PendingItem)]
           /\ \A q \in Requests \ {r} : pending'[q] = pending[q]
           /\ DOMAIN pending[r] = 1 .. idx[r] - 1
           /\ Len(pending'[r]) = idx[r] /\ DOMAIN pending'[r] = 1 .. idx[r]
           /\ pending'[r][idx[r]] = p
           /\ \A i \in 1 .. idx[r] - 1 : pending'[r][i] = pending[r][i]
           /\ Entries(r)'
           /\ HeldBy(r)' \subseteq HeldBy(r) \cup {p.f}
<1>1. /\ pending \in [Requests -> Seq(PendingItem)] /\ pending[r] \in Seq(PendingItem)
      /\ Len(pending[r]) \in Nat /\ DOMAIN pending[r] = 1 .. Len(pending[r])
      /\ idx[r] \in Nat \ {0} /\ Entries(r) /\ Progress(r)
  BY RequestFacts DEF IInv, TypeOK
<1>2. Len(pending[r]) = idx[r] - 1
  BY <1>1 DEF Progress
<1>3. pending'[r] = Append(pending[r], p)
  BY <1>1
<1>4. /\ pending'[r] \in Seq(PendingItem) /\ Len(pending'[r]) = Len(pending[r]) + 1
      /\ pending'[r][Len(pending[r]) + 1] = p
      /\ \A i \in 1 .. Len(pending[r]) : pending'[r][i] = pending[r][i]
  BY <1>1, <1>3, AppendProperties
<1>5. /\ Len(pending'[r]) = idx[r] /\ DOMAIN pending'[r] = 1 .. idx[r]
      /\ pending'[r][idx[r]] = p /\ DOMAIN pending[r] = 1 .. idx[r] - 1
      /\ \A i \in 1 .. idx[r] - 1 : pending'[r][i] = pending[r][i]
  <2>1. Len(pending[r]) + 1 = idx[r]
    BY <1>1, <1>2
  <2> QED BY <1>1, <1>2, <1>4, <2>1
<1>6. /\ pending' \in [Requests -> Seq(PendingItem)]
      /\ \A q \in Requests \ {r} : pending'[q] = pending[q]
  BY <1>1, <1>3, <1>4
<1>7. \A i \in 1 .. idx[r] : i # idx[r] => i \in 1 .. idx[r] - 1
  BY <1>1
<1>8. ASSUME NEW i \in DOMAIN pending'[r]
      PROVE  /\ flight'[pending'[r][i].f].st # "none"
             /\ Key(pending[r][i].f)' = parts[r][i]
             /\ pending'[r][i].hit => Good(pending[r][i].f)'
  <2>1. CASE i = idx[r]
    BY <1>5, <2>1, SMTT(40) DEF Key, Good
  <2>2. CASE i # idx[r]
    <3>1. i \in DOMAIN pending[r] /\ pending'[r][i] = pending[r][i]
      BY <1>5, <1>7, <2>2
    <3>2. pending[r][i] \in PendingItem
      BY <1>1, <3>1
    <3>3. pending[r][i].f \in Flights
      BY <3>2 DEF PendingItem
    <3>4. /\ flight[pending[r][i].f].st # "none" /\ Key(pending[r][i].f) = parts[r][i]
          /\ pending[r][i].hit => Good(pending[r][i].f)
      BY <1>1, <3>1 DEF Entries
    <3> QED BY <3>1, <3>3, <3>4 DEF Key, Good
  <2> QED BY <2>1, <2>2, SMTT(40)
<1>9. Entries(r)'
  BY <1>5, <1>8 DEF Entries
<1>10. HeldBy(r)' \subseteq HeldBy(r) \cup {p.f}
  <2>1. ASSUME NEW i \in 1 .. idx[r] PROVE pending'[r][i].f \in HeldBy(r) \cup {p.f}
    BY <1>5, <1>7 DEF HeldBy
  <2> QED BY <1>5, <2>1 DEF HeldBy
<1> QED BY <1>5, <1>6, <1>9, <1>10

(* The part a request is about to begin, and the task it would open for it. *)
LEMMA PartFacts ==
    ASSUME IInv, NEW r \in Requests, idx[r] <= Len(parts[r])
    PROVE  /\ <<r, idx[r]>> \in Flights /\ Key(<<r, idx[r]>>) = parts[r][idx[r]]
           /\ parts[r][idx[r]] \in Keys
           /\ <<r, idx[r]>>[1] = r /\ <<r, idx[r]>>[2] = idx[r]
           /\ \A f \in Flights : f[1] = r /\ f # <<r, idx[r]>> => f[2] # idx[r]
<1>1. idx[r] \in Nat \ {0} /\ parts[r] \in PartLists /\ parts[r] \in Seq(Keys)
  BY RequestFacts
<1>2. idx[r] \in 1 .. Len(parts[r])
  BY <1>1
<1> QED BY <1>1, <1>2, FlightFacts DEF Key

(* A hit pins the payload and moves its key to the front. *)
LEMMA BeginHitKeeps ==
    ASSUME IInv, NEW r \in Requests, pc[r] = "begin", idx[r] <= Len(parts[r]),
           BeginHit(r), UNCHANGED <<parts, error, taken, signal, claimed, queue, ready, retained>>
    PROVE  IInv'
<1>a. PICK k, g : k = parts[r][idx[r]] /\ g = ready[k]
  OBVIOUS
<1> DEFINE p == [hit |-> TRUE, f |-> g]
<1>1. /\ g # NoFlight /\ lru' = <<k>> \o Without(lru, {k})
      /\ pending' = [pending EXCEPT ![r] = Append(@, p)]
      /\ Advance(r) /\ UNCHANGED <<pc, flight, inflight>>
  BY <1>a DEF BeginHit
<1>2. /\ k \in Keys /\ g \in Flights /\ Key(g) = k /\ Good(g) /\ k \in ToSet(lru)
      /\ lru \in Seq(Keys) /\ IsInjective(lru)
  <2>1. k \in Keys
    BY <1>a, PartFacts
  <2>2. TypeOK /\ Books
    BY DEF IInv
  <2>3. /\ ready \in [Keys -> Flights \cup {NoFlight}]
        /\ lru \in Seq(Keys) /\ IsInjective(lru)
    BY <2>2 DEF TypeOK
  <2>4. g \in Flights
    BY <1>a, <1>1, <2>1, <2>3
  <2>5. Key(g) = k /\ Good(g) /\ k \in ToSet(lru)
    BY <1>a, <1>1, <2>1, <2>2, Zenon DEF Books
  <2> QED BY <2>1, <2>3, <2>4, <2>5
<1>3. p \in PendingItem /\ p.f = g /\ p.hit
  BY <1>2 DEF PendingItem
<1>4. Key(g) = parts[r][idx[r]]
  BY <1>a, <1>2
<1> HIDE DEF p
<1>5. lru' \in Seq(Keys) /\ IsInjective(lru') /\ ToSet(lru') = ToSet(lru)
  <2> DEFINE w == Without(lru, {k})
  <2>1. w \in Seq(Keys) /\ IsInjective(w) /\ ToSet(w) = ToSet(lru) \ {k} /\ lru' = <<k>> \o w
    BY <1>1, <1>2, WithoutKeeps
  <2>2. k \notin ToSet(w) /\ k \in Keys
    BY <1>2, <2>1
  <2> HIDE DEF w
  <2>3. lru' \in Seq(Keys) /\ IsInjective(lru') /\ ToSet(lru') = (ToSet(lru) \ {k}) \cup {k}
    BY <2>1, <2>2, ConsNew
  <2> QED BY <1>2, <2>3
<1>6. /\ \A f \in Flights : Good(f) => Good(f)'
      /\ Good(g)' /\ flight'[g].st # "none"
  BY <1>1, <1>2 DEF Good
<1>7. /\ pending' \in [Requests -> Seq(PendingItem)]
      /\ \A q \in Requests \ {r} : pending'[q] = pending[q]
      /\ DOMAIN pending[r] = 1 .. idx[r] - 1
      /\ Len(pending'[r]) = idx[r] /\ DOMAIN pending'[r] = 1 .. idx[r]
      /\ \A i \in 1 .. idx[r] - 1 : pending'[r][i] = pending[r][i]
      /\ Entries(r)' /\ HeldBy(r)' \subseteq HeldBy(r) \cup {g}
  BY <1>1, <1>3, <1>4, <1>6, PendingAppend
<1>8. /\ idx' \in [Requests -> Nat \ {0}] /\ idx'[r] = idx[r] + 1
      /\ \A q \in Requests \ {r} : idx'[q] = idx[q]
  BY <1>1, CallUpdates
<1>9. TypeOK'
  BY <1>1, <1>5, <1>7, <1>8 DEF IInv, TypeOK
<1>10. Progress(r) /\ idx[r] \in Nat \ {0}
  BY RequestFacts
<1>11. ASSUME NEW f \in Flights, f[1] = r PROVE Begun(f)' /\ Awaited(f)'
  <2>1. Begun(f) /\ Awaited(f) /\ f[2] \in Nat \ {0}
    BY <1>11, RequestFacts, FlightFacts
  <2>2. Begun(f)'
    BY <1>1, <1>8, <1>10, <1>11, <2>1 DEF Begun
  <2>3. Awaited(f)'
    <3>1. \A i \in 1 .. idx[r] - 1 : i \in 1 .. idx[r]
      BY <1>10
    <3> QED BY <1>1, <1>7, <1>11, <2>1, <3>1 DEF Awaited, Permitted
  <2> QED BY <2>2, <2>3
<1>12. Progress(r)'
  <2>1. idx'[r] - 1 = idx[r] /\ taken[r] = {}
    BY <1>8, <1>10 DEF Progress
  <2> QED BY <1>1, <1>7, <1>10, <2>1 DEF Progress
<1>13. \A f \in Flights : f \in HeldBy(r)' /\ flight'[f].built => Referenced(f)
  <2>1. Referenced(g)
    BY <1>a, <1>2 DEF Referenced, Good
  <2> QED BY <1>1, <1>7, <2>1 DEF Referenced
<1>14. Tasks' /\ Calls' /\ Books' /\ Account'
  BY <1>1, <1>5, <1>7, <1>8, <1>9, <1>11, <1>12, <1>13, CallFrame
<1>15. Single'
  BY <1>1 DEF IInv, Single, OneFlightPerKey, Key
<1> QED BY <1>9, <1>14, <1>15 DEF IInv

(* A join waits for the task of another request, or an earlier one of its own. *)
LEMMA BeginJoinKeeps ==
    ASSUME IInv, NEW r \in Requests, pc[r] = "begin", idx[r] <= Len(parts[r]),
           BeginJoin(r), UNCHANGED <<parts, error, taken, signal, claimed, queue, ready, retained>>
    PROVE  IInv'
<1>a. PICK k, g : k = parts[r][idx[r]] /\ g = inflight[k]
  OBVIOUS
<1> DEFINE p == [hit |-> FALSE, f |-> g]
<1>1. /\ g # NoFlight
      /\ pending' = [pending EXCEPT ![r] = Append(@, p)]
      /\ Advance(r) /\ UNCHANGED <<pc, lru, flight, inflight>>
  BY <1>a DEF BeginJoin
<1>2. /\ k \in Keys /\ g \in Flights /\ Key(g) = k /\ flight[g].st \notin {"none", "over"}
  <2>1. k \in Keys /\ inflight \in [Keys -> Flights \cup {NoFlight}]
    BY <1>a, PartFacts DEF IInv, TypeOK
  <2>2. \A x \in Keys : inflight[x] # NoFlight =>
            Key(inflight[x]) = x /\ flight[inflight[x]].st \notin {"none", "over"}
    BY DEF IInv, Single
  <2> QED BY <1>a, <1>1, <2>1, <2>2
<1>3. p \in PendingItem /\ p.f = g /\ ~p.hit
  BY <1>2 DEF PendingItem
<1>4. Key(g) = parts[r][idx[r]]
  BY <1>a, <1>2
<1> HIDE DEF p
<1>5. /\ \A f \in Flights : Good(f) => Good(f)'
      /\ flight'[g].st # "none"
  BY <1>1, <1>2 DEF Good
<1>6. /\ pending' \in [Requests -> Seq(PendingItem)]
      /\ \A q \in Requests \ {r} : pending'[q] = pending[q]
      /\ DOMAIN pending[r] = 1 .. idx[r] - 1
      /\ Len(pending'[r]) = idx[r] /\ DOMAIN pending'[r] = 1 .. idx[r]
      /\ \A i \in 1 .. idx[r] - 1 : pending'[r][i] = pending[r][i]
      /\ Entries(r)' /\ HeldBy(r)' \subseteq HeldBy(r) \cup {g}
  BY <1>1, <1>3, <1>4, <1>5, PendingAppend
<1>7. /\ idx' \in [Requests -> Nat \ {0}] /\ idx'[r] = idx[r] + 1
      /\ \A q \in Requests \ {r} : idx'[q] = idx[q]
  BY <1>1, CallUpdates
<1>8. TypeOK'
  BY <1>1, <1>6, <1>7 DEF IInv, TypeOK
<1>9. Progress(r) /\ idx[r] \in Nat \ {0}
  BY RequestFacts
<1>10. ASSUME NEW f \in Flights, f[1] = r PROVE Begun(f)' /\ Awaited(f)'
  <2>1. Begun(f) /\ Awaited(f) /\ f[2] \in Nat \ {0}
    BY <1>10, RequestFacts, FlightFacts
  <2>2. Begun(f)'
    BY <1>1, <1>7, <1>9, <1>10, <2>1 DEF Begun
  <2>3. Awaited(f)'
    <3>1. \A i \in 1 .. idx[r] - 1 : i \in 1 .. idx[r]
      BY <1>9
    <3> QED BY <1>1, <1>6, <1>10, <2>1, <3>1 DEF Awaited, Permitted
  <2> QED BY <2>2, <2>3
<1>11. Progress(r)'
  <2>1. idx'[r] - 1 = idx[r] /\ taken[r] = {}
    BY <1>7, <1>9 DEF Progress
  <2> QED BY <1>1, <1>6, <1>9, <2>1 DEF Progress
<1>12. \A f \in Flights : f \in HeldBy(r)' /\ flight'[f].built => Referenced(f)
  <2>1. flight[g].built => Referenced(g)
    <3>1. Payload(g) /\ flight[g] \in Outcome
      BY <1>2, TaskFacts
    <3>2. flight[g].built => flight[g].st \in Running
      BY <1>2, <3>1 DEF Payload, Outcome, TaskStates, Running
    <3> QED BY <3>2 DEF Referenced
  <2> QED BY <1>1, <1>6, <2>1 DEF Referenced
<1>13. Tasks' /\ Calls' /\ Books' /\ Account'
  BY <1>1, <1>6, <1>7, <1>8, <1>10, <1>11, <1>12, CallFrame
<1>14. Single'
  BY <1>1 DEF IInv, Single, OneFlightPerKey, Key
<1> QED BY <1>8, <1>13, <1>14 DEF IInv

(* A request opens a task for a key that nobody builds. *)
LEMMA BeginProduceKeeps ==
    ASSUME IInv, NEW r \in Requests, pc[r] = "begin", idx[r] <= Len(parts[r]),
           BeginProduce(r), UNCHANGED <<parts, error, taken, signal, claimed, queue, ready, retained>>
    PROVE  IInv'
<1>a. PICK k, g : k = parts[r][idx[r]] /\ g = <<r, idx[r]>>
  OBVIOUS
<1> DEFINE t == [flight[g] EXCEPT !.st = "submit"]
<1>1. /\ ready[k] = NoFlight /\ inflight[k] = NoFlight
      /\ inflight' = [inflight EXCEPT ![k] = g]
      /\ flight' = [flight EXCEPT ![g] = t]
      /\ Goto(r, "submit") /\ UNCHANGED <<idx, pending, lru>>
  BY <1>a DEF BeginProduce
<1>2. /\ g \in Flights /\ Key(g) = k /\ k \in Keys /\ g[1] = r /\ g[2] = idx[r]
      /\ \A f \in Flights : f[1] = r /\ f # g => f[2] # idx[r]
  BY <1>a, PartFacts
<1>3. /\ flight[g] \in Outcome /\ Begun(g) /\ Payload(g) /\ idx[r] \in Nat \ {0}
      /\ flight \in [Flights -> Outcome]
  BY <1>2, TaskFacts, RequestFacts
<1>4. flight[g].st = "none" /\ ~flight[g].built /\ flight[g].err = NoError
  BY <1>2, <1>3 DEF Begun, Payload
<1>5. t \in Outcome /\ t.st = "submit" /\ ~t.built /\ t.err = NoError
  BY <1>3, <1>4 DEF Outcome, TaskStates
<1> HIDE DEF t
<1>6. /\ flight' \in [Flights -> Outcome] /\ flight'[g] = t
      /\ \A f \in Flights : f # g => flight'[f] = flight[f]
  BY <1>1, <1>2, <1>3, <1>5
<1>7. /\ inflight' \in [Keys -> Flights \cup {NoFlight}] /\ inflight'[k] = g
      /\ \A x \in Keys : x # k => inflight'[x] = inflight[x]
  <2>1. inflight \in [Keys -> Flights \cup {NoFlight}]
    BY DEF IInv, TypeOK
  <2> QED BY <1>1, <1>2, <2>1
<1>8. /\ pc' \in [Requests -> Labels] /\ pc'[r] = "submit"
      /\ \A q \in Requests \ {r} : pc'[q] = pc[q]
  BY <1>1, CallUpdates DEF Labels, Permitted
<1>9. TypeOK'
  BY <1>1, <1>6, <1>7, <1>8 DEF IInv, TypeOK, Outcome
<1>10. ASSUME NEW f \in Flights, f[1] = r PROVE Begun(f)' /\ Awaited(f)'
  <2>1. Begun(f) /\ Awaited(f) /\ f[2] \in Nat \ {0}
    BY <1>10, RequestFacts, FlightFacts
  <2>2. CASE f = g
    BY <1>1, <1>2, <1>3, <1>5, <1>6, <1>8, <2>2 DEF Begun, Awaited
  <2>3. CASE f # g
    <3>1. flight'[f] = flight[f] /\ f[2] # idx[r]
      BY <1>2, <1>6, <1>10, <2>3
    <3> QED BY <1>1, <1>3, <1>8, <1>10, <2>1, <3>1 DEF Begun, Awaited, Permitted
  <2> QED BY <2>2, <2>3
<1>11. \A f \in Flights : Good(f) => Good(f)'
  BY <1>4, <1>6 DEF Good
<1>12. Entries(r)' /\ Progress(r)'
  <2>1. /\ Entries(r) /\ Progress(r) /\ pending[r] \in Seq(PendingItem)
        /\ taken[r] \in SUBSET Flights
    BY RequestFacts
  <2>2. \A i \in DOMAIN pending[r] : pending[r][i].f \in Flights
    <3>1. \A i \in DOMAIN pending[r] : pending[r][i] \in PendingItem
      BY <2>1
    <3> QED BY <3>1 DEF PendingItem
  <2>3. \A f \in Flights : flight[f].st # "none" => flight'[f].st # "none"
    BY <1>4, <1>6
  <2>4. Entries(r)'
    BY <1>1, <1>11, <2>1, <2>2, <2>3 DEF Entries, Key
  <2>5. Progress(r)'
    BY <1>1, <1>8, <1>11, <2>1 DEF Progress
  <2> QED BY <2>4, <2>5
<1>13. \A f \in Flights : f \in HeldBy(r)' /\ flight'[f].built => Referenced(f)
  BY <1>1, <1>5, <1>6 DEF Referenced, HeldBy
<1>14. Tasks' /\ Calls' /\ Books' /\ Account' /\ \A f : Key(f)' = Key(f)
  <2>1. Payload(g)'
    BY <1>5, <1>6 DEF Payload
  <2>2. \A f \in Flights :
               \/ flight'[f] = flight[f]
               \/ /\ f[1] = r /\ ~flight[f].built /\ ~flight'[f].built
                  /\ Payload(f)' /\ flight'[f].st # "none"
                  /\ flight'[f].st \in {"submit", "queued", "claim", "reserve", "evict", "build"}
                        => ready[Key(f)] = NoFlight
    BY <1>1, <1>2, <1>4, <1>5, <1>6, <2>1
  <2> QED BY <1>1, <1>8, <1>9, <1>10, <1>12, <1>13, <2>2, CallFrame
<1>15. Single'
  <2>1. ASSUME NEW f \in Flights,
               \/ flight'[f].st \in Running \cup {"submit", "queued"}
               \/ flight'[f].st = "failed" /\ pc'[Owner(f)] = "submit_failed"
        PROVE  inflight'[Key(f)'] = f
    <3>1. CASE f = g
      BY <1>2, <1>7, <1>14, <3>1
    <3>2. CASE f # g
      <4>1. pc'[Owner(f)] = "submit_failed" => pc[Owner(f)] = "submit_failed"
        BY <1>8, FlightFacts
      <4>2. inflight[Key(f)] = f /\ flight[f].st # "none"
        BY <1>6, <2>1, <3>2, <4>1 DEF IInv, Single, OneFlightPerKey, Running
      <4>3. Key(f) \in Keys /\ Key(f) # k
        BY <1>1, <4>2, TaskFacts, FlightFacts
      <4> QED BY <1>7, <1>14, <4>2, <4>3
    <3> QED BY <3>1, <3>2
  <2>2. ASSUME NEW x \in Keys, inflight'[x] # NoFlight
        PROVE  Key(inflight[x])' = x /\ flight'[inflight'[x]].st \notin {"none", "over"}
    <3>1. CASE x = k
      BY <1>2, <1>5, <1>6, <1>7, <1>14, <3>1 DEF Key
    <3>2. CASE x # k
      <4>1. inflight[x] \in Flights /\ Key(inflight[x]) = x /\ flight[inflight[x]].st \notin {"none", "over"}
            /\ inflight'[x] = inflight[x]
        BY <1>7, <2>2, <3>2 DEF IInv, Single, TypeOK
      <4> QED BY <1>4, <1>6, <1>14, <4>1 DEF Key
    <3> QED BY <3>1, <3>2
  <2>3. \A f \in ToSet(queue') : flight'[f].st = "queued"
    BY <1>4, <1>6, QueueFacts
  <2> QED BY <2>1, <2>2, <2>3 DEF Single, OneFlightPerKey
<1> QED BY <1>9, <1>14, <1>15 DEF IInv

(* begin_prepare() of the next part. *)
LEMMA BeginPrepareKeeps ==
    ASSUME IInv, NEW r \in Requests, BeginPrepare(r) PROVE IInv'
BY BeginHitKeeps, BeginJoinKeeps, BeginProduceKeeps DEF BeginPrepare

(* The task of a request in submit, and what is true of its other tasks. *)
LEMMA SubmittingFacts ==
    ASSUME IInv, NEW r \in Requests, pc[r] \in {"submit", "submit_failed"},
           NEW g, g = <<r, idx[r]>>
    PROVE  /\ g \in Flights /\ g[1] = r /\ g[2] = idx[r] /\ idx[r] \in Nat \ {0}
           /\ idx[r] <= Len(parts[r]) /\ Key(g) = parts[r][idx[r]] /\ Key(g) \in Keys
           /\ \A f \in Flights : f[1] = r /\ f # g => f[2] # idx[r]
           /\ flight[g] \in Outcome /\ flight \in [Flights -> Outcome] /\ inflight[Key(g)] = g
           /\ ~flight[g].built
           /\ pc[r] = "submit" => flight[g].st = "submit" /\ flight[g].err = NoError
           /\ pc[r] = "submit_failed" => flight[g].st = "failed" /\ flight[g].err # NoError
<1>1. idx[r] <= Len(parts[r])
  BY RequestFacts DEF Progress
<1>2. /\ g \in Flights /\ g[1] = r /\ g[2] = idx[r] /\ Key(g) = parts[r][idx[r]] /\ Key(g) \in Keys
      /\ \A f \in Flights : f[1] = r /\ f # g => f[2] # idx[r]
  BY <1>1, PartFacts
<1>3. /\ flight[g] \in Outcome /\ Begun(g) /\ Payload(g) /\ flight \in [Flights -> Outcome]
      /\ idx[r] \in Nat \ {0} /\ Owner(g) = r
  BY <1>2, TaskFacts, RequestFacts
<1>4. /\ pc[r] = "submit" => flight[g].st = "submit"
      /\ pc[r] = "submit_failed" => flight[g].st = "failed"
  BY <1>2, <1>3 DEF Begun
<1>5. inflight[Key(g)] = g
  BY <1>2, <1>3, <1>4 DEF IInv, Single, OneFlightPerKey
<1>6. /\ ~flight[g].built
      /\ pc[r] = "submit" => flight[g].err = NoError
      /\ pc[r] = "submit_failed" => flight[g].err # NoError
  BY <1>3, <1>4 DEF Payload
<1> QED BY <1>1, <1>2, <1>3, <1>4, <1>5, <1>6

(* The task of a submitting request is handed on, or fails. *)
LEMMA SubmitSingle ==
    ASSUME IInv, NEW g \in Flights, flight[g].st = "submit", inflight[Key(g)] = g,
           parts' = parts, inflight' = inflight,
           \A f \in Flights : f # g => flight'[f] = flight[f],
           flight'[g].st \in {"queued", "failed"},
           \A f \in Flights : f # g /\ flight[f].st = "failed" /\ pc'[Owner(f)] = "submit_failed"
               => pc[Owner(f)] = "submit_failed",
           \A f \in ToSet(queue') : f \in ToSet(queue) \/ (f = g /\ flight'[g].st = "queued")
    PROVE  Single'
<1>1. \A f : Key(f)' = Key(f)
  BY DEF Key
<1>2. ASSUME NEW f \in Flights,
             \/ flight'[f].st \in Running \cup {"submit", "queued"}
             \/ flight'[f].st = "failed" /\ pc'[Owner(f)] = "submit_failed"
      PROVE  inflight'[Key(f)'] = f
  <2>1. CASE f = g
    BY <1>1, <2>1
  <2>2. CASE f # g
    BY <1>1, <1>2, <2>2 DEF IInv, Single, OneFlightPerKey
  <2> QED BY <2>1, <2>2
<1>3. ASSUME NEW x \in Keys, inflight'[x] # NoFlight
      PROVE  Key(inflight[x])' = x /\ flight'[inflight'[x]].st \notin {"none", "over"}
  <2>1. inflight[x] \in Flights /\ Key(inflight[x]) = x /\ flight[inflight[x]].st \notin {"none", "over"}
    BY <1>3 DEF IInv, Single, TypeOK
  <2> QED BY <2>1 DEF Key
<1>4. \A f \in ToSet(queue') : flight'[f].st = "queued"
  <2>1. \A f \in ToSet(queue) : f \in Flights /\ flight[f].st = "queued" /\ f # g
    BY QueueFacts
  <2> QED BY <2>1
<1> QED BY <1>2, <1>3, <1>4 DEF Single, OneFlightPerKey

(* The pool takes the task; process() waits for it later. *)
LEMMA SubmitKeeps == ASSUME IInv, NEW r \in Requests, Submit(r) PROVE IInv'
<1>a. PICK g : g = <<r, idx[r]>>
  OBVIOUS
<1> DEFINE t == [flight[g] EXCEPT !.st = "queued"]
           p == [hit |-> FALSE, f |-> g]
<1>1. /\ pc[r] = "submit" /\ queue' = Append(queue, g) /\ flight' = [flight EXCEPT ![g] = t]
      /\ pending' = [pending EXCEPT ![r] = Append(@, p)]
      /\ Advance(r) /\ Goto(r, "begin")
      /\ UNCHANGED <<parts, error, taken, signal, claimed, inflight, ready, lru, retained>>
  BY <1>a DEF Submit, cacheVars
<1>2. /\ g \in Flights /\ g[1] = r /\ g[2] = idx[r] /\ idx[r] \in Nat \ {0}
      /\ idx[r] <= Len(parts[r]) /\ Key(g) = parts[r][idx[r]] /\ Key(g) \in Keys
      /\ \A f \in Flights : f[1] = r /\ f # g => f[2] # idx[r]
      /\ flight[g] \in Outcome /\ flight \in [Flights -> Outcome] /\ inflight[Key(g)] = g
      /\ ~flight[g].built /\ flight[g].st = "submit" /\ flight[g].err = NoError
  BY <1>a, <1>1, SubmittingFacts
<1>3. t \in Outcome /\ t.st = "queued" /\ ~t.built /\ t.err = NoError
  BY <1>2 DEF Outcome, TaskStates
<1>4. p \in PendingItem /\ p.f = g /\ ~p.hit
  BY <1>2 DEF PendingItem
<1> HIDE DEF t
<1>5. /\ flight' \in [Flights -> Outcome] /\ flight'[g] = t
      /\ \A f \in Flights : f # g => flight'[f] = flight[f]
  BY <1>1, <1>2, <1>3
<1>6. queue' \in Seq(Flights) /\ IsInjective(queue') /\ ToSet(queue') = ToSet(queue) \cup {g}
  <2>1. g \notin ToSet(queue)
    BY <1>2, QueueFacts
  <2> QED BY <1>1, <1>2, <2>1, QueueFacts, AppendNew
<1>7. /\ \A f \in Flights : Good(f) => Good(f)'
      /\ \A f \in Flights : flight[f].st # "none" => flight'[f].st # "none"
  BY <1>2, <1>3, <1>5 DEF Good
<1>8. /\ pending' \in [Requests -> Seq(PendingItem)]
      /\ \A q \in Requests \ {r} : pending'[q] = pending[q]
      /\ DOMAIN pending[r] = 1 .. idx[r] - 1
      /\ Len(pending'[r]) = idx[r] /\ DOMAIN pending'[r] = 1 .. idx[r]
      /\ pending'[r][idx[r]] = p
      /\ \A i \in 1 .. idx[r] - 1 : pending'[r][i] = pending[r][i]
      /\ Entries(r)' /\ HeldBy(r)' \subseteq HeldBy(r) \cup {g}
  <2>1. flight'[p.f].st # "none" /\ Key(p.f) = parts[r][idx[r]]
    BY <1>2, <1>3, <1>4, <1>5
  <2>2. /\ pc[r] \in {"begin", "submit"} /\ idx[r] <= Len(parts[r]) /\ p \in PendingItem
        /\ pending' = [pending EXCEPT ![r] = Append(@, p)] /\ parts' = parts /\ taken' = taken
        /\ ~p.hit /\ p.f = g
    BY <1>1, <1>2, <1>4
  <2> HIDE DEF p
  <2> QED BY <1>7, <2>1, <2>2, PendingAppend
<1>9. /\ idx' \in [Requests -> Nat \ {0}] /\ idx'[r] = idx[r] + 1
      /\ \A q \in Requests \ {r} : idx'[q] = idx[q]
  BY <1>1, CallUpdates
<1>10. /\ pc' \in [Requests -> Labels] /\ pc'[r] = "begin"
       /\ \A q \in Requests \ {r} : pc'[q] = pc[q]
  BY <1>1, CallUpdates DEF Labels, Permitted
<1>11. TypeOK'
  BY <1>1, <1>5, <1>6, <1>8, <1>9, <1>10 DEF IInv, TypeOK, Outcome
<1>12. ASSUME NEW f \in Flights, f[1] = r PROVE Begun(f)' /\ Awaited(f)'
  <2>1. Begun(f) /\ Awaited(f) /\ f[2] \in Nat \ {0}
    BY <1>12, RequestFacts, FlightFacts
  <2>2. CASE f = g
    <3>1. Begun(f)'
      BY <1>1, <1>2, <1>3, <1>5, <1>9, <1>10, <2>2, SMTT(40) DEF Begun
    <3>2. idx[r] \in 1 .. idx[r]
      BY <1>2
    <3>3. Awaited(f)'
      BY <1>2, <1>8, <1>10, <2>2, <3>2 DEF Awaited, Permitted
    <3> QED BY <3>1, <3>3
  <2>3. CASE f # g
    <3>1. flight'[f] = flight[f] /\ f[2] # idx[r]
      BY <1>2, <1>5, <1>12, <2>3
    <3>2. Begun(f)'
      BY <1>1, <1>2, <1>9, <1>10, <1>12, <2>1, <3>1 DEF Begun
    <3>3. \A i \in 1 .. idx[r] - 1 : i \in 1 .. idx[r]
      BY <1>2
    <3>4. Awaited(f)'
      BY <1>1, <1>8, <1>10, <1>12, <2>1, <3>1, <3>3 DEF Awaited, Permitted
    <3> QED BY <3>2, <3>4
  <2> QED BY <2>2, <2>3
<1>13. Progress(r)'
  <2>0. Progress(r)
    BY RequestFacts
  <2>1. idx'[r] - 1 = idx[r] /\ taken[r] = {}
    BY <1>1, <1>2, <1>9, <2>0 DEF Progress
  <2> QED BY <1>1, <1>8, <1>10, <2>1 DEF Progress
<1>14. \A f \in Flights : f \in HeldBy(r)' /\ flight'[f].built => Referenced(f)
  BY <1>3, <1>5, <1>8 DEF Referenced
<1>15. Tasks' /\ Calls' /\ Books' /\ Account'
  <2>1. Payload(g)'
    BY <1>3, <1>5 DEF Payload
  <2>2. ready[Key(g)] = NoFlight
    BY <1>2 DEF IInv, Books
  <2>3. \A f \in Flights :
               \/ flight'[f] = flight[f]
               \/ /\ f[1] = r /\ ~flight[f].built /\ ~flight'[f].built
                  /\ Payload(f)' /\ flight'[f].st # "none"
                  /\ flight'[f].st \in {"submit", "queued", "claim", "reserve", "evict", "build"}
                        => ready[Key(f)] = NoFlight
    BY <1>2, <1>3, <1>5, <2>1, <2>2
  <2> QED BY <1>1, <1>8, <1>9, <1>10, <1>11, <1>12, <1>13, <1>14, <2>3, CallFrame
<1>16. Single'
  <2>1. ASSUME NEW f \in Flights, pc'[Owner(f)] = "submit_failed" PROVE pc[Owner(f)] = "submit_failed"
    BY <1>10, <2>1, FlightFacts
  <2> QED BY <1>1, <1>2, <1>3, <1>5, <1>6, <2>1, SubmitSingle
<1> QED BY <1>11, <1>15, <1>16 DEF IInv

(* The checkpoint of the submission throws. *)
LEMMA SubmitFailsKeeps == ASSUME IInv, NEW r \in Requests, SubmitFails(r) PROVE IInv'
<1>a. PICK g : g = <<r, idx[r]>>
  OBVIOUS
<1> DEFINE t == [flight[g] EXCEPT !.st = "failed", !.err = StopKind(r)]
<1>0. /\ pc[r] = "submit" /\ Goto(r, "submit_failed")
      /\ flight' = [flight EXCEPT ![g].st = "failed", ![g].err = StopKind(r)]
      /\ UNCHANGED <<parts, idx, pending, error, taken, signal, claimed, queue, inflight, ready, lru, retained>>
  BY <1>a DEF SubmitFails, cacheVars
<1>2. /\ g \in Flights /\ g[1] = r /\ g[2] = idx[r] /\ idx[r] \in Nat \ {0}
      /\ idx[r] <= Len(parts[r]) /\ Key(g) \in Keys
      /\ \A f \in Flights : f[1] = r /\ f # g => f[2] # idx[r]
      /\ flight[g] \in Outcome /\ flight \in [Flights -> Outcome] /\ inflight[Key(g)] = g
      /\ ~flight[g].built /\ flight[g].st = "submit"
      /\ StopKind(r) \in Errors \ {NoError}
  BY <1>a, <1>0, SubmittingFacts, RequestFacts
<1>1. flight' = [flight EXCEPT ![g] = t]
  BY <1>0, <1>2
<1>3. t \in Outcome /\ t.st = "failed" /\ ~t.built /\ t.err # NoError
  BY <1>2 DEF Outcome, TaskStates
<1> HIDE DEF t
<1>5. /\ flight' \in [Flights -> Outcome] /\ flight'[g] = t
      /\ \A f \in Flights : f # g => flight'[f] = flight[f]
  BY <1>1, <1>2, <1>3
<1>6. /\ pc' \in [Requests -> Labels] /\ pc'[r] = "submit_failed"
      /\ \A q \in Requests \ {r} : pc'[q] = pc[q]
  BY <1>0, CallUpdates DEF Labels, Permitted
<1>7. TypeOK'
  BY <1>0, <1>5, <1>6 DEF IInv, TypeOK, Outcome
<1>8. ASSUME NEW f \in Flights, f[1] = r PROVE Begun(f)' /\ Awaited(f)'
  <2>1. Begun(f) /\ Awaited(f) /\ f[2] \in Nat \ {0}
    BY <1>8, RequestFacts, FlightFacts
  <2>2. CASE f = g
    BY <1>0, <1>2, <1>3, <1>5, <1>6, <2>2 DEF Begun, Awaited
  <2>3. CASE f # g
    <3>1. flight'[f] = flight[f] /\ f[2] # idx[r]
      BY <1>2, <1>5, <1>8, <2>3
    <3> QED BY <1>0, <1>2, <1>6, <1>8, <2>1, <3>1 DEF Begun, Awaited, Permitted
  <2> QED BY <2>2, <2>3
<1>9. /\ \A f \in Flights : Good(f) => Good(f)'
      /\ \A f \in Flights : flight[f].st # "none" => flight'[f].st # "none"
  BY <1>2, <1>3, <1>5 DEF Good
<1>10. Entries(r)' /\ Progress(r)'
  <2>1. /\ Entries(r) /\ Progress(r) /\ pending[r] \in Seq(PendingItem)
        /\ taken[r] \in SUBSET Flights
    BY RequestFacts
  <2>2. \A i \in DOMAIN pending[r] : pending[r][i].f \in Flights
    <3>1. \A i \in DOMAIN pending[r] : pending[r][i] \in PendingItem
      BY <2>1
    <3> QED BY <3>1 DEF PendingItem
  <2>3. Entries(r)'
    BY <1>0, <1>9, <2>1, <2>2 DEF Entries, Key
  <2>4. Progress(r)'
    BY <1>0, <1>6, <1>9, <2>1 DEF Progress
  <2> QED BY <2>3, <2>4
<1>11. \A f \in Flights : f \in HeldBy(r)' /\ flight'[f].built => Referenced(f)
  BY <1>0, <1>3, <1>5 DEF Referenced, HeldBy
<1>12. Tasks' /\ Calls' /\ Books' /\ Account'
  <2>1. Payload(g)'
    BY <1>3, <1>5 DEF Payload
  <2>2. \A f \in Flights :
               \/ flight'[f] = flight[f]
               \/ /\ f[1] = r /\ ~flight[f].built /\ ~flight'[f].built
                  /\ Payload(f)' /\ flight'[f].st # "none"
                  /\ flight'[f].st \in {"submit", "queued", "claim", "reserve", "evict", "build"}
                        => ready[Key(f)] = NoFlight
    BY <1>2, <1>3, <1>5, <2>1
  <2> QED BY <1>0, <1>6, <1>7, <1>8, <1>10, <1>11, <2>2, CallFrame
<1>13. Single'
  <2>1. ASSUME NEW f \in Flights, f # g, flight[f].st = "failed", pc'[Owner(f)] = "submit_failed"
        PROVE  pc[Owner(f)] = "submit_failed"
    <3>1. Begun(f) /\ Owner(f) = f[1] /\ f[1] \in Requests
      BY TaskFacts
    <3>2. f[1] # r
      BY <1>0, <2>1, <3>1 DEF Begun
    <3> QED BY <1>6, <2>1, <3>1, <3>2
  <2> QED BY <1>0, <1>2, <1>3, <1>5, <2>1, SubmitSingle
<1> QED BY <1>7, <1>12, <1>13 DEF IInv

(* The failed task is taken out of inflight: it is still the one named there. *)
LEMMA AbandonFlightKeeps == ASSUME IInv, NEW r \in Requests, AbandonFlight(r) PROVE IInv'
<1>a. PICK g, k : g = <<r, idx[r]>> /\ k = Key(g)
  OBVIOUS
<1>1. /\ pc[r] = "submit_failed" /\ inflight' = [inflight EXCEPT ![k] = NoFlight]
      /\ Fail(r, flight[g].err) /\ Goto(r, "await") /\ idx' = [idx EXCEPT ![r] = 1]
      /\ UNCHANGED <<parts, pending, taken, signal, claimed, flight, queue, ready, lru, retained>>
  BY <1>a DEF AbandonFlight
<1>2. /\ g \in Flights /\ g[1] = r /\ k \in Keys /\ inflight[k] = g
      /\ flight[g] \in Outcome /\ flight[g].st = "failed" /\ flight[g].err # NoError
  BY <1>a, <1>1, SubmittingFacts
<1>3. flight[g].err \in Errors \ {NoError}
  BY <1>2 DEF Outcome
<1>4. /\ inflight' \in [Keys -> Flights \cup {NoFlight}] /\ inflight'[k] = NoFlight
      /\ \A x \in Keys : x # k => inflight'[x] = inflight[x]
  <2>1. inflight \in [Keys -> Flights \cup {NoFlight}]
    BY DEF IInv, TypeOK
  <2> QED BY <1>1, <1>2, <2>1
<1>5. /\ pc' \in [Requests -> Labels] /\ pc'[r] = "await"
      /\ \A q \in Requests \ {r} : pc'[q] = pc[q]
  BY <1>1, CallUpdates DEF Labels, Permitted
<1>6. /\ error' \in [Requests -> Errors] /\ error'[r] # NoError
      /\ \A q \in Requests \ {r} : error'[q] = error[q]
  BY <1>1, <1>3, CallUpdates
<1>7. /\ idx' \in [Requests -> Nat \ {0}] /\ idx'[r] = 1
      /\ \A q \in Requests \ {r} : idx'[q] = idx[q]
  BY <1>1 DEF IInv, TypeOK
<1>8. TypeOK'
  BY <1>1, <1>4, <1>5, <1>6, <1>7 DEF IInv, TypeOK
<1>9. ASSUME NEW f \in Flights, f[1] = r PROVE Begun(f)' /\ Awaited(f)'
  <2>1. Begun(f) /\ Awaited(f) /\ f[2] \in Nat \ {0}
    BY <1>9, RequestFacts, FlightFacts
  <2> QED BY <1>1, <1>5, <1>7, <1>9, <2>1 DEF Begun, Awaited, Permitted
<1>10. /\ Entries(r) /\ Progress(r) /\ Len(pending[r]) \in Nat
  BY RequestFacts
<1>11. Entries(r)' /\ HeldBy(r)' \subseteq HeldBy(r)
  BY <1>1, <1>10, SameEntries
<1>12. Progress(r)'
  BY <1>1, <1>5, <1>6, <1>7, <1>10 DEF Progress
<1>13. Tasks' /\ Calls' /\ Books' /\ Account' /\ \A f : Key(f)' = Key(f)
  <2>1. \A f \in Flights : f \in HeldBy(r)' /\ flight'[f].built => Referenced(f)
    BY <1>1, <1>11 DEF Referenced
  <2> QED BY <1>1, <1>5, <1>6, <1>7, <1>8, <1>9, <1>11, <1>12, <2>1, CallFrame
<1>14. Single'
  <2>1. ASSUME NEW f \in Flights,
               \/ flight'[f].st \in Running \cup {"submit", "queued"}
               \/ flight'[f].st = "failed" /\ pc'[Owner(f)] = "submit_failed"
        PROVE  inflight'[Key(f)'] = f
    <3>1. f # g /\ (pc'[Owner(f)] = "submit_failed" => pc[Owner(f)] = "submit_failed")
      BY <1>1, <1>2, <1>5, <2>1, FlightFacts DEF Running
    <3>2. inflight[Key(f)] = f /\ flight[f].st # "none"
      BY <1>1, <2>1, <3>1 DEF IInv, Single, OneFlightPerKey, Running
    <3>3. Key(f) \in Keys /\ Key(f) # k
      BY <1>2, <3>1, <3>2, TaskFacts
    <3> QED BY <1>4, <1>13, <3>2, <3>3
  <2>2. ASSUME NEW x \in Keys, inflight'[x] # NoFlight
        PROVE  Key(inflight[x])' = x /\ flight'[inflight'[x]].st \notin {"none", "over"}
    <3>1. x # k /\ inflight'[x] = inflight[x]
      BY <1>4, <2>2
    <3>2. inflight[x] \in Flights /\ Key(inflight[x]) = x /\ flight[inflight[x]].st \notin {"none", "over"}
      BY <2>2, <3>1 DEF IInv, Single, TypeOK
    <3> QED BY <1>1, <3>1, <3>2 DEF Key
  <2>3. \A f \in ToSet(queue') : flight'[f].st = "queued"
    BY <1>1, QueueFacts
  <2> QED BY <2>1, <2>2, <2>3 DEF Single, OneFlightPerKey
<1> QED BY <1>8, <1>13, <1>14 DEF IInv
-----------------------------------------------------------------------------
(* Before the first request arrives there is no task and no payload. *)
LEMMA InitIInv == Init => IInv
<1> SUFFICES ASSUME Init PROVE IInv
  OBVIOUS
<1> DEFINE idle == [st |-> "none", err |-> NoError, built |-> FALSE]
<1>1. /\ IsInjective(<<>>) /\ ToSet(<<>>) = {} /\ LiveLimit \in Nat /\ RetainLimit \in Nat
  BY EmptySequence, MediaAssumption
<1>2. /\ idle.st = "none" /\ idle.err = NoError /\ ~idle.built
      /\ idle \in [st : TaskStates, err : Errors, built : BOOLEAN]
  BY DEF TaskStates, Errors
<1>3. flight = [f \in Flights |-> idle]
  BY DEF Init
<1> HIDE DEF idle
<1>4. TypeOK
  <2>1. /\ parts \in [Requests -> PartLists] /\ pc \in [Requests -> Labels]
        /\ idx \in [Requests -> Nat \ {0}]
    BY DEF Init, Labels
  <2>2. pending \in [Requests -> Seq(PendingItem)] /\ taken \in [Requests -> SUBSET Flights]
    BY DEF Init
  <2>3. /\ error \in [Requests -> Errors] /\ signal \in [Requests -> SUBSET Signals]
        /\ claimed \in [Requests -> Nat]
    BY DEF Init, Errors
  <2>4. flight \in [Flights -> [st : TaskStates, err : Errors, built : BOOLEAN]]
    BY <1>2, <1>3
  <2>5. queue \in Seq(Flights) /\ IsInjective(queue) /\ lru \in Seq(Keys) /\ IsInjective(lru)
    BY <1>1 DEF Init
  <2>6. /\ inflight \in [Keys -> Flights \cup {NoFlight}]
        /\ ready \in [Keys -> Flights \cup {NoFlight}] /\ retained \in Nat
    BY DEF Init
  <2> QED BY <2>1, <2>2, <2>3, <2>4, <2>5, <2>6 DEF TypeOK
<1>5. Tasks
  <2>1. ASSUME NEW f \in Flights PROVE Payload(f) /\ Begun(f) /\ Awaited(f)
    <3>1. flight[f].st = "none" /\ ~flight[f].built /\ flight[f].err = NoError
          /\ pc[f[1]] = "gate"
      BY <1>2, <1>3, FlightFacts DEF Init
    <3> QED BY <3>1 DEF Payload, Begun, Awaited
  <2> QED BY <2>1 DEF Tasks
<1>6. Single
  <2>1. \A f \in Flights : flight[f].st = "none"
    BY <1>2, <1>3
  <2>2. (\A k \in Keys : inflight[k] = NoFlight) /\ ToSet(queue) = {}
    BY <1>1 DEF Init
  <2> QED BY <2>1, <2>2 DEF Single, OneFlightPerKey, Running
<1>7. Calls
  <2>1. ASSUME NEW r \in Requests PROVE Entries(r) /\ Progress(r)
    <3>1. pc[r] = "gate" /\ idx[r] = 1 /\ pending[r] = <<>> /\ taken[r] = {}
      BY DEF Init
    <3>2. parts[r] \in Seq(Keys)
      BY MediaAssumption DEF Init
    <3>3. Len(parts[r]) \in Nat /\ Len(pending[r]) = 0 /\ DOMAIN pending[r] = {}
      BY <3>1, <3>2
    <3> QED BY <3>1, <3>3 DEF Entries, Progress
  <2> QED BY <2>1 DEF Calls
<1>8. Books
  <2>1. lru = <<>> /\ retained = 0 /\ \A k \in Keys : ready[k] = NoFlight
    BY DEF Init
  <2>2. \A f \in Flights : flight[f].st = "none"
    BY <1>2, <1>3
  <2>3. ToSet(lru) = {}
    BY <1>1, <2>1
  <2>4. SumFunctionOnSet(Bytes, ToSet(lru)) = 0
    BY <2>3, SumEmpty
  <2>5. ToSet(lru) = {k \in Keys : ready[k] # NoFlight}
    BY <2>1, <2>3
  <2>6. retained <= RetainLimit
    BY <1>1, <2>1
  <2>7. \A f \in Flights :
          flight[f].st \in {"submit", "queued", "claim", "reserve", "evict", "build"} =>
              ready[Key(f)] = NoFlight
    BY <2>2
  <2> QED BY <2>1, <2>4, <2>5, <2>6, <2>7 DEF Books
<1>9. Account
  <2>1. {f \in Flights : Referenced(f)} = {}
    BY <1>2, <1>3 DEF Referenced
  <2>2. Live = 0
    BY <2>1, SumEmpty DEF Live, SumBytes
  <2> QED BY <1>1, <2>2 DEF Account
<1> QED BY <1>4, <1>5, <1>6, <1>7, <1>8, <1>9 DEF IInv

(* Every step of a request, a task or a client keeps the invariant. *)
LEMMA NextIInv == IInv /\ [Next]_vars => IInv'
<1> SUFFICES ASSUME IInv, [Next]_vars PROVE IInv'
  OBVIOUS
<1>1. ASSUME NEW r \in Requests, Process(r) PROVE IInv'
  BY <1>1, AcquireRequestKeeps, BeginPrepareKeeps, BeginInterruptedKeeps, AllBegunKeeps,
     SubmitKeeps, SubmitFailsKeeps, AbandonFlightKeeps, AwaitInterruptedKeeps, DrainKeeps,
     AwaitKeeps, UnwindKeeps, EncodeKeeps DEF Process
<1>2. ASSUME NEW r \in Requests, RejectPolicy(r) \/ ReleasePrompt(r) \/ Signal(r) PROVE IInv'
  BY <1>2, RejectPolicyKeeps, ReleasePromptKeeps, SignalKeeps
<1>3. CASE Dequeue
  BY <1>3, DequeueKeeps
<1>4. ASSUME NEW f \in Flights, Task(f) \/ RejectMedia(f) PROVE IInv'
  BY <1>4, ClaimKeeps, ReserveKeeps, EvictOneKeeps, BuildKeeps, StopTaskKeeps, PublishKeeps,
     EraseKeeps, RejectMediaKeeps DEF Task
<1>5. CASE UNCHANGED vars
  <2>1. UNCHANGED <<parts, pc, idx, pending, error, taken, signal, claimed, flight, queue,
                    inflight, ready, lru, retained>>
    BY <1>5 DEF vars, procVars, cacheVars
  <2>2. TypeOK'
    BY <2>1 DEF IInv, TypeOK
  <2>3. Tasks'
    BY <2>1, ZenonT(40) DEF IInv, Tasks, Payload, Begun, Awaited
  <2>6. Single'
    BY <2>1 DEF IInv, Single, OneFlightPerKey, Key
  <2>7. Books'
    BY <2>1 DEF IInv, Books, Good, Key
  <2>4. Calls'
    <3>1. ASSUME NEW q \in Requests PROVE (Entries(q) /\ Progress(q))'
      <4>1. Entries(q) /\ Progress(q)
        BY DEF IInv, Calls
      <4>2. Shown(q)' = Shown(q) /\ Through(q)' = Through(q)
        BY <2>1 DEF Shown, Through, Key
      <4> QED BY <2>1, <4>1, <4>2, SameEntries DEF Progress
    <3> QED BY <3>1 DEF Calls
  <2>5. Account'
    <3>1. \A f \in Flights : Referenced(f)' => Referenced(f)
      BY <2>1 DEF Referenced, HeldBy
    <3> QED BY <2>1, <3>1, LiveShrinks DEF IInv
  <2> QED BY <2>2, <2>3, <2>4, <2>5, <2>6, <2>7 DEF IInv
<1> QED BY <1>1, <1>2, <1>3, <1>4, <1>5 DEF Next

(* MediaCache keeps its inductive invariant: the books of the cache, the tasks of
   the pool and the positions of the request threads agree in every state. *)
THEOREM MediaInvariant == Spec => []IInv
<1>1. Init => IInv
  BY InitIInv
<1>2. IInv /\ [Next]_vars => IInv'
  BY NextIInv
<1> QED BY <1>1, <1>2, PTL DEF Spec
-----------------------------------------------------------------------------
(* What the invariant implies. *)

(* One flight per key: the erase by key never removes a successor's flight. *)
THEOREM OneFlightPerKeyHolds == Spec => []OneFlightPerKey
<1>1. IInv => OneFlightPerKey
  BY DEF IInv, Single
<1> QED BY <1>1, MediaInvariant, PTL

(* process() returns only after every task that uses its locals is done with them. *)
THEOREM NoDanglingBuilderHolds == Spec => []NoDanglingBuilder
<1>1. ASSUME IInv, NEW f \in Flights, flight[f].st \in {"queued", "claim", "reserve", "evict", "build"}
      PROVE  pc[Owner(f)] \in Permitted
  BY <1>1, TaskFacts DEF Awaited
<1>2. IInv => NoDanglingBuilder
  BY <1>1 DEF NoDanglingBuilder
<1> QED BY <1>2, MediaInvariant, PTL

(* A prompt reaches the engine with one live payload for each of its parts. *)
THEOREM PromptHasItsMediaHolds == Spec => []PromptHasItsMedia
<1>1. ASSUME IInv, NEW r \in Requests, pc[r] \in {"encode", "engine"}
      PROVE  /\ {Key(f) : f \in taken[r]} = ToSet(parts[r])
             /\ \A f \in taken[r] : Referenced(f) /\ flight[f].err = NoError
  <2>1. Progress(r)
    BY <1>1, RequestFacts
  <2>2. Shown(r) = ToSet(parts[r]) /\ \A f \in taken[r] : Good(f)
    BY <1>1, <2>1 DEF Progress
  <2>3. \A f \in taken[r] : f \in HeldBy(r)
    BY DEF HeldBy
  <2> QED BY <2>2, <2>3 DEF Shown, Good, Referenced
<1>2. IInv => PromptHasItsMedia
  BY <1>1 DEF PromptHasItsMedia
<1> QED BY <1>2, MediaInvariant, PTL

(* The books of the cache, and both of its limits. *)
THEOREM CacheAgreesHolds == Spec => []CacheAgrees
<1>1. ASSUME IInv PROVE CacheAgrees
  <2>1. Live <= LiveLimit
    BY <1>1 DEF IInv, Account
  <2>2. lru \in Seq(Keys) /\ IsInjective(lru) /\ ToSet(lru) \subseteq Keys
    BY <1>1 DEF IInv, TypeOK, ToSet
  <2>3. Len(lru) = Cardinality(ToSet(lru))
    BY <2>2, InjectiveLength
  <2>4. retained = MapThenSumSet(LAMBDA k : Bytes[k], ToSet(lru))
    BY <1>1, MapIsFunction DEF IInv, Books
  <2>5. /\ ToSet(lru) = {k \in Keys : ready[k] # NoFlight} /\ retained <= RetainLimit
        /\ \A k \in Keys : ready[k] # NoFlight => Key(ready[k]) = k /\ Good(ready[k])
    BY <1>1 DEF IInv, Books
  <2>6. \A k \in ToSet(lru) :
          /\ Key(ready[k]) = k
          /\ flight[ready[k]].built /\ flight[ready[k]].err = NoError
    BY <2>5 DEF Good
  <2> QED BY <2>1, <2>3, <2>4, <2>5, <2>6 DEF CacheAgrees
<1> QED BY <1>1, MediaInvariant, PTL

(* When everything is over the account holds exactly the bytes of the cache. *)
THEOREM NoPayloadLeakHolds == Spec => []NoPayloadLeak
<1>1. ASSUME IInv, \A r \in Requests : pc[r] = "over", Active = {} PROVE Live = retained
  <2> DEFINE S == {f \in Flights : Referenced(f)}
             L == ToSet(lru)
             fun == [f \in S |-> Bytes[Key(f)]]
             h == [k \in L |-> Bytes[k]]
             g == [k \in L |-> ready[k]]
  <2>1. /\ L = {k \in Keys : ready[k] # NoFlight} /\ retained = SumFunctionOnSet(Bytes, L)
        /\ \A k \in L : ready[k] \in Flights /\ Key(ready[k]) = k /\ Good(ready[k])
    BY <1>1 DEF IInv, Books, TypeOK
  <2>2. \A r \in Requests : HeldBy(r) = {}
    <3>1. ASSUME NEW r \in Requests PROVE pending[r] = <<>> /\ taken[r] = {}
      BY <1>1, RequestFacts DEF Progress
    <3> QED BY <3>1 DEF HeldBy
  <2>3. S = {ready[k] : k \in L}
    <3>1. ASSUME NEW f \in S PROVE \E k \in L : f = ready[k]
      <4>1. flight[f].st \notin Running /\ f \in Flights /\ Referenced(f)
        BY <1>1 DEF Active
      <4>2. PICK k \in Keys : ready[k] = f
        BY <2>2, <4>1 DEF Referenced
      <4> QED BY <2>1, <4>1, <4>2, FlightFacts
    <3>2. ASSUME NEW k \in L PROVE ready[k] \in S
      BY <2>1 DEF Referenced, Good
    <3> QED BY <3>1, <3>2
  <2>4. IsFiniteSet(L) /\ \A k \in L : Bytes[k] \in Nat
    BY <2>1, MediaAssumption, FS_Subset
  <2>5. S = {g[k] : k \in L}
    BY <2>3
  <2>6. \A k \in L : h[k] \in Nat /\ h[k] = fun[g[k]] /\ h[k] = Bytes[k]
    BY <2>1, <2>3, <2>4
  <2>7. \A x, y \in L : g[x] = g[y] => x = y
    BY <2>1
  <2>8. Live = SumFunctionOnSet(fun, S)
    BY DEF Live, SumBytes
  <2> HIDE DEF S, L, fun, h, g
  <2>9. SumFunctionOnSet(h, L) = SumFunctionOnSet(fun, S)
    BY <2>4, <2>5, <2>6, <2>7, SumImage
  <2>10. SumFunctionOnSet(h, L) = SumFunctionOnSet(Bytes, L)
    BY <2>4, <2>6, SumSame
  <2> QED BY <2>1, <2>8, <2>9, <2>10
<1>2. IInv => NoPayloadLeak
  BY <1>1 DEF NoPayloadLeak
<1> QED BY <1>2, MediaInvariant, PTL
=============================================================================
