------------------------- MODULE TicksHandlerProofs -------------------------
(*************************************************************************)
(* The tick handler keeps its slice sorted and its hint, cache and       *)
(* bounds in step with it, and so never panics, for any set of ticks, any*)
(* number of cache slots and any sequence of calls on a loaded handler.  *)
(* Seen through what it answers, it is the book of ticks of TickBook.    *)
(*************************************************************************)
EXTENDS TicksHandler, WellFoundedInduction, TLAPS

(* Every nonempty set of natural numbers has a least element. *)
LEMMA NatMinimum ==
  ASSUME NEW T, T \subseteq Nat, T # {}
  PROVE  \E x \in T : \A y \in T : x <= y
<1> DEFINE R == {ss \in Nat \X Nat : ss[1] < ss[2]}
<1>1. IsWellFoundedOn(R, Nat)
  BY NatLessThanWellFounded DEF OpToRel
<1>2. \E x \in T : \A y \in T : ~ (<<y, x>> \in R)
  BY <1>1, WFMin
<1>3. PICK x \in T : \A y \in T : ~ (<<y, x>> \in R)
  BY <1>2
<1>4. ASSUME NEW y \in T PROVE x <= y
  <2>1. x \in Nat /\ y \in Nat
    OBVIOUS
  <2>2. ~ (<<y, x>> \in R)
    BY <1>3
  <2>3. ~ (y < x)
    BY <2>1, <2>2
  <2>4. QED
    BY <2>1, <2>3
<1>5. QED
  BY <1>4

(* A nonempty set of slice indices has a largest one. *)
LEMMA IndexMaximum ==
  ASSUME NEW n \in Nat, NEW T, T \subseteq 0 .. n-1, T # {}
  PROVE  \E x \in T : \A y \in T : y <= x
<1> DEFINE D == {d \in Nat : n - d \in T}
<1>1. ASSUME NEW y \in T PROVE n - y \in D
  <2>1. y \in 0 .. n-1
    OBVIOUS
  <2>2. n - y \in Nat /\ n - (n - y) = y
    BY <2>1
  <2>3. QED
    BY <2>2
<1>2. D # {}
  BY <1>1
<1>3. PICK d \in D : \A e \in D : d <= e
  BY <1>2, NatMinimum
<1>4. ASSUME NEW y \in T PROVE y <= n - d
  <2>1. d <= n - y
    BY <1>1, <1>3
  <2>2. y \in Int /\ d \in Int
    OBVIOUS
  <2>3. QED
    BY <2>1, <2>2
<1>5. QED
  BY <1>4

(* The index that the search is defined to return exists. *)
LEMMA LastAtOrBelowExists ==
  ASSUME NEW n \in Nat, NEW x \in [0 .. n-1 -> Int], NEW t \in Int
  PROVE  \E i \in 0 .. n : IsLastAtOrBelow(x, n, t, i)
<1> DEFINE T == {i \in 0 .. n-1 : x[i] <= t}
<1>1. CASE T = {}
  <2>1. \A j \in 0 .. n-1 : x[j] > t
    BY <1>1
  <2>2. QED
    BY <2>1 DEF IsLastAtOrBelow
<1>2. CASE T # {}
  <2>1. PICK i \in T : \A j \in T : j <= i
    BY <1>2, IndexMaximum
  <2>2. IsLastAtOrBelow(x, n, t, i)
    BY <2>1 DEF IsLastAtOrBelow
  <2>3. QED
    BY <2>2
<1>3. QED
  BY <1>1, <1>2

(* What LastAtOrBelow picks: an index, of the last tick at or below t. *)
LEMMA LastAtOrBelowFact ==
  ASSUME NEW n \in Nat, NEW x \in [0 .. n-1 -> Int], NEW t \in Int
  PROVE  /\ LastAtOrBelow(x, n, t) \in 0 .. n
         /\ IsLastAtOrBelow(x, n, t, LastAtOrBelow(x, n, t))
BY LastAtOrBelowExists DEF LastAtOrBelow
-----------------------------------------------------------------------------
Ordered(x) == \A i, j \in 0 .. x.len-1 : i < j => x.ticks[i].index < x.ticks[j].index

(* The hint is an index of the slice or -1: so after SetTicks and every call *)
(* that follows, but not on a handler that is filled by mints alone.         *)
HintFits(x) == x.len > 0 => x.last \in -1 .. x.len-1

SlotsFit(x) ==
  \A s \in x.valid : /\ x.cacheIdx[s] \in 0 .. x.len-1
                     /\ x.ticks[x.cacheIdx[s]].index = x.cacheTick[s]

(* Slice and cache agree. *)
Fit(x) ==
  /\ x.len \in Nat
  /\ x \in Handler(x.len)
  /\ Ordered(x)
  /\ SlotsFit(x)

NoneEmpty(x) == \A k \in 0 .. x.len-1 : ~IsEmpty(x.ticks[k])

Bounded(x) ==
  x.len > 0 => /\ x.smallest = x.ticks[0].index
               /\ x.largest = x.ticks[x.len-1].index

(* y has the slice and the bounds of x. *)
SameTicks(x, y) ==
  /\ y.ticks = x.ticks /\ y.len = x.len /\ y.last = x.last
  /\ y.smallest = x.smallest /\ y.largest = x.largest

(* Everything before index at is below t, the rest above it. *)
Splits(x, at, t) ==
  /\ at \in 0 .. x.len
  /\ \A k \in 0 .. x.len-1 : k < at => x.ticks[k].index < t
  /\ \A k \in 0 .. x.len-1 : k >= at => x.ticks[k].index > t

(* The fields of a handler and what they hold. *)
LEMMA FieldTypes ==
  ASSUME NEW x, x.len \in Nat, x \in Handler(x.len)
  PROVE  /\ x.ticks \in [0 .. x.len-1 -> Tick]
         /\ x.smallest \in Int /\ x.largest \in Int /\ x.last \in Int
         /\ x.cacheTick \in [Slots -> Int] /\ x.cacheIdx \in [Slots -> Int]
         /\ x.valid \subseteq Slots /\ x.next \in Nat
         /\ \A k \in 0 .. x.len-1 : /\ x.ticks[k].index \in TickIndex
                                    /\ x.ticks[k].index \in Int
                                    /\ x.ticks[k].gross \in Nat
                                    /\ x.ticks[k].net \in Int
<1>1. /\ x.ticks \in [0 .. x.len-1 -> Tick]
      /\ x.smallest \in Int /\ x.largest \in Int /\ x.last \in Int
      /\ x.cacheTick \in [Slots -> Int] /\ x.cacheIdx \in [Slots -> Int]
      /\ x.valid \subseteq Slots /\ x.next \in Nat
  BY DEF Handler, SliceOf
<1>2. ASSUME NEW k \in 0 .. x.len-1
      PROVE  x.ticks[k].index \in TickIndex /\ x.ticks[k].gross \in Nat /\ x.ticks[k].net \in Int
  BY <1>1 DEF Tick
<1>3. QED
  BY <1>1, <1>2, TicksHandlerAssumption

(* The binary search of a nonempty slice stays inside it. *)
LEMMA SearchFact ==
  ASSUME NEW x, Fit(x), x.len > 0, NEW t \in Int
  PROVE  /\ BinarySearch(x, t) \in 0 .. x.len-1
         /\ \/ /\ x.ticks[BinarySearch(x, t)].index <= t
               /\ \A j \in 0 .. x.len-1 : x.ticks[j].index <= t => j <= BinarySearch(x, t)
            \/ /\ BinarySearch(x, t) = 0
               /\ \A j \in 0 .. x.len-1 : x.ticks[j].index > t
<1> DEFINE n == x.len
           f == IndexOf(x.ticks, n)
<1>1. n \in Nat /\ \A k \in 0 .. n-1 : x.ticks[k].index \in Int
  BY FieldTypes DEF Fit
<1>2. f \in [0 .. n-1 -> Int] /\ \A k \in 0 .. n-1 : f[k] = x.ticks[k].index
  BY <1>1 DEF IndexOf
<1>3. BinarySearch(x, t) = LastAtOrBelow(f, n, t)
  BY DEF BinarySearch
<1> HIDE DEF f, n
<1>4. IsLastAtOrBelow(f, n, t, BinarySearch(x, t))
  BY <1>1, <1>2, <1>3, LastAtOrBelowFact
<1>5. n > 0
  BY DEF n
<1>6. /\ BinarySearch(x, t) \in 0 .. n-1
      /\ \/ /\ x.ticks[BinarySearch(x, t)].index <= t
            /\ \A j \in 0 .. n-1 : x.ticks[j].index <= t => j <= BinarySearch(x, t)
         \/ /\ BinarySearch(x, t) = 0
            /\ \A j \in 0 .. n-1 : x.ticks[j].index > t
  BY <1>1, <1>2, <1>4, <1>5 DEF IsLastAtOrBelow
<1>7. QED
  BY <1>6 DEF n

(* SliceKey is the tick's own index or its insertion point. *)
LEMMA SliceKeyFact ==
  ASSUME NEW x, Fit(x), x.len > 0, NEW t \in Int
  PROVE  /\ SliceKey(x, t) \in 0 .. x.len
         /\ ~IsAt(x, t, SliceKey(x, t)) => Splits(x, SliceKey(x, t), t)
<1> DEFINE i == BinarySearch(x, t)
           at == SliceKey(x, t)
<1>1. /\ x.len \in Nat
      /\ \A k \in 0 .. x.len-1 : x.ticks[k].index \in Int
      /\ \A k, j \in 0 .. x.len-1 : k < j => x.ticks[k].index < x.ticks[j].index
  BY FieldTypes DEF Fit, Ordered
<1>2. /\ i \in 0 .. x.len-1
      /\ \/ /\ x.ticks[i].index <= t
            /\ \A j \in 0 .. x.len-1 : x.ticks[j].index <= t => j <= i
         \/ /\ i = 0
            /\ \A j \in 0 .. x.len-1 : x.ticks[j].index > t
  BY SearchFact
<1>3. at = IF x.ticks[i].index < t THEN i + 1 ELSE i
  BY DEF SliceKey
<1>4. at \in 0 .. x.len
  BY <1>1, <1>2, <1>3
<1> HIDE DEF i, at
<1>5. ASSUME ~IsAt(x, t, at), NEW k \in 0 .. x.len-1, k < at
      PROVE  x.ticks[k].index < t
  BY <1>1, <1>2, <1>3, <1>5 DEF IsAt
<1>6. ASSUME ~IsAt(x, t, at), NEW k \in 0 .. x.len-1, k >= at
      PROVE  x.ticks[k].index > t
  BY <1>1, <1>2, <1>3, <1>6 DEF IsAt
<1>7. QED
  BY <1>4, <1>5, <1>6 DEF Splits, at

(* Dropping a slot, or filling one with the tick's own index, leaves the     *)
(* cache in step with the slice.                                             *)
LEMMA EvictFact ==
  ASSUME NEW x, Fit(x), NEW t
  PROVE  Fit(Evict(x, t)) /\ SameTicks(x, Evict(x, t))
<1> DEFINE y == Evict(x, t)
<1>1. /\ y \in Handler(x.len) /\ SameTicks(x, y)
      /\ y.cacheTick = x.cacheTick /\ y.cacheIdx = x.cacheIdx /\ y.valid \subseteq x.valid
  BY DEF Evict, Fit, Handler, SameTicks
<1>2. QED
  BY <1>1 DEF Fit, SameTicks, Ordered, SlotsFit

(* A slot filled with the index a tick really has keeps the handler sound. *)
LEMMA RememberFact ==
  ASSUME NEW x, Fit(x), NEW t \in Int, NEW i \in 0 .. x.len-1, x.ticks[i].index = t
  PROVE  Fit(Remember(x, t, i)) /\ SameTicks(x, Remember(x, t, i))
<1> DEFINE slot == x.next % NSlots
           y == Remember(x, t, i)
<1>1. x.len \in Nat /\ x \in Handler(x.len) /\ x.next \in Nat
  BY FieldTypes DEF Fit
<1>2. slot \in Slots
  BY <1>1, TicksHandlerAssumption DEF Slots
<1>3. slot + 1 \in Nat
  BY <1>1, TicksHandlerAssumption
<1>4. y = [x EXCEPT !.cacheTick[slot] = t, !.cacheIdx[slot] = i,
                    !.valid = @ \cup {slot}, !.next = slot + 1]
  BY DEF Remember
<1> HIDE DEF slot, y
<1>5. /\ y \in Handler(x.len) /\ SameTicks(x, y)
      /\ y.cacheTick = [x.cacheTick EXCEPT ![slot] = t]
      /\ y.cacheIdx = [x.cacheIdx EXCEPT ![slot] = i]
      /\ y.valid = x.valid \cup {slot}
  <2> DEFINE ct == [x.cacheTick EXCEPT ![slot] = t]
             ci == [x.cacheIdx EXCEPT ![slot] = i]
             vs == x.valid \cup {slot}
             nx == slot + 1
  <2>1. ct \in [Slots -> Int] /\ ci \in [Slots -> Int] /\ vs \subseteq Slots /\ nx \in Nat
    BY <1>1, <1>2, <1>3, FieldTypes
  <2>2. y = [x EXCEPT !.cacheTick = ct, !.cacheIdx = ci, !.valid = vs, !.next = nx]
    BY <1>1, <1>4 DEF Handler
  <2> HIDE DEF ct, ci, vs, nx
  <2>3. /\ y \in Handler(x.len) /\ SameTicks(x, y)
        /\ y.cacheTick = ct /\ y.cacheIdx = ci /\ y.valid = vs
    BY <1>1, <2>1, <2>2 DEF Handler, SameTicks
  <2>4. QED
    BY <2>3 DEF ct, ci, vs
<1>6. ASSUME NEW s \in y.valid
      PROVE  y.cacheIdx[s] \in 0 .. x.len-1 /\ x.ticks[y.cacheIdx[s]].index = y.cacheTick[s]
  <2>1. x.cacheTick \in [Slots -> Int] /\ x.cacheIdx \in [Slots -> Int] /\ s \in Slots
    BY <1>1, <1>2, <1>5, FieldTypes
  <2>2. CASE s = slot
    BY <2>1, <2>2, <1>5
  <2>3. CASE s # slot
    BY <2>1, <2>3, <1>5 DEF Fit, SlotsFit
  <2>4. QED
    BY <2>2, <2>3
<1>7. QED
  BY <1>5, <1>6 DEF y, Fit, SameTicks, Ordered, SlotsFit

(* A cache hit names the tick's index. *)
LEMMA CacheHitFact ==
  ASSUME NEW x, Fit(x), NEW t, CacheHit(x, t)
  PROVE  /\ x.cacheIdx[FirstSlot(x, t)] \in 0 .. x.len-1
         /\ x.ticks[x.cacheIdx[FirstSlot(x, t)]].index = t
<1> DEFINE H == Holding(x, t)
<1>1. H \subseteq Nat /\ H # {} /\ H \subseteq x.valid
  BY FieldTypes, TicksHandlerAssumption DEF CacheHit, Holding, Fit, Slots
<1>2. \E s \in H : \A r \in H : s <= r
  BY <1>1, NatMinimum
<1>3. FirstSlot(x, t) \in H
  BY <1>2 DEF FirstSlot
<1>4. QED
  BY <1>1, <1>3 DEF CacheHit, Verified, Fit, SlotsFit

(* tickWithSliceKey leaves the slice, the bounds and the hint alone, keeps   *)
(* the cache in step, and answers the tick's index or its insertion point.   *)
LEMMA LookupFact ==
  ASSUME NEW x, Fit(x), NEW t \in TickIndex
  PROVE  LET r == TickWithSliceKey(x, t)
         IN  /\ Fit(r.h) /\ SameTicks(x, r.h)
             /\ r.exist \in BOOLEAN
             /\ r.exist => r.at \in 0 .. x.len-1 /\ x.ticks[r.at].index = t
             /\ ~r.exist => Splits(x, r.at, t)
<1> DEFINE y == Evict(x, t)
           i == SliceKey(x, t)
           r == TickWithSliceKey(x, t)
<1>0. t \in Int /\ x.len \in Nat
  BY TicksHandlerAssumption DEF Fit
<1>1. CASE x.len # 0 /\ CacheHit(x, t)
  <2>1. r = [h |-> x, at |-> x.cacheIdx[FirstSlot(x, t)], exist |-> TRUE]
    BY <1>0, <1>1 DEF TickWithSliceKey
  <2>2. QED
    BY <1>1, <2>1, CacheHitFact DEF SameTicks
<1>2. CASE x.len # 0 /\ ~CacheHit(x, t) /\ IsAt(x, t, i)
  <2>1. r = [h |-> Remember(y, t, i), at |-> i, exist |-> TRUE]
    BY <1>0, <1>2 DEF TickWithSliceKey
  <2>2. Fit(y) /\ SameTicks(x, y)
    BY EvictFact
  <2>3. i \in 0 .. x.len-1 /\ x.ticks[i].index = t
    BY <1>0, <1>2, SliceKeyFact DEF IsAt
  <2>4. Fit(Remember(y, t, i)) /\ SameTicks(y, Remember(y, t, i))
    BY <1>0, <2>2, <2>3, RememberFact DEF SameTicks
  <2>5. QED
    BY <2>1, <2>2, <2>3, <2>4 DEF SameTicks
<1>3. CASE x.len # 0 /\ ~CacheHit(x, t) /\ ~IsAt(x, t, i)
  <2>1. r = [h |-> y, at |-> i, exist |-> FALSE]
    BY <1>0, <1>3 DEF TickWithSliceKey
  <2>2. QED
    BY <1>0, <1>3, <2>1, EvictFact, SliceKeyFact
<1>4. CASE x.len = 0
  <2>1. r = [h |-> x, at |-> 0, exist |-> FALSE]
    BY <1>4 DEF TickWithSliceKey
  <2>2. Splits(x, 0, t)
    BY <1>4 DEF Splits
  <2>3. QED
    BY <2>1, <2>2 DEF SameTicks
<1>5. QED
  BY <1>1, <1>2, <1>3, <1>4

(* y is x with another slice and other indices into it. *)
HasSlice(y, x, n, ts, ci, vs, ls) ==
  /\ y \in Handler(n)
  /\ y.ticks = ts /\ y.len = n /\ y.cacheIdx = ci /\ y.valid = vs /\ y.last = ls
  /\ y.cacheTick = x.cacheTick
  /\ y.smallest = x.smallest /\ y.largest = x.largest

(* Replacing the slice, its length, the slot indices, the valid slots and    *)
(* the hint leaves every other field alone.                                  *)
LEMMA ReplaceSlice ==
  ASSUME NEW x, x.len \in Nat, x \in Handler(x.len),
         NEW n \in Nat, NEW ts \in [0 .. n-1 -> Tick],
         NEW ci \in [Slots -> Int], NEW vs \in SUBSET Slots, NEW ls \in Int,
         NEW y, y = [x EXCEPT !.ticks = ts, !.len = n, !.cacheIdx = ci,
                              !.valid = vs, !.last = ls]
  PROVE  HasSlice(y, x, n, ts, ci, vs, ls)
BY DEF Handler, SliceOf, HasSlice

(* u is the slice ts of n ticks with tk inserted at at. *)
HasInserted(u, ts, n, at, tk) ==
  /\ u \in [0 .. n -> Tick]
  /\ u[at] = tk
  /\ \A k \in 0 .. n-1 : k < at => u[k] = ts[k]
  /\ \A k \in 0 .. n-1 : k >= at => u[k+1] = ts[k]
  /\ \A k \in 0 .. n : \/ k < at /\ k \in 0 .. n-1 /\ u[k] = ts[k]
                       \/ k = at
                       \/ k > at /\ k-1 \in 0 .. n-1 /\ u[k] = ts[k-1]

(* What slices.Insert leaves at every index. *)
LEMMA InsertedSlice ==
  ASSUME NEW n \in Nat, NEW ts \in [0 .. n-1 -> Tick], NEW at \in 0 .. n, NEW tk \in Tick
  PROVE  HasInserted(InsertAt(ts, n, at, tk), ts, n, at, tk)
<1> DEFINE u == InsertAt(ts, n, at, tk)
<1>1. ASSUME NEW k \in 0 .. n
      PROVE  u[k] = IF k < at THEN ts[k] ELSE IF k = at THEN tk ELSE ts[k-1]
  BY DEF InsertAt
<1>2. u \in [0 .. n -> Tick]
  <2>1. \A k \in 0 .. n : (IF k < at THEN ts[k] ELSE IF k = at THEN tk ELSE ts[k-1]) \in Tick
    OBVIOUS
  <2>2. QED
    BY <2>1 DEF InsertAt
<1> HIDE DEF u
<1>3. u[at] = tk
  BY <1>1
<1>4. \A k \in 0 .. n-1 : k < at => u[k] = ts[k]
  BY <1>1
<1>5. ASSUME NEW k \in 0 .. n-1, k >= at PROVE u[k+1] = ts[k]
  <2>1. k+1 \in 0 .. n /\ ~(k+1 < at) /\ k+1 # at /\ (k+1)-1 = k
    BY <1>5
  <2>2. QED
    BY <1>1, <2>1
<1>6. \A k \in 0 .. n : \/ k < at /\ k \in 0 .. n-1 /\ u[k] = ts[k]
                        \/ k = at
                        \/ k > at /\ k-1 \in 0 .. n-1 /\ u[k] = ts[k-1]
  BY <1>1
<1>7. QED
  BY <1>2, <1>3, <1>4, <1>5, <1>6 DEF u, HasInserted

(* Inserting a tick where it belongs keeps order, hint and cache. *)
LEMMA InsertFact ==
  ASSUME NEW x, Fit(x), NEW t, NEW at, Splits(x, at, t),
         NEW tk \in Tick, tk.index = t
  PROVE  LET y == InsertTick(x, at, tk)
         IN  /\ Fit(y)
             /\ x.len > 0 /\ HintFits(x) => HintFits(y)
             /\ y.len = x.len + 1 /\ y.ticks = InsertAt(x.ticks, x.len, at, tk)
             /\ y.smallest = x.smallest /\ y.largest = x.largest
<1> DEFINE n == x.len
           ts == x.ticks
           y == InsertTick(x, at, tk)
           u == InsertAt(ts, n, at, tk)
           ci == ShiftSlotsAfterInsert(x, at)
           vs == x.valid
           ls == ShiftHintAfterInsert(x, at)
<1>1. /\ n \in Nat /\ x \in Handler(n) /\ at \in 0 .. n
      /\ ts \in [0 .. n-1 -> Tick] /\ x.last \in Int
      /\ x.cacheIdx \in [Slots -> Int] /\ vs \in SUBSET Slots
      /\ \A k \in 0 .. n-1 : ts[k].index \in Int
  BY FieldTypes DEF Fit, Splits
<1>3. ci \in [Slots -> Int]
  BY <1>1 DEF ShiftSlotsAfterInsert
<1>4. ls \in Int /\ (n > 0 /\ HintFits(x) => ls \in -1 .. n)
  BY <1>1 DEF ShiftHintAfterInsert, HintFits
<1>5. y = [x EXCEPT !.ticks = u, !.len = n+1, !.cacheIdx = ci,
                    !.valid = vs, !.last = ls]
  BY <1>1 DEF InsertTick, Handler
<1>6. n+1 \in Nat /\ (n+1)-1 = n
  BY <1>1
<1> HIDE DEF n, ts, y, u, ci, vs, ls
<1>2. /\ u \in [0 .. n -> Tick]
      /\ u[at] = tk
      /\ \A k \in 0 .. n-1 : k < at => u[k] = ts[k]
      /\ \A k \in 0 .. n-1 : k >= at => u[k+1] = ts[k]
      /\ \A k \in 0 .. n : \/ k < at /\ k \in 0 .. n-1 /\ u[k] = ts[k]
                           \/ k = at
                           \/ k > at /\ k-1 \in 0 .. n-1 /\ u[k] = ts[k-1]
  <2>1. n \in Nat /\ ts \in [0 .. n-1 -> Tick] /\ at \in 0 .. n /\ tk \in Tick
    BY <1>1
  <2>2. HasInserted(u, ts, n, at, tk)
    BY <2>1, InsertedSlice DEF u
  <2>3. QED
    BY <2>2 DEF HasInserted
<1>7. /\ y \in Handler(n+1)
      /\ y.ticks = u /\ y.len = n+1 /\ y.cacheIdx = ci /\ y.valid = vs /\ y.last = ls
      /\ y.cacheTick = x.cacheTick
      /\ y.smallest = x.smallest /\ y.largest = x.largest
  <2>1. x.len \in Nat /\ x \in Handler(x.len)
    BY DEF Fit
  <2>2. u \in [0 .. (n+1)-1 -> Tick]
    BY <1>2, <1>6
  <2>3. vs \in SUBSET Slots /\ ls \in Int /\ n+1 \in Nat
    BY <1>1, <1>4, <1>6
  <2>4. HasSlice(y, x, n+1, u, ci, vs, ls)
    BY <2>1, <2>2, <2>3, <1>3, <1>5, ReplaceSlice
  <2>5. QED
    BY <2>4 DEF HasSlice
<1>8. Ordered(y)
  <2> SUFFICES ASSUME NEW i \in 0 .. n, NEW j \in 0 .. n, i < j
               PROVE  u[i].index < u[j].index
    BY <1>6, <1>7 DEF Ordered
  <2>1. \A k, m \in 0 .. n-1 : k < m => ts[k].index < ts[m].index
    BY DEF n, ts, Fit, Ordered
  <2>2. /\ \A k \in 0 .. n-1 : k < at => ts[k].index < t
        /\ \A k \in 0 .. n-1 : k >= at => t < ts[k].index
    BY <1>1 DEF n, ts, Splits
  <2>3. CASE i = at
    <3>1. j-1 \in 0 .. n-1 /\ j-1 >= at /\ u[j] = ts[j-1]
      BY <1>1, <1>2, <2>3
    <3>2. QED
      BY <1>2, <2>2, <2>3, <3>1
  <2>4. CASE j = at
    <3>1. i \in 0 .. n-1 /\ u[i] = ts[i]
      BY <1>1, <1>2, <2>4
    <3>2. QED
      BY <1>2, <2>2, <2>4, <3>1
  <2>5. CASE i < at /\ at < j
    <3>1. i \in 0 .. n-1 /\ u[i] = ts[i]
      BY <1>1, <1>2, <2>5
    <3>2. j-1 \in 0 .. n-1 /\ u[j] = ts[j-1] /\ i < j-1
      BY <1>1, <1>2, <2>5
    <3>3. QED
      BY <2>1, <3>1, <3>2
  <2>6. CASE j < at
    BY <1>1, <1>2, <2>1, <2>6
  <2>7. CASE i > at
    <3>1. i-1 \in 0 .. n-1 /\ u[i] = ts[i-1]
      BY <1>1, <1>2, <2>7
    <3>2. j-1 \in 0 .. n-1 /\ u[j] = ts[j-1] /\ i-1 < j-1
      BY <1>1, <1>2, <2>7
    <3>3. QED
      BY <2>1, <3>1, <3>2
  <2>8. QED
    BY <1>1, <2>3, <2>4, <2>5, <2>6, <2>7
<1>9. n > 0 /\ HintFits(x) => HintFits(y)
  <2> SUFFICES ASSUME n > 0, HintFits(x) PROVE y.last \in -1 .. y.len-1
    BY DEF HintFits
  <2> QED BY <1>4, <1>6, <1>7
<1>10. SlotsFit(y)
  <2> SUFFICES ASSUME NEW s \in vs
               PROVE  ci[s] \in 0 .. n /\ u[ci[s]].index = x.cacheTick[s]
    BY <1>6, <1>7 DEF SlotsFit
  <2>1. x.cacheIdx[s] \in 0 .. n-1 /\ ts[x.cacheIdx[s]].index = x.cacheTick[s]
    BY DEF n, ts, vs, Fit, SlotsFit
  <2>2. s \in Slots
    BY <1>1
  <2>3. ci[s] = IF x.cacheIdx[s] >= at THEN x.cacheIdx[s] + 1 ELSE x.cacheIdx[s]
    BY <2>2 DEF ci, vs, ShiftSlotsAfterInsert
  <2>4. QED
    BY <1>1, <1>2, <2>1, <2>3
<1>11. QED
  BY <1>6, <1>7, <1>8, <1>9, <1>10 DEF Fit, n, ts, y, u

(* u is the slice ts of n ticks without the one at at. *)
HasDeleted(u, ts, n, at) ==
  /\ u \in [0 .. n-2 -> Tick]
  /\ \A k \in 0 .. n-1 : k < at => k \in 0 .. n-2 /\ u[k] = ts[k]
  /\ \A k \in 0 .. n-1 : k > at => k-1 \in 0 .. n-2 /\ u[k-1] = ts[k]
  /\ \A k \in 0 .. n-2 : \/ k < at /\ k \in 0 .. n-1 /\ u[k] = ts[k]
                         \/ k >= at /\ k+1 \in 0 .. n-1 /\ u[k] = ts[k+1]

(* What slices.Delete leaves at every index. *)
LEMMA DeletedSlice ==
  ASSUME NEW n \in Nat, NEW ts \in [0 .. n-1 -> Tick], NEW at \in 0 .. n-1
  PROVE  HasDeleted(DeleteAt(ts, n, at), ts, n, at)
<1> DEFINE u == DeleteAt(ts, n, at)
<1>1. ASSUME NEW k \in 0 .. n-2
      PROVE  u[k] = IF k < at THEN ts[k] ELSE ts[k+1]
  BY DEF DeleteAt
<1>2. u \in [0 .. n-2 -> Tick]
  <2>1. \A k \in 0 .. n-2 : (IF k < at THEN ts[k] ELSE ts[k+1]) \in Tick
    OBVIOUS
  <2>2. QED
    BY <2>1 DEF DeleteAt
<1> HIDE DEF u
<1>3. \A k \in 0 .. n-1 : k < at => k \in 0 .. n-2 /\ u[k] = ts[k]
  BY <1>1
<1>4. ASSUME NEW k \in 0 .. n-1, k > at PROVE k-1 \in 0 .. n-2 /\ u[k-1] = ts[k]
  <2>1. k-1 \in 0 .. n-2 /\ ~(k-1 < at) /\ (k-1)+1 = k
    BY <1>4
  <2>2. QED
    BY <1>1, <2>1
<1>5. \A k \in 0 .. n-2 : \/ k < at /\ k \in 0 .. n-1 /\ u[k] = ts[k]
                          \/ k >= at /\ k+1 \in 0 .. n-1 /\ u[k] = ts[k+1]
  BY <1>1
<1>6. QED
  BY <1>2, <1>3, <1>4, <1>5 DEF u, HasDeleted

(* Deleting a tick keeps order, hint and cache. *)
LEMMA DeleteFact ==
  ASSUME NEW x, Fit(x), NEW at \in 0 .. x.len-1
  PROVE  LET y == DeleteTick(x, at)
         IN  /\ Fit(y)
             /\ HintFits(x) => HintFits(y)
             /\ y.len = x.len - 1 /\ y.ticks = DeleteAt(x.ticks, x.len, at)
<1> DEFINE n == x.len
           ts == x.ticks
           y == DeleteTick(x, at)
           u == DeleteAt(ts, n, at)
           ci == ShiftSlotsAfterDelete(x, at)
           vs == SlotsAfterDelete(x, at)
           ls == ShiftHintAfterDelete(x, at)
<1>1. /\ n \in Nat /\ n > 0 /\ x \in Handler(n) /\ at \in 0 .. n-1
      /\ ts \in [0 .. n-1 -> Tick] /\ x.last \in Int
      /\ x.cacheIdx \in [Slots -> Int] /\ x.valid \in SUBSET Slots
      /\ \A k \in 0 .. n-1 : ts[k].index \in Int
  BY FieldTypes DEF Fit
<1>2. ci \in [Slots -> Int]
  BY <1>1 DEF ShiftSlotsAfterDelete
<1>3. vs \in SUBSET Slots
  BY <1>1 DEF SlotsAfterDelete
<1>4. ls \in Int /\ (HintFits(x) => ls \in -1 .. n-2)
  BY <1>1 DEF ShiftHintAfterDelete, HintFits
<1>5. y = [x EXCEPT !.ticks = u, !.len = n-1, !.cacheIdx = ci,
                    !.valid = vs, !.last = ls]
  BY <1>1 DEF DeleteTick, Handler
<1>6. n-1 \in Nat /\ (n-1)-1 = n-2
  BY <1>1
<1> HIDE DEF n, ts, y, u, ci, vs, ls
<1>7. HasDeleted(u, ts, n, at)
  BY <1>1, DeletedSlice DEF u
<1>8. HasSlice(y, x, n-1, u, ci, vs, ls)
  <2>1. x.len \in Nat /\ x \in Handler(x.len)
    BY DEF Fit
  <2>2. u \in [0 .. (n-1)-1 -> Tick]
    BY <1>6, <1>7 DEF HasDeleted
  <2>3. QED
    BY <2>1, <2>2, <1>2, <1>3, <1>4, <1>5, <1>6, ReplaceSlice
<1>9. Ordered(y)
  <2> SUFFICES ASSUME NEW i \in 0 .. n-2, NEW j \in 0 .. n-2, i < j
               PROVE  u[i].index < u[j].index
    BY <1>6, <1>8 DEF Ordered, HasSlice
  <2>1. \A k, m \in 0 .. n-1 : k < m => ts[k].index < ts[m].index
    BY DEF n, ts, Fit, Ordered
  <2>2. CASE j < at
    <3>1. /\ i \in 0 .. n-1 /\ u[i] = ts[i]
          /\ j \in 0 .. n-1 /\ u[j] = ts[j]
      BY <1>1, <1>7, <2>2 DEF HasDeleted
    <3>2. QED
      BY <2>1, <3>1
  <2>3. CASE i < at /\ j >= at
    <3>1. /\ i \in 0 .. n-1 /\ u[i] = ts[i]
          /\ j+1 \in 0 .. n-1 /\ u[j] = ts[j+1] /\ i < j+1
      BY <1>1, <1>7, <2>3 DEF HasDeleted
    <3>2. QED
      BY <2>1, <3>1
  <2>4. CASE i >= at
    <3>1. /\ i+1 \in 0 .. n-1 /\ u[i] = ts[i+1]
          /\ j+1 \in 0 .. n-1 /\ u[j] = ts[j+1] /\ i+1 < j+1
      BY <1>1, <1>7, <2>4 DEF HasDeleted
    <3>2. QED
      BY <2>1, <3>1
  <2>5. QED
    BY <1>1, <2>2, <2>3, <2>4
<1>10. HintFits(x) => HintFits(y)
  <2> SUFFICES ASSUME HintFits(x) PROVE y.last \in -1 .. y.len-1
    BY DEF HintFits
  <2> QED BY <1>4, <1>6, <1>8 DEF HasSlice
<1>11. SlotsFit(y)
  <2> SUFFICES ASSUME NEW s \in vs
               PROVE  ci[s] \in 0 .. n-2 /\ u[ci[s]].index = x.cacheTick[s]
    BY <1>6, <1>8 DEF SlotsFit, HasSlice
  <2>1. s \in x.valid /\ x.cacheIdx[s] # at
    BY DEF vs, SlotsAfterDelete
  <2>2. x.cacheIdx[s] \in 0 .. n-1 /\ ts[x.cacheIdx[s]].index = x.cacheTick[s]
    BY <2>1 DEF n, ts, Fit, SlotsFit
  <2>3. s \in Slots
    BY <1>1, <2>1
  <2>4. ci[s] = IF x.cacheIdx[s] > at THEN x.cacheIdx[s] - 1 ELSE x.cacheIdx[s]
    BY <2>1, <2>3 DEF ci, ShiftSlotsAfterDelete
  <2>5. QED
    BY <1>1, <1>7, <2>1, <2>2, <2>4 DEF HasDeleted
<1>12. Fit(y)
  BY <1>6, <1>8, <1>9, <1>11 DEF Fit, HasSlice
<1>13. QED
  BY <1>8, <1>10, <1>12 DEF HasSlice, n, ts, y, u

(* Changing the amounts of a listed tick leaves everything else alone. *)
LEMMA ChangeFact ==
  ASSUME NEW x, Fit(x), NEW at \in 0 .. x.len-1, NEW g \in Int, NEW d \in Int,
         x.ticks[at].gross + g \in Nat
  PROVE  LET y == Change(x, at, g, d)
         IN  /\ Fit(y)
             /\ HintFits(x) => HintFits(y)
             /\ y.len = x.len /\ y.smallest = x.smallest /\ y.largest = x.largest
             /\ y.ticks[at] = Changed(x.ticks[at], g, d)
             /\ \A k \in 0 .. x.len-1 : k # at => y.ticks[k] = x.ticks[k]
             /\ \A k \in 0 .. x.len-1 : y.ticks[k].index = x.ticks[k].index
<1> DEFINE n == x.len
           ts == x.ticks
           y == Change(x, at, g, d)
           tk == Changed(ts[at], g, d)
           u == [ts EXCEPT ![at] = tk]
<1>1. /\ n \in Nat /\ x \in Handler(n) /\ ts \in [0 .. n-1 -> Tick] /\ x.last \in Int
      /\ x.cacheIdx \in [Slots -> Int] /\ x.valid \in SUBSET Slots
      /\ \A k \in 0 .. n-1 : /\ ts[k].index \in TickIndex /\ ts[k].gross \in Nat
                             /\ ts[k].net \in Int
  BY FieldTypes DEF Fit
<1>2. tk \in Tick /\ tk.index = ts[at].index
  BY <1>1 DEF Tick, Changed
<1>3. /\ u \in [0 .. n-1 -> Tick] /\ u[at] = tk
      /\ \A k \in 0 .. n-1 : k # at => u[k] = ts[k]
  BY <1>1, <1>2
<1>4. \A k \in 0 .. n-1 : u[k].index = ts[k].index
  BY <1>2, <1>3
<1>5. y = [x EXCEPT !.ticks = u]
  BY DEF Change
<1> HIDE DEF n, ts, y, tk, u
<1>6. y = [x EXCEPT !.ticks = u, !.len = n, !.cacheIdx = x.cacheIdx,
                    !.valid = x.valid, !.last = x.last]
  BY <1>1, <1>5 DEF Handler
<1>7. HasSlice(y, x, n, u, x.cacheIdx, x.valid, x.last)
  <2>1. x.len \in Nat /\ x \in Handler(x.len)
    BY DEF Fit
  <2>2. QED
    BY <2>1, <1>1, <1>3, <1>6, ReplaceSlice
<1>8. Fit(y)
  <2>1. y.len = n /\ y.ticks = u /\ y.len \in Nat /\ y \in Handler(y.len)
    BY <1>1, <1>7 DEF HasSlice
  <2>2. Ordered(y)
    BY <1>4, <2>1 DEF Fit, Ordered, n, ts
  <2>3. SlotsFit(y)
    BY <1>4, <1>7, <2>1 DEF Fit, HasSlice, SlotsFit, n, ts
  <2>4. QED
    BY <2>1, <2>2, <2>3 DEF Fit
<1>9. HintFits(x) => HintFits(y)
  BY <1>7 DEF HasSlice, HintFits, n
<1>10. QED
  BY <1>3, <1>4, <1>7, <1>8, <1>9 DEF HasSlice, n, ts, y, tk

(* Recomputing the bounds makes them exact. *)
LEMMA ReboundFact ==
  ASSUME NEW x, Fit(x)
  PROVE  LET y == Rebound(x)
         IN  /\ Fit(y) /\ Bounded(y) /\ y.len = x.len /\ y.ticks = x.ticks
             /\ HintFits(x) => HintFits(y)
<1> DEFINE y == Rebound(x)
<1>1. /\ x.len \in Nat /\ x \in Handler(x.len)
      /\ \A k \in 0 .. x.len-1 : x.ticks[k].index \in Int
  BY FieldTypes DEF Fit
<1>2. CASE x.len = 0
  BY <1>2 DEF Rebound, Bounded
<1>3. CASE x.len > 0
  <2> DEFINE lo == x.ticks[0].index
             hi == x.ticks[x.len-1].index
  <2>1. lo \in Int /\ hi \in Int
    BY <1>1, <1>3
  <2>2. y = [x EXCEPT !.smallest = lo, !.largest = hi]
    BY <1>3 DEF Rebound
  <2> HIDE DEF lo, hi, y
  <2>3. /\ y \in Handler(x.len) /\ y.len = x.len /\ y.ticks = x.ticks /\ y.last = x.last
        /\ y.cacheTick = x.cacheTick /\ y.cacheIdx = x.cacheIdx /\ y.valid = x.valid
        /\ y.smallest = lo /\ y.largest = hi
    BY <1>1, <2>1, <2>2 DEF Handler
  <2>4. Ordered(y)
    BY <2>3 DEF Fit, Ordered
  <2>5. HintFits(x) => HintFits(y)
    BY <2>3 DEF HintFits
  <2>6. SlotsFit(y)
    BY <2>3 DEF Fit, SlotsFit
  <2>7. Bounded(y)
    BY <2>3 DEF Bounded, lo, hi
  <2>8. QED
    BY <1>1, <2>3, <2>4, <2>5, <2>6, <2>7 DEF Fit, y
<1>4. QED
  BY <1>1, <1>2, <1>3

(* x is in order and holds no empty tick. *)
Sound(x) == Fit(x) /\ NoneEmpty(x)

(* One side of a mint keeps the handler sound; the tick that is added to     *)
(* cannot become empty, and a new tick is put where it belongs.              *)
LEMMA AddToFact ==
  ASSUME NEW x, Sound(x), NEW t \in TickIndex, NEW g \in Nat, g > 0, NEW d \in Int
  PROVE  LET y == AddTo(x, t, g, d)
         IN  /\ Sound(y)
             /\ x.len > 0 /\ HintFits(x) => HintFits(y)
             /\ y.smallest = x.smallest /\ y.largest = x.largest
             /\ \/ /\ y.len = x.len
                   /\ \A k \in 0 .. x.len-1 : y.ticks[k].index = x.ticks[k].index
                   /\ \E k \in 0 .. x.len-1 : x.ticks[k].index = t
                \/ /\ y.len = x.len + 1
                   /\ \E at \in 0 .. x.len :
                        /\ Splits(x, at, t)
                        /\ y.ticks[at].index = t
                        /\ HasInserted(y.ticks, x.ticks, x.len, at, y.ticks[at])
<1> DEFINE r == TickWithSliceKey(x, t)
           y == AddTo(x, t, g, d)
           z == r.h
<1>1. /\ Fit(z) /\ SameTicks(x, z)
      /\ r.exist \in BOOLEAN
      /\ r.exist => r.at \in 0 .. x.len-1 /\ x.ticks[r.at].index = t
      /\ ~r.exist => Splits(x, r.at, t)
  BY LookupFact DEF Sound
<1>2. /\ x.len \in Nat
      /\ \A k \in 0 .. x.len-1 : x.ticks[k].gross \in Nat /\ x.ticks[k].net \in Int
  BY FieldTypes DEF Sound, Fit
<1>3. CASE r.exist
  <2> DEFINE at == r.at
  <2>1. y = Change(z, at, g, d)
    BY <1>3 DEF AddTo
  <2>2. at \in 0 .. z.len-1 /\ z.ticks[at].gross + g \in Nat
    BY <1>1, <1>2, <1>3 DEF SameTicks
  <2> HIDE DEF at, z, y
  <2>3. /\ Fit(y) /\ (HintFits(z) => HintFits(y))
        /\ y.len = z.len /\ y.smallest = z.smallest /\ y.largest = z.largest
        /\ y.ticks[at] = Changed(z.ticks[at], g, d)
        /\ \A k \in 0 .. z.len-1 : k # at => y.ticks[k] = z.ticks[k]
        /\ \A k \in 0 .. z.len-1 : y.ticks[k].index = z.ticks[k].index
    BY <1>1, <2>1, <2>2, ChangeFact
  <2>4. y.ticks[at].gross > 0
    BY <1>1, <1>2, <2>2, <2>3 DEF Changed, SameTicks
  <2>5. NoneEmpty(y)
    BY <1>1, <2>3, <2>4 DEF NoneEmpty, IsEmpty, Sound, SameTicks
  <2>6. QED
    BY <1>1, <1>3, <2>3, <2>5 DEF Sound, SameTicks, HintFits, y
<1>4. CASE ~r.exist
  <2> DEFINE at == r.at
             tk == [index |-> t, gross |-> g, net |-> d]
  <2>1. y = InsertTick(z, at, tk)
    BY <1>4 DEF AddTo
  <2>2. tk \in Tick /\ tk.index = t /\ ~IsEmpty(tk)
    BY DEF Tick, IsEmpty
  <2>3. Splits(x, at, t) /\ at \in 0 .. x.len
    BY <1>1, <1>4 DEF Splits
  <2>4. Splits(z, at, t)
    BY <1>1, <2>3 DEF Splits, SameTicks
  <2> HIDE DEF at, tk, z, y
  <2>5. /\ Fit(y) /\ (z.len > 0 /\ HintFits(z) => HintFits(y))
        /\ y.len = z.len + 1 /\ y.ticks = InsertAt(z.ticks, z.len, at, tk)
        /\ y.smallest = z.smallest /\ y.largest = z.largest
    BY <1>1, <2>1, <2>2, <2>4, InsertFact
  <2>6. HasInserted(y.ticks, x.ticks, x.len, at, tk)
    <3>1. x.ticks \in [0 .. x.len-1 -> Tick]
      BY FieldTypes DEF Sound, Fit
    <3>2. QED
      BY <1>1, <1>2, <2>2, <2>3, <2>5, <3>1, InsertedSlice DEF SameTicks
  <2>7. y.ticks[at] = tk
    BY <2>6 DEF HasInserted
  <2>8. NoneEmpty(y)
    <3>1. y.len - 1 = x.len
      BY <1>1, <1>2, <2>5 DEF SameTicks
    <3> SUFFICES ASSUME NEW k \in 0 .. x.len PROVE ~IsEmpty(y.ticks[k])
      BY <3>1 DEF NoneEmpty
    <3>2. CASE k = at
      BY <2>2, <2>7, <3>2
    <3>3. CASE k # at
      BY <2>6, <3>3 DEF HasInserted, Sound, NoneEmpty
    <3>4. QED
      BY <3>2, <3>3
  <2>9. x.len > 0 /\ HintFits(x) => HintFits(y)
    BY <1>1, <2>5 DEF SameTicks, HintFits
  <2>10. QED
    BY <1>1, <2>2, <2>3, <2>5, <2>6, <2>7, <2>8, <2>9 DEF Sound, SameTicks, y
<1>5. QED
  BY <1>1, <1>3, <1>4

(* Setting a bound touches nothing else. *)
LEMMA LowerSmallestFact ==
  ASSUME NEW x, Sound(x), NEW t \in Int
  PROVE  LET y == LowerSmallest(x, t)
         IN  /\ Sound(y) /\ (HintFits(x) => HintFits(y))
             /\ y.len = x.len /\ y.ticks = x.ticks /\ y.largest = x.largest
             /\ y.smallest = IF t < x.smallest THEN t ELSE x.smallest
<1> DEFINE y == LowerSmallest(x, t)
<1>1. /\ y \in Handler(x.len) /\ y.len = x.len /\ y.ticks = x.ticks /\ y.last = x.last
      /\ y.cacheTick = x.cacheTick /\ y.cacheIdx = x.cacheIdx /\ y.valid = x.valid
      /\ y.largest = x.largest
      /\ y.smallest = IF t < x.smallest THEN t ELSE x.smallest
  BY DEF LowerSmallest, Sound, Fit, Handler
<1> HIDE DEF y
<1>2. Ordered(y) /\ (HintFits(x) => HintFits(y)) /\ SlotsFit(y) /\ NoneEmpty(y)
  BY <1>1 DEF Sound, Fit, Ordered, HintFits, SlotsFit, NoneEmpty
<1>3. QED
  BY <1>1, <1>2 DEF Sound, Fit, y

(* RaiseLargest touches nothing but the largest index. *)
LEMMA RaiseLargestFact ==
  ASSUME NEW x, Sound(x), NEW t \in Int
  PROVE  LET y == RaiseLargest(x, t)
         IN  /\ Sound(y) /\ (HintFits(x) => HintFits(y))
             /\ y.len = x.len /\ y.ticks = x.ticks /\ y.smallest = x.smallest
             /\ y.largest = IF t > x.largest THEN t ELSE x.largest
<1> DEFINE y == RaiseLargest(x, t)
<1>1. /\ y \in Handler(x.len) /\ y.len = x.len /\ y.ticks = x.ticks /\ y.last = x.last
      /\ y.cacheTick = x.cacheTick /\ y.cacheIdx = x.cacheIdx /\ y.valid = x.valid
      /\ y.smallest = x.smallest
      /\ y.largest = IF t > x.largest THEN t ELSE x.largest
  BY DEF RaiseLargest, Sound, Fit, Handler
<1> HIDE DEF y
<1>2. Ordered(y) /\ (HintFits(x) => HintFits(y)) /\ SlotsFit(y) /\ NoneEmpty(y)
  BY <1>1 DEF Sound, Fit, Ordered, HintFits, SlotsFit, NoneEmpty
<1>3. QED
  BY <1>1, <1>2 DEF Sound, Fit, y

(* Between the two sides of a mint the largest index may lag behind a lower  *)
(* tick that was inserted above every other one; the upper tick, which is    *)
(* then new and larger still, catches it up.                                 *)
Lagging(x, lower) ==
  /\ x.len > 0
  /\ x.smallest = x.ticks[0].index
  /\ x.smallest <= lower
  /\ \/ x.largest = x.ticks[x.len-1].index
     \/ x.largest < lower /\ lower = x.ticks[x.len-1].index

(* The lower half of a mint; it may leave the largest index behind. *)
LEMMA MintLowerFact ==
  ASSUME NEW x, Sound(x), Bounded(x), x.len > 0, NEW t \in TickIndex, NEW g \in Nat, g > 0
  PROVE  /\ Sound(MintLower(x, t, g)) /\ Lagging(MintLower(x, t, g), t)
         /\ HintFits(x) => HintFits(MintLower(x, t, g))
<1> DEFINE y == AddTo(x, t, g, g)
           z == MintLower(x, t, g)
           n == x.len
<1>0. t \in Int /\ g \in Int
  BY TicksHandlerAssumption
<1>1. /\ n \in Nat /\ n > 0
      /\ \A k \in 0 .. n-1 : x.ticks[k].index \in Int
      /\ \A i, j \in 0 .. n-1 : i < j => x.ticks[i].index < x.ticks[j].index
      /\ x.smallest = x.ticks[0].index /\ x.largest = x.ticks[n-1].index
  BY FieldTypes DEF Sound, Fit, Ordered, Bounded
<1>2. /\ Sound(y) /\ (HintFits(x) => HintFits(y))
      /\ y.smallest = x.smallest /\ y.largest = x.largest
      /\ \/ /\ y.len = x.len
            /\ \A k \in 0 .. x.len-1 : y.ticks[k].index = x.ticks[k].index
            /\ \E k \in 0 .. x.len-1 : x.ticks[k].index = t
         \/ /\ y.len = x.len + 1
            /\ \E at \in 0 .. x.len :
                 /\ Splits(x, at, t)
                 /\ y.ticks[at].index = t
                 /\ HasInserted(y.ticks, x.ticks, x.len, at, y.ticks[at])
  <2> DEFINE v == AddTo(x, t, g, g)
  <2>1. /\ Sound(v)
        /\ v.smallest = x.smallest /\ v.largest = x.largest
        /\ \/ /\ v.len = x.len
              /\ \A k \in 0 .. x.len-1 : v.ticks[k].index = x.ticks[k].index
              /\ \E k \in 0 .. x.len-1 : x.ticks[k].index = t
           \/ /\ v.len = x.len + 1
              /\ \E at \in 0 .. x.len :
                   /\ Splits(x, at, t)
                   /\ v.ticks[at].index = t
                   /\ HasInserted(v.ticks, x.ticks, x.len, at, v.ticks[at])
    BY <1>0, AddToFact
  <2>2. HintFits(x) => HintFits(v)
    BY <1>0, <1>1, AddToFact
  <2> QED BY <2>1, <2>2
<1>3. z = IF y.len > x.len THEN LowerSmallest(y, t) ELSE y
  BY DEF MintLower
<1> HIDE DEF y, z
<1>4. CASE /\ y.len = x.len
           /\ \A k \in 0 .. x.len-1 : y.ticks[k].index = x.ticks[k].index
           /\ \E k \in 0 .. x.len-1 : x.ticks[k].index = t
  <2>1. z = y
    BY <1>1, <1>3, <1>4
  <2>2. PICK k \in 0 .. n-1 : x.ticks[k].index = t
    BY <1>4
  <2>3. x.ticks[0].index <= t
    BY <1>1, <2>2
  <2>4. Lagging(z, t)
    BY <1>1, <1>2, <1>4, <2>1, <2>3 DEF Lagging
  <2>5. QED
    BY <1>2, <2>1, <2>4 DEF z
<1>5. ASSUME y.len = n + 1, NEW at \in 0 .. n, Splits(x, at, t), y.ticks[at].index = t,
             HasInserted(y.ticks, x.ticks, n, at, y.ticks[at])
      PROVE  /\ Sound(MintLower(x, t, g)) /\ Lagging(MintLower(x, t, g), t)
             /\ HintFits(x) => HintFits(MintLower(x, t, g))
  <2>1. z = LowerSmallest(y, t)
    BY <1>1, <1>3, <1>5
  <2>2. /\ Sound(z) /\ (HintFits(y) => HintFits(z)) /\ z.len = y.len /\ z.ticks = y.ticks /\ z.largest = y.largest
        /\ z.smallest = IF t < y.smallest THEN t ELSE y.smallest
    BY <1>0, <1>2, <2>1, LowerSmallestFact
  <2>3. /\ at = 0 => t < x.ticks[0].index
        /\ at > 0 => x.ticks[0].index < t
        /\ at < n => t < x.ticks[n-1].index
    BY <1>1, <1>5 DEF Splits
  <2>4. /\ at > 0 => y.ticks[0] = x.ticks[0]
        /\ at < n => y.ticks[n] = x.ticks[n-1]
    BY <1>1, <1>5 DEF HasInserted
  <2>5. z.smallest = z.ticks[0].index /\ z.smallest <= t
    <3>1. CASE at = 0
      BY <1>0, <1>1, <1>2, <1>5, <2>2, <2>3, <3>1
    <3>2. CASE at > 0
      BY <1>0, <1>1, <1>2, <2>2, <2>3, <2>4, <3>2
    <3>3. QED
      BY <3>1, <3>2
  <2>6. \/ z.largest = z.ticks[n].index
        \/ z.largest < t /\ t = z.ticks[n].index
    <3>1. CASE at < n
      BY <1>1, <1>2, <2>2, <2>4, <3>1
    <3>2. CASE at = n
      <4>1. x.ticks[n-1].index < t
        BY <1>1, <1>5, <3>2 DEF Splits
      <4>2. QED
        BY <1>1, <1>2, <1>5, <2>2, <3>2, <4>1
    <3>3. QED
      BY <1>1, <3>1, <3>2
  <2>7. z.len = n + 1 /\ (n + 1) - 1 = n /\ n + 1 > 0
    BY <1>1, <1>5, <2>2
  <2>8. Lagging(z, t)
    BY <2>5, <2>6, <2>7 DEF Lagging
  <2>9. QED
    BY <1>2, <2>2, <2>8 DEF z
<1>6. QED
  BY <1>2, <1>4, <1>5

(* The upper half of a mint makes both bounds exact again. *)
LEMMA MintUpperFact ==
  ASSUME NEW x, Sound(x), NEW l \in Int, Lagging(x, l),
         NEW t \in TickIndex, l < t, NEW g \in Nat, g > 0
  PROVE  LET z == MintUpper(x, t, g)
         IN  /\ Sound(z) /\ Bounded(z) /\ z.len > 0
             /\ HintFits(x) => HintFits(z)
<1> DEFINE y == AddTo(x, t, g, -g)
           z == MintUpper(x, t, g)
           n == x.len
<1>0. t \in Int /\ -g \in Int
  BY TicksHandlerAssumption
<1>1. /\ n \in Nat /\ n > 0 /\ x.smallest \in Int /\ x.largest \in Int
      /\ \A k \in 0 .. n-1 : x.ticks[k].index \in Int
      /\ \A i, j \in 0 .. n-1 : i < j => x.ticks[i].index < x.ticks[j].index
      /\ x.smallest = x.ticks[0].index /\ x.ticks[0].index <= l
      /\ \/ x.largest = x.ticks[n-1].index
         \/ x.largest < l /\ l = x.ticks[n-1].index
  BY FieldTypes DEF Sound, Fit, Ordered, Lagging
<1>2. /\ Sound(y) /\ (HintFits(x) => HintFits(y))
      /\ y.smallest = x.smallest /\ y.largest = x.largest
      /\ \/ /\ y.len = x.len
            /\ \A k \in 0 .. x.len-1 : y.ticks[k].index = x.ticks[k].index
            /\ \E k \in 0 .. x.len-1 : x.ticks[k].index = t
         \/ /\ y.len = x.len + 1
            /\ \E at \in 0 .. x.len :
                 /\ Splits(x, at, t)
                 /\ y.ticks[at].index = t
                 /\ HasInserted(y.ticks, x.ticks, x.len, at, y.ticks[at])
  <2> DEFINE v == AddTo(x, t, g, -g)
  <2>1. /\ Sound(v)
        /\ v.smallest = x.smallest /\ v.largest = x.largest
        /\ \/ /\ v.len = x.len
              /\ \A k \in 0 .. x.len-1 : v.ticks[k].index = x.ticks[k].index
              /\ \E k \in 0 .. x.len-1 : x.ticks[k].index = t
           \/ /\ v.len = x.len + 1
              /\ \E at \in 0 .. x.len :
                   /\ Splits(x, at, t)
                   /\ v.ticks[at].index = t
                   /\ HasInserted(v.ticks, x.ticks, x.len, at, v.ticks[at])
    BY <1>0, AddToFact
  <2>2. HintFits(x) => HintFits(v)
    BY <1>0, <1>1, AddToFact
  <2> QED BY <2>1, <2>2
<1>3. z = IF y.len > x.len THEN RaiseLargest(y, t) ELSE y
  BY DEF MintUpper
<1> HIDE DEF y, z
<1>4. CASE /\ y.len = x.len
           /\ \A k \in 0 .. x.len-1 : y.ticks[k].index = x.ticks[k].index
           /\ \E k \in 0 .. x.len-1 : x.ticks[k].index = t
  <2>1. z = y
    BY <1>1, <1>3, <1>4
  <2>2. PICK k \in 0 .. n-1 : x.ticks[k].index = t
    BY <1>4
  <2>3. t <= x.ticks[n-1].index
    BY <1>1, <2>2
  <2>4. x.largest = x.ticks[n-1].index
    BY <1>0, <1>1, <2>3
  <2>5. Bounded(z) /\ z.len > 0
    BY <1>1, <1>2, <1>4, <2>1, <2>4 DEF Bounded
  <2>6. QED
    BY <1>2, <2>1, <2>5 DEF z
<1>5. ASSUME y.len = n + 1, NEW at \in 0 .. n, Splits(x, at, t), y.ticks[at].index = t,
             HasInserted(y.ticks, x.ticks, n, at, y.ticks[at])
      PROVE  Sound(z) /\ Bounded(z) /\ z.len > 0 /\ (HintFits(x) => HintFits(z))
  <2>1. z = RaiseLargest(y, t)
    BY <1>1, <1>3, <1>5
  <2>2. /\ Sound(z) /\ (HintFits(y) => HintFits(z)) /\ z.len = y.len /\ z.ticks = y.ticks /\ z.smallest = y.smallest
        /\ z.largest = IF t > y.largest THEN t ELSE y.largest
    BY <1>0, <1>2, <2>1, RaiseLargestFact
  <2>3. at > 0
    BY <1>0, <1>1, <1>5 DEF Splits
  <2>4. y.ticks[0] = x.ticks[0]
    BY <1>1, <1>5, <2>3 DEF HasInserted
  <2>5. z.smallest = z.ticks[0].index
    BY <1>1, <1>2, <2>2, <2>4
  <2>6. z.largest = z.ticks[n].index
    <3>1. CASE at < n
      <4>1. t < x.ticks[n-1].index /\ y.ticks[n] = x.ticks[n-1]
        BY <1>1, <1>5, <3>1 DEF Splits, HasInserted
      <4>2. x.largest = x.ticks[n-1].index
        BY <1>0, <1>1, <4>1
      <4>3. QED
        BY <1>0, <1>1, <1>2, <2>2, <4>1, <4>2
    <3>2. CASE at = n
      <4>1. x.ticks[n-1].index < t
        BY <1>1, <1>5, <3>2 DEF Splits
      <4>2. QED
        BY <1>0, <1>1, <1>2, <1>5, <2>2, <3>2, <4>1
    <3>3. QED
      BY <1>1, <3>1, <3>2
  <2>7. z.len = n + 1 /\ (n + 1) - 1 = n /\ n + 1 > 0
    BY <1>1, <1>5, <2>2
  <2>8. QED
    BY <1>2, <2>2, <2>5, <2>6, <2>7 DEF Bounded
<1>6. QED
  BY <1>2, <1>4, <1>5 DEF z

(* A listed tick is found, at its own index. *)
LEMMA ListedIsFound ==
  ASSUME NEW x, Fit(x), NEW k \in 0 .. x.len-1, NEW t \in TickIndex, x.ticks[k].index = t
  PROVE  LET r == TickWithSliceKey(x, t)
         IN  r.exist /\ r.at = k /\ Fit(r.h) /\ SameTicks(x, r.h)
<1> DEFINE r == TickWithSliceKey(x, t)
<1>1. /\ x.len \in Nat /\ x.len > 0 /\ t \in Int
      /\ \A i \in 0 .. x.len-1 : x.ticks[i].index \in Int
      /\ \A i, j \in 0 .. x.len-1 : i < j => x.ticks[i].index < x.ticks[j].index
  BY FieldTypes, TicksHandlerAssumption DEF Fit, Ordered
<1>2. /\ Fit(r.h) /\ SameTicks(x, r.h)
      /\ r.exist \in BOOLEAN
      /\ r.exist => r.at \in 0 .. x.len-1 /\ x.ticks[r.at].index = t
      /\ ~r.exist => Splits(x, r.at, t)
  BY <1>1, LookupFact
<1> HIDE DEF r
<1>3. r.exist
  <2> SUFFICES ASSUME ~r.exist PROVE FALSE
    OBVIOUS
  <2>1. Splits(x, r.at, t)
    BY <1>2
  <2>2. QED
    BY <1>1, <2>1 DEF Splits
<1>4. r.at = k
  <2>1. r.at \in 0 .. x.len-1 /\ x.ticks[r.at].index = t
    BY <1>2, <1>3
  <2>2. QED
    BY <1>1, <2>1
<1>5. QED
  BY <1>2, <1>3, <1>4 DEF r

(* Every tick of x but the one at k is in y. *)
KeepsOthers(x, y, k) ==
  \A m \in 0 .. x.len-1 : m # k => \E j \in 0 .. y.len-1 : y.ticks[j] = x.ticks[m]

(* One side of a burn keeps the handler sound, exact bounds exact and the    *)
(* hint in range, and leaves every other tick as it is.                      *)
LEMMA TakeFromFact ==
  ASSUME NEW x, Sound(x), NEW k \in 0 .. x.len-1,
         NEW t \in TickIndex, x.ticks[k].index = t,
         NEW g \in Nat, x.ticks[k].gross >= g, NEW d \in Int
  PROVE  LET y == TakeFrom(x, t, g, d)
         IN  /\ Sound(y) /\ (Bounded(x) => Bounded(y)) /\ (HintFits(x) => HintFits(y))
             /\ KeepsOthers(x, y, k)
<1> DEFINE r == TickWithSliceKey(x, t)
           z == Change(r.h, k, -g, d)
           y == TakeFrom(x, t, g, d)
           n == x.len
<1>1. r.exist /\ r.at = k /\ Fit(r.h) /\ SameTicks(x, r.h)
  BY ListedIsFound DEF Sound
<1>2. /\ n \in Nat /\ n > 0 /\ -g \in Int
      /\ x.ticks[k].gross \in Nat /\ x.ticks[k].gross + (-g) \in Nat
  BY FieldTypes DEF Sound, Fit
<1>3. y = RemoveTickIfEmpty(z, k)
  BY <1>1 DEF TakeFrom
<1>4. /\ Fit(z) /\ (HintFits(x) => HintFits(z))
      /\ z.len = n /\ z.smallest = x.smallest /\ z.largest = x.largest
      /\ \A m \in 0 .. n-1 : m # k => z.ticks[m] = x.ticks[m]
      /\ \A m \in 0 .. n-1 : z.ticks[m].index = x.ticks[m].index
  <2>1. k \in 0 .. r.h.len-1 /\ r.h.ticks[k].gross + (-g) \in Nat
    BY <1>1, <1>2 DEF SameTicks
  <2> HIDE DEF r, z
  <2>2. /\ Fit(z) /\ (HintFits(r.h) => HintFits(z))
        /\ z.len = r.h.len /\ z.smallest = r.h.smallest /\ z.largest = r.h.largest
        /\ \A m \in 0 .. r.h.len-1 : m # k => z.ticks[m] = r.h.ticks[m]
        /\ \A m \in 0 .. r.h.len-1 : z.ticks[m].index = r.h.ticks[m].index
    BY <1>1, <1>2, <2>1, ChangeFact DEF z
  <2>3. QED
    BY <1>1, <2>2 DEF SameTicks, HintFits
<1>5. \A m \in 0 .. n-1 : m # k => ~IsEmpty(z.ticks[m])
  BY <1>4 DEF Sound, NoneEmpty
<1> HIDE DEF y, z
<1>6. CASE ~IsEmpty(z.ticks[k])
  <2>1. y = z
    BY <1>3, <1>6 DEF RemoveTickIfEmpty
  <2>2. NoneEmpty(y)
    BY <1>4, <1>5, <1>6, <2>1 DEF NoneEmpty
  <2>3. Bounded(x) => Bounded(y)
    BY <1>2, <1>4, <2>1 DEF Bounded
  <2>4. \A m \in 0 .. n-1 : m # k => \E j \in 0 .. y.len-1 : y.ticks[j] = x.ticks[m]
    BY <1>4, <2>1
  <2>5. QED
    BY <1>4, <2>1, <2>2, <2>3, <2>4 DEF Sound, KeepsOthers, y
<1>7. CASE IsEmpty(z.ticks[k])
  <2> DEFINE v == DeleteTick(z, k)
             u == v.ticks
  <2>1. y = Rebound(v)
    BY <1>3, <1>7 DEF RemoveTickIfEmpty
  <2>2. Fit(v) /\ (HintFits(z) => HintFits(v)) /\ v.len = n-1 /\ v.ticks = DeleteAt(z.ticks, n, k)
    BY <1>4, DeleteFact
  <2> HIDE DEF v
  <2>3. Fit(y) /\ Bounded(y) /\ (HintFits(v) => HintFits(y)) /\ y.len = v.len /\ y.ticks = v.ticks
    BY <2>1, <2>2, ReboundFact
  <2>4. HasDeleted(y.ticks, z.ticks, n, k)
    <3>1. z.ticks \in [0 .. n-1 -> Tick]
      BY <1>4, FieldTypes DEF Fit
    <3>2. QED
      BY <1>2, <2>2, <2>3, <3>1, DeletedSlice
  <2>5. (n-1)-1 = n-2
    BY <1>2
  <2>6. NoneEmpty(y)
    <3> SUFFICES ASSUME NEW i \in 0 .. n-2 PROVE ~IsEmpty(y.ticks[i])
      BY <2>2, <2>3, <2>5 DEF NoneEmpty
    <3>1. \/ i < k /\ i \in 0 .. n-1 /\ y.ticks[i] = z.ticks[i]
          \/ i >= k /\ i+1 \in 0 .. n-1 /\ y.ticks[i] = z.ticks[i+1]
      BY <2>4 DEF HasDeleted
    <3>2. QED
      BY <1>5, <3>1
  <2>7. ASSUME NEW m \in 0 .. n-1, m # k
        PROVE  \E j \in 0 .. y.len-1 : y.ticks[j] = x.ticks[m]
    <3>1. z.ticks[m] = x.ticks[m]
      BY <1>4, <2>7
    <3>2. CASE m < k
      <4>1. m \in 0 .. n-2 /\ y.ticks[m] = z.ticks[m]
        BY <2>4, <3>2 DEF HasDeleted
      <4>2. QED
        BY <2>2, <2>3, <2>5, <3>1, <4>1
    <3>3. CASE m > k
      <4>1. m-1 \in 0 .. n-2 /\ y.ticks[m-1] = z.ticks[m]
        BY <2>4, <3>3 DEF HasDeleted
      <4>2. QED
        BY <2>2, <2>3, <2>5, <3>1, <4>1
    <3>4. QED
      BY <1>2, <2>7, <3>2, <3>3
  <2>8. QED
    BY <1>4, <2>2, <2>3, <2>6, <2>7 DEF Sound, KeepsOthers, y
<1>8. QED
  BY <1>6, <1>7
-----------------------------------------------------------------------------
(* The inductive invariant: a sound handler with exact bounds and a hint in  *)
(* range.  Before the first SetTicks the slice is empty and nothing else can *)
(* be called.                                                                *)
IInv ==
  /\ Fit(h) /\ HintFits(h) /\ NoneEmpty(h) /\ Bounded(h)
  /\ reply.kind \in {"done", "error", "tick", "next"}

(* The reply of a call that panicked is the only one of its kind. *)
ReplyOK(r) == r.kind \in {"done", "error", "tick", "next"}

(* No reply of a call that returns is a panic. *)
LEMMA RepliesOK ==
  /\ ReplyOK(Done)
  /\ \A e : ReplyOK(Error(e))
  /\ \A tk : ReplyOK(TickReply(tk)) /\ ReplyOK(NextReply(tk))
BY DEF ReplyOK, Done, Error, TickReply, NextReply

(* A new handler satisfies the invariant. *)
LEMMA InitIInv == Init => IInv
<1> SUFFICES ASSUME Init PROVE IInv
  OBVIOUS
<1>1. /\ h = [ticks |-> [k \in {} |-> k], len |-> 0, smallest |-> 0, largest |-> 0, last |-> 0,
              cacheTick |-> [s \in Slots |-> 0], cacheIdx |-> [s \in Slots |-> 0],
              valid |-> {}, next |-> 0]
      /\ reply = Done
  BY DEF Init, NewTicksHandler
<1>2. /\ h.len = 0 /\ h.valid = {} /\ 0 .. h.len-1 = {}
  BY <1>1
<1>3. h \in Handler(h.len)
  <2>1. [k \in {} |-> k] \in [0 .. 0-1 -> Tick]
    OBVIOUS
  <2>2. [s \in Slots |-> 0] \in [Slots -> Int]
    OBVIOUS
  <2>3. QED
    BY <1>1, <2>1, <2>2 DEF Handler, SliceOf
<1>4. QED
  BY <1>1, <1>2, <1>3, RepliesOK
     DEF IInv, Fit, Ordered, HintFits, SlotsFit, NoneEmpty, Bounded, ReplyOK

(* Loading any sound slice forgets the hint and the cache and recomputes     *)
(* the bounds.                                                               *)
LEMMA LoadedFact ==
  ASSUME NEW x, x.len \in Nat, x \in Handler(x.len),
         NEW s, s.len \in Nat, s.len > 0, s.ticks \in SliceOf(Tick, s.len), Ordered(s), NoneEmpty(s)
  PROVE  LET y == Loaded(x, s)
         IN  /\ Fit(y) /\ HintFits(y) /\ NoneEmpty(y) /\ Bounded(y)
             /\ y.len = s.len /\ y.ticks = s.ticks
<1> DEFINE z == [x EXCEPT !.ticks = s.ticks, !.len = s.len, !.last = -1, !.valid = {}]
           y == Loaded(x, s)
<1>1. y = Rebound(z)
  BY DEF Loaded
<1>2. /\ z \in Handler(z.len) /\ z.ticks = s.ticks /\ z.len = s.len /\ z.last = -1 /\ z.valid = {}
  <2> DEFINE tt == s.ticks
             nn == s.len
  <2>1. z = [x EXCEPT !.ticks = tt, !.len = nn, !.last = -1, !.valid = {}]
    OBVIOUS
  <2>2. tt \in SliceOf(Tick, nn) /\ nn \in Nat
    OBVIOUS
  <2> HIDE DEF z, tt, nn
  <2>3. /\ x = [ticks |-> x.ticks, len |-> x.len, smallest |-> x.smallest, largest |-> x.largest,
                last |-> x.last, cacheTick |-> x.cacheTick, cacheIdx |-> x.cacheIdx,
                valid |-> x.valid, next |-> x.next]
        /\ x.smallest \in Int /\ x.largest \in Int /\ x.cacheTick \in [Slots -> Int]
        /\ x.cacheIdx \in [Slots -> Int] /\ x.next \in Nat
    BY DEF Handler
  <2>4. z = [ticks |-> tt, len |-> nn, smallest |-> x.smallest, largest |-> x.largest,
             last |-> -1, cacheTick |-> x.cacheTick, cacheIdx |-> x.cacheIdx,
             valid |-> {}, next |-> x.next]
    BY <2>1, <2>3
  <2>5. z \in Handler(nn) /\ z.len = nn /\ z.ticks = tt /\ z.last = -1 /\ z.valid = {}
    BY <2>2, <2>3, <2>4 DEF Handler
  <2>6. QED
    BY <2>5 DEF tt, nn
<1> HIDE DEF z, y
<1>3. Fit(z) /\ HintFits(z)
  BY <1>2 DEF Fit, Ordered, HintFits, SlotsFit
<1>4. Fit(y) /\ HintFits(y) /\ Bounded(y) /\ y.len = z.len /\ y.ticks = z.ticks
  BY <1>1, <1>3, ReboundFact
<1>5. NoneEmpty(y)
  BY <1>2, <1>4 DEF NoneEmpty
<1>6. QED
  BY <1>2, <1>4, <1>5 DEF y

(* Loading a snapshot. *)
LEMMA SetTicksKeepsIInv ==
  ASSUME IInv, NEW s \in Snapshots, SetTicks(s)
  PROVE  IInv'
<1>1. /\ s.len \in Nat /\ s.len > 0 /\ s.ticks \in SliceOf(Tick, s.len)
      /\ StrictlySorted(IndexOf(s.ticks, s.len), s.len)
      /\ \A k \in 0 .. s.len-1 : s.ticks[k].gross # 0 \/ s.ticks[k].net # 0
  BY SnapshotsAssumption DEF IsSnapshot
<1>2. Ordered(s)
  BY <1>1 DEF StrictlySorted, IndexOf, Ordered
<1>3. NoneEmpty(s)
  BY <1>1 DEF NoneEmpty, IsEmpty
<1>4. Fit(Loaded(h, s)) /\ HintFits(Loaded(h, s)) /\ NoneEmpty(Loaded(h, s)) /\ Bounded(Loaded(h, s))
  BY <1>1, <1>2, <1>3, LoadedFact DEF IInv, Fit
<1>5. h' = Loaded(h, s) /\ reply' = Done
  BY <1>1 DEF SetTicks
<1>6. Fit(h') /\ HintFits(h') /\ NoneEmpty(h') /\ Bounded(h')
  BY <1>4, <1>5
<1>7. QED
  BY <1>5, <1>6, RepliesOK DEF IInv, ReplyOK

(* A new handler has its type. *)
LEMMA NewHandlerFact == NewTicksHandler.len \in Nat /\ NewTicksHandler \in Handler(NewTicksHandler.len)
<1>1. [k \in {} |-> k] \in [0 .. 0-1 -> Tick]
  OBVIOUS
<1>2. [s \in Slots |-> 0] \in [Slots -> Int]
  OBVIOUS
<1>3. QED
  BY <1>1, <1>2 DEF Handler, SliceOf, NewTicksHandler

(* Going on with a copy. *)
LEMMA CloneKeepsIInv ==
  ASSUME IInv, Clone
  PROVE  IInv'
<1>1. NewTicksHandler.len \in Nat /\ NewTicksHandler \in Handler(NewTicksHandler.len)
  BY NewHandlerFact
<1>2. /\ h.len \in Nat /\ h.len > 0 /\ h.ticks \in SliceOf(Tick, h.len)
      /\ Ordered(h) /\ NoneEmpty(h)
  BY DEF IInv, Fit, Clone, Handler
<1> DEFINE y == Loaded(NewTicksHandler, h)
<1>3. Fit(y) /\ HintFits(y) /\ NoneEmpty(y) /\ Bounded(y)
  BY <1>1, <1>2, LoadedFact
<1>4. h' = y /\ reply' = Done
  BY DEF Clone
<1>5. Fit(h') /\ HintFits(h') /\ NoneEmpty(h') /\ Bounded(h')
  BY <1>3, <1>4
<1>6. QED
  BY <1>4, <1>5, RepliesOK DEF IInv, ReplyOK

(* A mint, through both of its halves. *)
LEMMA MintKeepsIInv ==
  ASSUME IInv, h.len > 0, Mint
  PROVE  IInv'
<1>1. PICK lower \in TickIndex, upper \in TickIndex, g \in Liquidity :
        /\ lower < upper /\ g > 0
        /\ UpdateTicksAfterMint(lower, upper, g)
  BY DEF Mint, MayMint
<1> DEFINE y == MintLower(h, lower, g)
           z == MintUpper(y, upper, g)
<1>2. g \in Nat /\ lower \in Int
  BY TicksHandlerAssumption
<1>3. Sound(y) /\ HintFits(y) /\ Lagging(y, lower)
  BY <1>1, <1>2, MintLowerFact DEF IInv, Sound
<1> HIDE DEF y
<1>4. Sound(z) /\ HintFits(z) /\ Bounded(z)
  BY <1>1, <1>2, <1>3, MintUpperFact
<1> HIDE DEF z
<1>5. h' = z /\ reply' = Done
  BY <1>1 DEF UpdateTicksAfterMint, y, z
<1>6. Fit(h') /\ HintFits(h') /\ NoneEmpty(h') /\ Bounded(h')
  BY <1>4, <1>5 DEF Sound
<1>7. QED
  BY <1>5, <1>6, RepliesOK DEF IInv, ReplyOK

(* What a tick of the slice holds is its own gross liquidity. *)
LEMMA GrossAtFact ==
  ASSUME NEW x, Fit(x), NEW k \in 0 .. x.len-1
  PROVE  GrossAt(x, x.ticks[k].index) = x.ticks[k].gross
<1> DEFINE t == x.ticks[k].index
           c == CHOOSE j \in 0 .. x.len-1 : x.ticks[j].index = t
<1>1. c \in 0 .. x.len-1 /\ x.ticks[c].index = t
  OBVIOUS
<1>2. GrossAt(x, t) = x.ticks[c].gross
  BY DEF GrossAt
<1> HIDE DEF c
<1>3. c = k
  <2>1. /\ \A i \in 0 .. x.len-1 : x.ticks[i].index \in Int
        /\ \A i, j \in 0 .. x.len-1 : i < j => x.ticks[i].index < x.ticks[j].index
        /\ x.len \in Nat
    BY FieldTypes DEF Fit, Ordered
  <2>2. QED
    BY <1>1, <2>1
<1>4. QED
  BY <1>2, <1>3

(* A burn finds both ticks, the second one also when the first was deleted. *)
LEMMA BurnKeepsIInv ==
  ASSUME IInv, Burn
  PROVE  IInv'
<1>1. PICK lower \in TickIndex, upper \in TickIndex, g \in Liquidity :
        /\ lower < upper
        /\ MayBurn(lower, g) /\ MayBurn(upper, g)
        /\ UpdateTicksAfterBurn(lower, upper, g)
  BY DEF Burn
<1>2. /\ g \in Nat /\ lower \in Int /\ upper \in Int /\ -g \in Int
  BY TicksHandlerAssumption
<1>3. Sound(h) /\ HintFits(h) /\ Bounded(h)
  BY DEF IInv, Sound
<1>4. PICK k \in 0 .. h.len-1 : h.ticks[k].index = lower /\ h.ticks[k].gross >= g
  <2>1. PICK k \in 0 .. h.len-1 : h.ticks[k].index = lower
    BY <1>1 DEF MayBurn, Listed
  <2>2. GrossAt(h, lower) >= g
    BY <1>1, <1>2 DEF MayBurn, GrossAt
  <2>3. QED
    BY <1>3, <2>1, <2>2, GrossAtFact DEF Sound
<1>5. PICK m \in 0 .. h.len-1 : h.ticks[m].index = upper /\ h.ticks[m].gross >= g
  <2>1. PICK m \in 0 .. h.len-1 : h.ticks[m].index = upper
    BY <1>1 DEF MayBurn, Listed
  <2>2. GrossAt(h, upper) >= g
    BY <1>1, <1>2 DEF MayBurn, GrossAt
  <2>3. QED
    BY <1>3, <2>1, <2>2, GrossAtFact DEF Sound
<1>6. m # k
  BY <1>1, <1>2, <1>4, <1>5
<1> DEFINE x == TakeFrom(h, lower, g, -g)
           y == TakeFrom(x, upper, g, g)
<1>7. /\ Sound(x) /\ HintFits(x) /\ Bounded(x)
      /\ KeepsOthers(h, x, k)
  BY <1>2, <1>3, <1>4, TakeFromFact
<1>8. PICK j \in 0 .. x.len-1 : x.ticks[j] = h.ticks[m]
  BY <1>6, <1>7 DEF KeepsOthers
<1>9. TickWithSliceKey(h, lower).exist
  BY <1>3, <1>4, ListedIsFound DEF Sound
<1> HIDE DEF x
<1>10. TickWithSliceKey(x, upper).exist
  BY <1>5, <1>7, <1>8, ListedIsFound DEF Sound
<1>11. Sound(y) /\ HintFits(y) /\ Bounded(y)
  <2>1. x.ticks[j].index = upper /\ x.ticks[j].gross >= g
    BY <1>5, <1>8
  <2>2. QED
    BY <1>2, <1>7, <2>1, TakeFromFact
<1> HIDE DEF y
<1>12. h' = y /\ reply' = Done
  BY <1>1, <1>9, <1>10 DEF UpdateTicksAfterBurn, x, y
<1>13. Fit(h') /\ HintFits(h') /\ NoneEmpty(h') /\ Bounded(h')
  BY <1>11, <1>12 DEF Sound
<1>14. QED
  BY <1>12, <1>13, RepliesOK DEF IInv, ReplyOK

(* Answering from a slice index moves the hint there. *)
LEMMA MovedKeepsIInv ==
  ASSUME IInv, NEW i \in 0 .. h.len-1, Moved(i)
  PROVE  IInv'
<1>1. h' = [h EXCEPT !.last = i] /\ reply' = NextReply(h.ticks[i])
  BY DEF Moved
<1>2. i \in Int /\ i \in -1 .. h.len-1 /\ h.len \in Nat
  BY DEF IInv, Fit
<1> DEFINE y == [h EXCEPT !.last = i]
<1>3. /\ y \in Handler(h.len) /\ y.last = i /\ y.ticks = h.ticks /\ y.len = h.len
      /\ y.cacheTick = h.cacheTick /\ y.cacheIdx = h.cacheIdx /\ y.valid = h.valid
      /\ y.smallest = h.smallest /\ y.largest = h.largest
  <2>1. h \in Handler(h.len)
    BY DEF IInv, Fit
  <2>2. QED
    BY <1>2, <2>1 DEF Handler
<1> HIDE DEF y
<1>7. h' = y
  BY <1>1 DEF y
<1>4. Fit(h') /\ HintFits(h')
  BY <1>2, <1>3, <1>7 DEF IInv, Fit, Ordered, HintFits, SlotsFit
<1>5. NoneEmpty(h') /\ Bounded(h')
  BY <1>3, <1>7 DEF IInv, NoneEmpty, Bounded
<1>6. QED
  BY <1>1, <1>4, <1>5, RepliesOK DEF IInv, ReplyOK

(* What the queries need of a sound, nonempty handler. *)
LEMMA QueryFacts ==
  ASSUME IInv, h.len > 0
  PROVE  /\ h.len \in Nat /\ h.last \in -1 .. h.len-1
         /\ \A k \in 0 .. h.len-1 : h.ticks[k].index \in Int
         /\ h.smallest = h.ticks[0].index
         /\ h.largest = h.ticks[h.len-1].index
BY FieldTypes DEF IInv, Fit, HintFits, Bounded

(* GetTick changes nothing and reads inside the slice. *)
LEMMA GetTickKeepsIInv ==
  ASSUME IInv, h.len > 0, NEW t \in TickIndex, GetTick(t)
  PROVE  IInv'
<1>1. t \in Int /\ h.len \in Nat /\ h.last \in -1 .. h.len-1
  BY QueryFacts, TicksHandlerAssumption
<1>2. BinarySearch(h, t) \in 0 .. h.len-1
  BY <1>1, SearchFact DEF IInv
<1>3. \A i \in 0 .. h.len-1 : ReplyOK(Read(h, i))
  BY RepliesOK DEF Read
<1>4. ReplyOK(reply')
  <2>1. CASE h.last >= 0 /\ h.ticks[h.last].index = t
    <3>1. h.last \in 0 .. h.len-1 /\ ~(h.last >= h.len) /\ h.last < h.len
      BY <1>1, <2>1
    <3>2. reply' = Read(h, h.last)
      BY <2>1, <3>1 DEF GetTick
    <3>3. QED
      BY <1>3, <3>1, <3>2
  <2>2. CASE ~(h.last >= 0 /\ h.ticks[h.last].index = t)
    <3>1. ~(h.last >= 0 /\ h.last >= h.len) /\ h.len # 0
      BY <1>1
    <3>2. reply' = IF h.ticks[BinarySearch(h, t)].index = t THEN Read(h, BinarySearch(h, t))
                   ELSE Error("ErrTickNotFound")
      BY <2>2, <3>1 DEF GetTick
    <3>3. QED
      BY <1>2, <1>3, <3>2, RepliesOK
  <2>3. QED
    BY <2>1, <2>2
<1>5. h' = h
  BY DEF GetTick
<1>6. Fit(h') /\ HintFits(h') /\ NoneEmpty(h') /\ Bounded(h')
  BY <1>5 DEF IInv
<1>7. QED
  BY <1>4, <1>6 DEF IInv, ReplyOK

(* The query to the left: hint, search and bounds all give an index. *)
LEMMA NextAtOrBelowKeepsIInv ==
  ASSUME IInv, h.len > 0, NEW t \in TickIndex, NextAtOrBelow(t)
  PROVE  IInv'
<1>1. t \in Int /\ h.len \in Nat /\ h.last \in -1 .. h.len-1
  BY QueryFacts, TicksHandlerAssumption
<1>2. CASE reply' = Error("ErrBelowSmallest") /\ UNCHANGED h
  <2>1. Fit(h') /\ HintFits(h') /\ NoneEmpty(h') /\ Bounded(h')
    BY <1>2 DEF IInv
  <2>2. QED
    BY <1>2, <2>1, RepliesOK DEF IInv, ReplyOK
<1>3. CASE Moved(h.len - 1)
  BY <1>1, <1>3, MovedKeepsIInv
<1>4. CASE IF HintBelowPanics(h, t) THEN reply' = Panic /\ UNCHANGED h
           ELSE Moved(IF HintBelow(h, t) THEN h.last - 1 ELSE BinarySearch(h, t))
  <2>1. ~HintBelowPanics(h, t)
    BY <1>1 DEF HintBelowPanics
  <2>2. CASE HintBelow(h, t)
    <3>1. h.last - 1 \in 0 .. h.len-1
      BY <1>1, <2>2 DEF HintBelow
    <3>2. QED
      BY <1>4, <2>1, <2>2, <3>1, MovedKeepsIInv
  <2>3. CASE ~HintBelow(h, t)
    <3>1. BinarySearch(h, t) \in 0 .. h.len-1
      BY <1>1, SearchFact DEF IInv
    <3>2. QED
      BY <1>4, <2>1, <2>3, <3>1, MovedKeepsIInv
  <2>4. QED
    BY <2>2, <2>3
<1>5. QED
  BY <1>2, <1>3, <1>4 DEF NextAtOrBelow

(* Below the largest tick the searched index is never the last one, so that  *)
(* its right neighbour is there.                                             *)
LEMMA NextAboveKeepsIInv ==
  ASSUME IInv, h.len > 0, NEW t \in TickIndex, NextAbove(t)
  PROVE  IInv'
<1>1. /\ t \in Int /\ h.len \in Nat /\ h.last \in -1 .. h.len-1
      /\ \A k \in 0 .. h.len-1 : h.ticks[k].index \in Int
      /\ h.largest = h.ticks[h.len-1].index
  BY QueryFacts, TicksHandlerAssumption
<1>2. CASE reply' = Error("ErrAtOrAboveLargest") /\ UNCHANGED h
  <2>1. Fit(h') /\ HintFits(h') /\ NoneEmpty(h') /\ Bounded(h')
    BY <1>2 DEF IInv
  <2>2. QED
    BY <1>2, <2>1, RepliesOK DEF IInv, ReplyOK
<1>3. CASE Moved(0)
  BY <1>1, <1>3, MovedKeepsIInv
<1>4. CASE /\ ~IsAtOrAboveLargest(h, t) /\ ~IsBelowSmallest(h, t)
           /\ Moved(IF HintAbove(h, t) THEN h.last + 1 ELSE BinarySearch(h, t) + 1)
  <2>1. CASE HintAbove(h, t)
    <3>1. h.last + 1 \in 0 .. h.len-1
      BY <1>1, <2>1 DEF HintAbove
    <3>2. QED
      BY <1>4, <2>1, <3>1, MovedKeepsIInv
  <2>2. CASE ~HintAbove(h, t)
    <3>1. /\ BinarySearch(h, t) \in 0 .. h.len-1
          /\ \/ h.ticks[BinarySearch(h, t)].index <= t
             \/ BinarySearch(h, t) = 0 /\ \A j \in 0 .. h.len-1 : h.ticks[j].index > t
      BY <1>1, SearchFact DEF IInv
    <3>2. h.ticks[h.len-1].index > t
      BY <1>1, <1>4 DEF IsAtOrAboveLargest
    <3>3. CASE h.ticks[BinarySearch(h, t)].index <= t
      <4>1. BinarySearch(h, t) # h.len-1
        BY <1>1, <3>1, <3>2, <3>3
      <4>2. BinarySearch(h, t) + 1 \in 0 .. h.len-1
        BY <1>1, <3>1, <4>1
      <4>3. QED
        BY <1>4, <2>2, <4>2, MovedKeepsIInv
    <3>4. h.ticks[0].index <= t
      BY <1>1, <1>4, QueryFacts DEF IsBelowSmallest
    <3>5. QED
      BY <1>1, <3>1, <3>3, <3>4
  <2>3. QED
    BY <2>1, <2>2
<1>5. QED
  BY <1>2, <1>3, <1>4 DEF NextAbove
-----------------------------------------------------------------------------
(* Every call keeps the invariant. *)
LEMMA NextKeepsIInv == IInv /\ [Next]_vars => IInv'
<1> SUFFICES ASSUME IInv, [Next]_vars PROVE IInv'
  OBVIOUS
<1>1. CASE \E s \in Snapshots : SetTicks(s)
  BY <1>1, SetTicksKeepsIInv
<1>2. CASE Clone
  BY <1>2, CloneKeepsIInv
<1>3. CASE h.len > 0 /\ Mint
  BY <1>3, MintKeepsIInv
<1>4. CASE Burn
  BY <1>4, BurnKeepsIInv
<1>5. CASE h.len > 0 /\ Query
  BY <1>5, GetTickKeepsIInv, NextAtOrBelowKeepsIInv, NextAboveKeepsIInv DEF Query
<1>6. CASE UNCHANGED vars
  BY <1>6 DEF vars, IInv
<1>7. QED
  BY <1>1, <1>2, <1>3, <1>4, <1>5, <1>6 DEF Next

(* The inductive invariant holds in every state of every behaviour of a       *)
(* handler that is loaded before it is used.                                 *)
THEOREM AlwaysIInv == Spec => []IInv
BY InitIInv, NextKeepsIInv, PTL DEF Spec

(* The handler has its type, whatever is called on it. *)
THEOREM TypesHold == Spec => []TypeOK
<1>1. IInv => TypeOK
  BY DEF IInv, Fit, TypeOK
<1>2. QED
  BY <1>1, AlwaysIInv, PTL

(* Mints, burns and reloads keep the slice strictly sorted and without an    *)
(* empty tick.                                                               *)
THEOREM StaysInOrder == Spec => []ListInOrder
<1>1. IInv => ListInOrder
  BY DEF IInv, Fit, Ordered, NoneEmpty, ListInOrder, StrictlySorted, IndexOf
<1>2. QED
  BY <1>1, AlwaysIInv, PTL

(* On a loaded handler SmallestTickIdx and LargestTickIdx are always those   *)
(* of the slice, although a mint only ever adjusts the side it is on.        *)
THEOREM BoundsStayExact == Spec => []BoundsExact
<1>1. IInv => BoundsExact
  BY DEF IInv, Bounded, BoundsExact
<1>2. QED
  BY <1>1, AlwaysIInv, PTL

(* The hint survives every shift of the slice as an index of it, or as -1.   *)
THEOREM HintStaysInRange == Spec => []HintInRange
<1>1. IInv => HintInRange
  BY DEF IInv, HintFits, HintInRange
<1>2. QED
  BY <1>1, AlwaysIInv, PTL

(* A valid cache slot never holds a stale slice index. *)
THEOREM CacheStaysExact == Spec => []CacheExact
<1>1. IInv => CacheExact
  BY DEF IInv, Fit, SlotsFit, CacheExact
<1>2. QED
  BY <1>1, AlwaysIInv, PTL

(* No call on a loaded handler indexes outside the slice or dereferences a   *)
(* nil tick: the unchecked reads of GetTick, of both hints, and of           *)
(* UpdateTicksAfterBurn.                                                     *)
THEOREM NoCallPanics == Spec => []NeverPanics
<1>1. IInv => NeverPanics
  BY DEF IInv, NeverPanics, Panic
<1>2. QED
  BY <1>1, AlwaysIInv, PTL
-----------------------------------------------------------------------------
(* The slices of x and y agree on every tick but t. *)
OthersStay(x, y, t) ==
  /\ \A k \in 0 .. x.len-1 : x.ticks[k].index # t => \E j \in 0 .. y.len-1 : y.ticks[j] = x.ticks[k]
  /\ \A j \in 0 .. y.len-1 : y.ticks[j].index # t => \E k \in 0 .. x.len-1 : x.ticks[k] = y.ticks[j]

(* Of x to y, the tick t has gained g of gross and d of net liquidity, and   *)
(* no other tick has changed.                                                *)
Booked(x, y, t, g, d) ==
  \A u \in TickIndex :
    /\ GrossAt(y, u) = IF u = t THEN GrossAt(x, u) + g ELSE GrossAt(x, u)
    /\ NetAt(y, u) = IF u = t THEN NetAt(x, u) + d ELSE NetAt(x, u)

(* What is read off the slice: the amounts of a listed tick, zero otherwise. *)
LEMMA AmountsFact ==
  ASSUME NEW x, Fit(x)
  PROVE  /\ \A k \in 0 .. x.len-1 : /\ GrossAt(x, x.ticks[k].index) = x.ticks[k].gross
                                    /\ NetAt(x, x.ticks[k].index) = x.ticks[k].net
         /\ \A t : (\A k \in 0 .. x.len-1 : x.ticks[k].index # t) => GrossAt(x, t) = 0 /\ NetAt(x, t) = 0
<1>1. ASSUME NEW k \in 0 .. x.len-1
      PROVE  /\ GrossAt(x, x.ticks[k].index) = x.ticks[k].gross
             /\ NetAt(x, x.ticks[k].index) = x.ticks[k].net
  <2> DEFINE t == x.ticks[k].index
             c == CHOOSE j \in 0 .. x.len-1 : x.ticks[j].index = t
  <2>1. c \in 0 .. x.len-1 /\ x.ticks[c].index = t
    OBVIOUS
  <2>2. GrossAt(x, t) = x.ticks[c].gross /\ NetAt(x, t) = x.ticks[c].net
    BY DEF GrossAt, NetAt
  <2> HIDE DEF c
  <2>3. c = k
    <3>1. /\ \A i \in 0 .. x.len-1 : x.ticks[i].index \in Int
          /\ \A i, j \in 0 .. x.len-1 : i < j => x.ticks[i].index < x.ticks[j].index
          /\ x.len \in Nat
      BY FieldTypes DEF Fit, Ordered
    <3> QED BY <2>1, <3>1
  <2> QED BY <2>2, <2>3
<1>2. ASSUME NEW t, \A k \in 0 .. x.len-1 : x.ticks[k].index # t
      PROVE  GrossAt(x, t) = 0 /\ NetAt(x, t) = 0
  BY <1>2 DEF GrossAt, NetAt
<1> QED BY <1>1, <1>2

(* Amounts are numbers. *)
LEMMA AmountsAreNumbers ==
  ASSUME NEW x, Fit(x), NEW t
  PROVE  GrossAt(x, t) \in Nat /\ NetAt(x, t) \in Int
<1>1. \A k \in 0 .. x.len-1 : x.ticks[k].gross \in Nat /\ x.ticks[k].net \in Int
  BY FieldTypes DEF Fit
<1>2. CASE \E k \in 0 .. x.len-1 : x.ticks[k].index = t
  <2>1. PICK k \in 0 .. x.len-1 : x.ticks[k].index = t
    BY <1>2
  <2> QED BY <1>1, <2>1, AmountsFact
<1>3. CASE ~\E k \in 0 .. x.len-1 : x.ticks[k].index = t
  <2>1. GrossAt(x, t) = 0 /\ NetAt(x, t) = 0
    BY <1>3, AmountsFact
  <2> QED BY <2>1
<1> QED BY <1>2, <1>3

(* Ticks that stay keep their amounts. *)
LEMMA OthersKeepAmounts ==
  ASSUME NEW x, Fit(x), NEW y, Fit(y), NEW t, OthersStay(x, y, t), NEW u, u # t
  PROVE  GrossAt(y, u) = GrossAt(x, u) /\ NetAt(y, u) = NetAt(x, u)
<1>1. CASE \E k \in 0 .. x.len-1 : x.ticks[k].index = u
  <2>1. PICK k \in 0 .. x.len-1 : x.ticks[k].index = u
    BY <1>1
  <2>2. PICK j \in 0 .. y.len-1 : y.ticks[j] = x.ticks[k]
    BY <2>1 DEF OthersStay
  <2>3. /\ GrossAt(x, u) = x.ticks[k].gross /\ NetAt(x, u) = x.ticks[k].net
        /\ GrossAt(y, u) = y.ticks[j].gross /\ NetAt(y, u) = y.ticks[j].net
    BY <2>1, <2>2, AmountsFact
  <2> QED BY <2>2, <2>3
<1>2. CASE \A k \in 0 .. x.len-1 : x.ticks[k].index # u
  <2>1. \A j \in 0 .. y.len-1 : y.ticks[j].index # u
    BY <1>2 DEF OthersStay
  <2> QED BY <1>2, <2>1, AmountsFact
<1> QED BY <1>1, <1>2

(* One side of a mint is booked on its tick alone. *)
LEMMA AddToBooks ==
  ASSUME NEW x, Sound(x), NEW t \in TickIndex, NEW g \in Nat, g > 0, NEW d \in Int
  PROVE  Booked(x, AddTo(x, t, g, d), t, g, d)
<1> DEFINE r == TickWithSliceKey(x, t)
           y == AddTo(x, t, g, d)
           z == r.h
           at == r.at
<1>1. /\ Fit(z) /\ SameTicks(x, z)
      /\ r.exist \in BOOLEAN
      /\ r.exist => at \in 0 .. x.len-1 /\ x.ticks[at].index = t
      /\ ~r.exist => Splits(x, at, t)
  BY LookupFact DEF Sound
<1>2. /\ x.len \in Nat /\ Fit(x) /\ Fit(y) /\ t \in Int
      /\ \A k \in 0 .. x.len-1 : x.ticks[k].gross \in Nat /\ x.ticks[k].net \in Int /\ x.ticks[k].index \in Int
  BY FieldTypes, AddToFact, TicksHandlerAssumption DEF Sound, Fit
<1>3. ASSUME OthersStay(x, y, t), GrossAt(y, t) = GrossAt(x, t) + g, NetAt(y, t) = NetAt(x, t) + d
      PROVE  Booked(x, y, t, g, d)
  <2> HIDE DEF y
  <2> QED BY <1>2, <1>3, OthersKeepAmounts DEF Booked
<1>4. CASE r.exist
  <2>1. y = Change(z, at, g, d)
    BY <1>4 DEF AddTo
  <2>2. at \in 0 .. z.len-1 /\ z.ticks[at].gross + g \in Nat
    BY <1>1, <1>2, <1>4 DEF SameTicks
  <2> HIDE DEF at, z, y
  <2>3. /\ y.len = z.len
        /\ y.ticks[at] = Changed(z.ticks[at], g, d)
        /\ \A k \in 0 .. z.len-1 : k # at => y.ticks[k] = z.ticks[k]
        /\ \A k \in 0 .. z.len-1 : y.ticks[k].index = z.ticks[k].index
    BY <1>1, <2>1, <2>2, ChangeFact
  <2>4. /\ y.len = x.len /\ at \in 0 .. x.len-1 /\ x.ticks[at].index = t
        /\ y.ticks[at] = Changed(x.ticks[at], g, d)
        /\ \A k \in 0 .. x.len-1 : k # at => y.ticks[k] = x.ticks[k]
        /\ \A k \in 0 .. x.len-1 : y.ticks[k].index = x.ticks[k].index
    BY <1>1, <1>4, <2>3 DEF SameTicks
  <2>5. OthersStay(x, y, t)
    BY <2>4 DEF OthersStay
  <2>6. /\ GrossAt(x, t) = x.ticks[at].gross /\ NetAt(x, t) = x.ticks[at].net
        /\ GrossAt(y, t) = y.ticks[at].gross /\ NetAt(y, t) = y.ticks[at].net
    BY <1>2, <2>4, AmountsFact
  <2>7. y.ticks[at].gross = x.ticks[at].gross + g /\ y.ticks[at].net = x.ticks[at].net + d
    BY <2>4 DEF Changed
  <2> QED BY <1>3, <2>5, <2>6, <2>7 DEF y
<1>5. CASE ~r.exist
  <2> DEFINE tk == [index |-> t, gross |-> g, net |-> d]
  <2>1. y = InsertTick(z, at, tk)
    BY <1>5 DEF AddTo
  <2>2. tk \in Tick /\ tk.index = t /\ tk.gross = g /\ tk.net = d
    BY DEF Tick
  <2>3. Splits(x, at, t) /\ at \in 0 .. x.len
    BY <1>1, <1>5 DEF Splits
  <2>4. Splits(z, at, t)
    BY <1>1, <2>3 DEF Splits, SameTicks
  <2> HIDE DEF at, tk, z, y
  <2>5. y.len = z.len + 1 /\ y.ticks = InsertAt(z.ticks, z.len, at, tk)
    BY <1>1, <2>1, <2>2, <2>4, InsertFact
  <2>6. HasInserted(y.ticks, x.ticks, x.len, at, tk)
    <3>1. x.ticks \in [0 .. x.len-1 -> Tick]
      BY FieldTypes DEF Sound, Fit
    <3> QED BY <1>1, <1>2, <2>2, <2>3, <2>5, <3>1, InsertedSlice DEF SameTicks
  <2>7. y.len - 1 = x.len /\ y.ticks[at] = tk /\ at \in 0 .. y.len-1
    BY <1>1, <1>2, <2>3, <2>5, <2>6 DEF SameTicks, HasInserted
  <2>8. OthersStay(x, y, t)
    <3>1. ASSUME NEW k \in 0 .. x.len-1 PROVE \E j \in 0 .. y.len-1 : y.ticks[j] = x.ticks[k]
      <4>1. CASE k < at
        BY <1>2, <2>6, <2>7, <4>1 DEF HasInserted
      <4>2. CASE k >= at
        <5>1. y.ticks[k+1] = x.ticks[k] /\ k+1 \in 0 .. y.len-1
          BY <1>2, <2>6, <2>7, <4>2 DEF HasInserted
        <5> QED BY <5>1
      <4> QED BY <2>3, <4>1, <4>2
    <3>2. ASSUME NEW j \in 0 .. y.len-1, y.ticks[j].index # t
          PROVE  \E k \in 0 .. x.len-1 : x.ticks[k] = y.ticks[j]
      <4>1. j # at /\ j \in 0 .. x.len
        BY <2>2, <2>7, <3>2
      <4>2. \/ j \in 0 .. x.len-1 /\ y.ticks[j] = x.ticks[j]
            \/ j-1 \in 0 .. x.len-1 /\ y.ticks[j] = x.ticks[j-1]
        BY <2>6, <4>1 DEF HasInserted
      <4> QED BY <4>2
    <3> QED BY <3>1, <3>2 DEF OthersStay
  <2>9. GrossAt(y, t) = g /\ NetAt(y, t) = d
    BY <1>2, <2>2, <2>7, AmountsFact
  <2>10. GrossAt(x, t) = 0 /\ NetAt(x, t) = 0
    <3>1. \A k \in 0 .. x.len-1 : x.ticks[k].index # t
      BY <1>2, <2>3 DEF Splits
    <3> QED BY <1>2, <3>1, AmountsFact
  <2> QED BY <1>3, <2>8, <2>9, <2>10 DEF y
<1> QED BY <1>1, <1>4, <1>5

(* One side of a burn is booked on its tick alone, also when it removes it. *)
LEMMA TakeFromBooks ==
  ASSUME NEW x, Sound(x), NEW k \in 0 .. x.len-1,
         NEW t \in TickIndex, x.ticks[k].index = t,
         NEW g \in Nat, x.ticks[k].gross >= g, NEW d \in Int
  PROVE  Booked(x, TakeFrom(x, t, g, d), t, -g, d)
<1> DEFINE r == TickWithSliceKey(x, t)
           z == Change(r.h, k, -g, d)
           y == TakeFrom(x, t, g, d)
           n == x.len
<1>1. r.exist /\ r.at = k /\ Fit(r.h) /\ SameTicks(x, r.h)
  BY ListedIsFound DEF Sound
<1>2. /\ n \in Nat /\ n > 0 /\ -g \in Int /\ Fit(x) /\ Fit(y)
      /\ x.ticks[k].gross \in Nat /\ x.ticks[k].gross + (-g) \in Nat /\ x.ticks[k].net \in Int
  <2>1. Fit(y)
    BY TakeFromFact DEF Sound
  <2> HIDE DEF y
  <2> QED BY <2>1, FieldTypes DEF Sound, Fit
<1>3. y = RemoveTickIfEmpty(z, k)
  BY <1>1 DEF TakeFrom
<1>4. /\ Fit(z) /\ z.len = n
      /\ z.ticks[k] = Changed(x.ticks[k], -g, d)
      /\ \A m \in 0 .. n-1 : m # k => z.ticks[m] = x.ticks[m]
      /\ \A m \in 0 .. n-1 : z.ticks[m].index = x.ticks[m].index
  <2>1. k \in 0 .. r.h.len-1 /\ r.h.ticks[k].gross + (-g) \in Nat
    BY <1>1, <1>2 DEF SameTicks
  <2> HIDE DEF r, z
  <2>2. /\ Fit(z) /\ z.len = r.h.len
        /\ z.ticks[k] = Changed(r.h.ticks[k], -g, d)
        /\ \A m \in 0 .. r.h.len-1 : m # k => z.ticks[m] = r.h.ticks[m]
        /\ \A m \in 0 .. r.h.len-1 : z.ticks[m].index = r.h.ticks[m].index
    BY <1>1, <1>2, <2>1, ChangeFact DEF z
  <2> QED BY <1>1, <2>2 DEF SameTicks
<1>5. /\ z.ticks[k].gross = x.ticks[k].gross + (-g) /\ z.ticks[k].net = x.ticks[k].net + d
      /\ GrossAt(x, t) = x.ticks[k].gross /\ NetAt(x, t) = x.ticks[k].net
  BY <1>2, <1>4, AmountsFact DEF Changed
<1>6. ASSUME OthersStay(x, y, t), GrossAt(y, t) = z.ticks[k].gross, NetAt(y, t) = z.ticks[k].net
      PROVE  Booked(x, y, t, -g, d)
  <2> HIDE DEF y, z
  <2> QED BY <1>2, <1>5, <1>6, OthersKeepAmounts DEF Booked
<1> HIDE DEF y, z
<1>7. CASE ~IsEmpty(z.ticks[k])
  <2>1. y = z
    BY <1>3, <1>7 DEF RemoveTickIfEmpty
  <2>2. OthersStay(x, y, t)
    BY <1>4, <2>1 DEF OthersStay
  <2>3. GrossAt(y, t) = z.ticks[k].gross /\ NetAt(y, t) = z.ticks[k].net
    BY <1>4, <2>1, AmountsFact
  <2> QED BY <1>6, <2>2, <2>3 DEF y
<1>8. CASE IsEmpty(z.ticks[k])
  <2> DEFINE v == DeleteTick(z, k)
  <2>1. y = Rebound(v)
    BY <1>3, <1>8 DEF RemoveTickIfEmpty
  <2>2. Fit(v) /\ v.len = n-1 /\ v.ticks = DeleteAt(z.ticks, n, k)
    BY <1>4, DeleteFact
  <2> HIDE DEF v
  <2>3. y.len = v.len /\ y.ticks = v.ticks
    BY <2>1, <2>2, ReboundFact
  <2>4. HasDeleted(y.ticks, z.ticks, n, k)
    <3>1. z.ticks \in [0 .. n-1 -> Tick]
      BY <1>4, FieldTypes DEF Fit
    <3> QED BY <1>2, <2>2, <2>3, <3>1, DeletedSlice
  <2>5. y.len - 1 = n-2
    BY <1>2, <2>2, <2>3
  <2>6. /\ \A i \in 0 .. n-1 : x.ticks[i].index \in Int
        /\ \A i, j \in 0 .. n-1 : i < j => x.ticks[i].index < x.ticks[j].index
    BY <1>2, FieldTypes DEF Fit, Ordered
  <2>7. ASSUME NEW j \in 0 .. n-2
        PROVE  \E m \in 0 .. n-1 : m # k /\ y.ticks[j] = x.ticks[m]
    <3>1. \/ j < k /\ j \in 0 .. n-1 /\ y.ticks[j] = z.ticks[j]
          \/ j >= k /\ j+1 \in 0 .. n-1 /\ y.ticks[j] = z.ticks[j+1]
      BY <2>4 DEF HasDeleted
    <3> QED BY <1>4, <3>1
  <2>8. OthersStay(x, y, t)
    <3>1. ASSUME NEW m \in 0 .. n-1, x.ticks[m].index # t
          PROVE  \E j \in 0 .. y.len-1 : y.ticks[j] = x.ticks[m]
      <4>1. m # k
        BY <3>1
      <4>2. KeepsOthers(x, y, k)
        BY TakeFromFact DEF y
      <4> QED BY <4>1, <4>2 DEF KeepsOthers
    <3> QED BY <2>5, <2>7, <3>1 DEF OthersStay
  <2>9. \A j \in 0 .. y.len-1 : y.ticks[j].index # t
    BY <2>5, <2>6, <2>7
  <2>10. GrossAt(y, t) = 0 /\ NetAt(y, t) = 0
    BY <1>2, <2>9, AmountsFact
  <2>11. z.ticks[k].gross = 0 /\ z.ticks[k].net = 0
    BY <1>8 DEF IsEmpty
  <2> QED BY <1>6, <2>8, <2>10, <2>11 DEF y
<1> QED BY <1>7, <1>8

(* A bound is not part of the book. *)
LEMMA SameSliceSameAmounts ==
  ASSUME NEW x, NEW y, y.ticks = x.ticks, y.len = x.len, NEW t
  PROVE  GrossAt(y, t) = GrossAt(x, t) /\ NetAt(y, t) = NetAt(x, t)
BY DEF GrossAt, NetAt

(* The ticks of the book are those of the slice. *)
LEMMA BookLists ==
  ASSUME IInv
  PROVE  Book!Listed = Listed(h)
<1>1. /\ \A k \in 0 .. h.len-1 : /\ h.ticks[k].index \in TickIndex
                                 /\ ~(h.ticks[k].gross = 0 /\ h.ticks[k].net = 0)
                                 /\ GrossAt(h, h.ticks[k].index) = h.ticks[k].gross
                                 /\ NetAt(h, h.ticks[k].index) = h.ticks[k].net
      /\ \A t : t \notin Listed(h) => GrossAt(h, t) = 0 /\ NetAt(h, t) = 0
  BY FieldTypes, AmountsFact DEF IInv, Fit, NoneEmpty, IsEmpty, Listed
<1>2. Book!Listed = {t \in TickIndex : GrossAt(h, t) # 0 \/ NetAt(h, t) # 0}
  BY DEF Book!Listed
<1>3. ASSUME NEW t \in Book!Listed PROVE t \in Listed(h)
  BY <1>1, <1>2
<1>4. ASSUME NEW t \in Listed(h) PROVE t \in Book!Listed
  BY <1>1, <1>2 DEF Listed
<1> QED BY <1>3, <1>4

(* What a load books: the ticks of the snapshot and nothing else. *)
LEMMA LoadImplements ==
  ASSUME IInv, NEW s \in Snapshots, SetTicks(s)
  PROVE  Book!SetTicks(s)
<1>1. s.len \in Nat /\ s.len > 0 /\ IsSnapshot(s.ticks, s.len)
  BY SnapshotsAssumption
<1>2. /\ s.ticks \in SliceOf(Tick, s.len) /\ Ordered(s) /\ NoneEmpty(s)
  BY <1>1 DEF IsSnapshot, StrictlySorted, IndexOf, Ordered, NoneEmpty, IsEmpty
<1>3. /\ Fit(Loaded(h, s))
      /\ Loaded(h, s).len = s.len /\ Loaded(h, s).ticks = s.ticks
  BY <1>1, <1>2, LoadedFact DEF IInv, Fit
<1>4. h' = Loaded(h, s) /\ reply' = Done /\ call' = <<"SetTicks", s>>
  BY <1>1 DEF SetTicks
<1>5. Fit(h') /\ h'.len = s.len /\ h'.ticks = s.ticks
  BY <1>3, <1>4
<1>6. ASSUME NEW t \in TickIndex
      PROVE  /\ Book!Entries(s, t) = {} => GrossAt(h', t) = 0 /\ NetAt(h', t) = 0
             /\ \A k \in Book!Entries(s, t) :
                  GrossAt(h', t) = s.ticks[k].gross /\ NetAt(h', t) = s.ticks[k].net
  BY <1>5, AmountsFact DEF Book!Entries
<1>7. reply' = Book!Done
  BY <1>4 DEF Done, Book!Done
<1> QED BY <1>4, <1>6, <1>7 DEF Book!SetTicks

(* A copy has the same book. *)
LEMMA CloneImplements ==
  ASSUME IInv, Clone
  PROVE  Book!Clone
<1>1. NewTicksHandler.len \in Nat /\ NewTicksHandler \in Handler(NewTicksHandler.len)
  BY NewHandlerFact
<1>2. /\ h.len \in Nat /\ h.len > 0 /\ h.ticks \in SliceOf(Tick, h.len)
      /\ Ordered(h) /\ NoneEmpty(h)
  BY DEF IInv, Fit, Clone, Handler
<1> DEFINE y == Loaded(NewTicksHandler, h)
<1>3. y.len = h.len /\ y.ticks = h.ticks
  BY <1>1, <1>2, LoadedFact
<1>4. h' = y /\ reply' = Done /\ call' = <<"Clone">>
  BY DEF Clone
<1> HIDE DEF y
<1>5. \A t : GrossAt(h', t) = GrossAt(h, t) /\ NetAt(h', t) = NetAt(h, t)
  BY <1>3, <1>4, SameSliceSameAmounts
<1> QED BY <1>4, <1>5 DEF Book!Clone, Book!Done, Done

(* A mint keeps the handler sound and is booked in full, on its two ticks    *)
(* and nowhere else, wherever bounds and hint stand.                         *)
LEMMA MintBooks ==
  ASSUME NEW x, Sound(x), NEW lower \in TickIndex, NEW upper \in TickIndex, lower < upper,
         NEW g \in Nat, g > 0
  PROVE  LET z == MintUpper(MintLower(x, lower, g), upper, g)
         IN  /\ Sound(z)
             /\ \A u \in TickIndex :
                  /\ GrossAt(z, u) = IF u = lower \/ u = upper THEN GrossAt(x, u) + g ELSE GrossAt(x, u)
                  /\ NetAt(z, u) = IF u = lower THEN NetAt(x, u) + g
                                    ELSE IF u = upper THEN NetAt(x, u) - g ELSE NetAt(x, u)
<1> DEFINE a == AddTo(x, lower, g, g)
           y == MintLower(x, lower, g)
           b == AddTo(y, upper, g, -g)
           z == MintUpper(y, upper, g)
<1>1. g \in Int /\ -g \in Int /\ lower \in Int /\ upper \in Int /\ lower # upper
  BY TicksHandlerAssumption
<1>2. Sound(a)
  BY <1>1, AddToFact
<1>3. Booked(x, a, lower, g, g)
  BY <1>1, AddToBooks
<1>4. y = a \/ y = LowerSmallest(a, lower)
  BY DEF MintLower
<1> HIDE DEF a
<1>5. Sound(y) /\ y.len = a.len /\ y.ticks = a.ticks
  <2>1. LET l == LowerSmallest(a, lower) IN Sound(l) /\ l.len = a.len /\ l.ticks = a.ticks
    BY <1>1, <1>2, LowerSmallestFact
  <2> QED BY <1>2, <1>4, <2>1
<1> HIDE DEF y
<1>6. Sound(b)
  BY <1>1, <1>5, AddToFact
<1>7. Booked(y, b, upper, g, -g)
  BY <1>1, <1>5, AddToBooks
<1>8. z = b \/ z = RaiseLargest(b, upper)
  BY DEF MintUpper
<1> HIDE DEF b
<1>9. Sound(z) /\ z.len = b.len /\ z.ticks = b.ticks
  <2>1. LET l == RaiseLargest(b, upper) IN Sound(l) /\ l.len = b.len /\ l.ticks = b.ticks
    BY <1>1, <1>6, RaiseLargestFact
  <2> QED BY <1>6, <1>8, <2>1
<1> HIDE DEF z
<1>10. ASSUME NEW u \in TickIndex
       PROVE  /\ GrossAt(z, u) = IF u = lower \/ u = upper THEN GrossAt(x, u) + g ELSE GrossAt(x, u)
              /\ NetAt(z, u) = IF u = lower THEN NetAt(x, u) + g
                               ELSE IF u = upper THEN NetAt(x, u) - g ELSE NetAt(x, u)
  <2>1. GrossAt(z, u) = GrossAt(b, u) /\ NetAt(z, u) = NetAt(b, u)
    BY <1>9, SameSliceSameAmounts
  <2>2. GrossAt(y, u) = GrossAt(a, u) /\ NetAt(y, u) = NetAt(a, u)
    BY <1>5, SameSliceSameAmounts
  <2>3. /\ GrossAt(a, u) = IF u = lower THEN GrossAt(x, u) + g ELSE GrossAt(x, u)
        /\ NetAt(a, u) = IF u = lower THEN NetAt(x, u) + g ELSE NetAt(x, u)
    BY <1>3 DEF Booked
  <2>4. /\ GrossAt(b, u) = IF u = upper THEN GrossAt(y, u) + g ELSE GrossAt(y, u)
        /\ NetAt(b, u) = IF u = upper THEN NetAt(y, u) + (-g) ELSE NetAt(y, u)
    BY <1>7 DEF Booked
  <2>5. GrossAt(x, u) \in Nat /\ NetAt(x, u) \in Int
    BY AmountsAreNumbers DEF Sound
  <2> QED BY <1>1, <2>1, <2>2, <2>3, <2>4, <2>5
<1> QED BY <1>9, <1>10 DEF y, z

(* The book's mint. *)
LEMMA MintImplements ==
  ASSUME IInv, h.len > 0, Mint
  PROVE  Book!Next
<1>1. PICK lower \in TickIndex, upper \in TickIndex, g \in Liquidity :
        /\ lower < upper /\ g > 0
        /\ UpdateTicksAfterMint(lower, upper, g)
  BY DEF Mint, MayMint
<1> DEFINE z == MintUpper(MintLower(h, lower, g), upper, g)
<1>2. g \in Nat /\ lower # upper /\ Sound(h)
  BY <1>1, TicksHandlerAssumption DEF IInv, Sound
<1>3. \A u \in TickIndex :
        /\ GrossAt(z, u) = IF u = lower \/ u = upper THEN GrossAt(h, u) + g ELSE GrossAt(h, u)
        /\ NetAt(z, u) = IF u = lower THEN NetAt(h, u) + g
                         ELSE IF u = upper THEN NetAt(h, u) - g ELSE NetAt(h, u)
  BY <1>1, <1>2, MintBooks
<1>4. h' = z /\ reply' = Done /\ call' = <<"Mint", lower, upper, g>>
  BY <1>1 DEF UpdateTicksAfterMint
<1> HIDE DEF z
<1>5. \A u \in TickIndex :
        /\ GrossAt(h', u) = IF u = lower \/ u = upper THEN GrossAt(h, u) + g ELSE GrossAt(h, u)
        /\ NetAt(h', u) = IF u = lower THEN NetAt(h, u) + g
                          ELSE IF u = upper THEN NetAt(h, u) - g ELSE NetAt(h, u)
  BY <1>3, <1>4
<1>6. Book!Mint(lower, upper, g)
  BY <1>2, <1>4, <1>5 DEF Book!Mint, Book!Done, Done
<1> QED BY <1>1, <1>6 DEF Book!Next

(* A burn that takes no more than its ticks hold finds both of them, the     *)
(* second one also when the first is gone, keeps the handler sound and is    *)
(* booked in full.                                                           *)
LEMMA BurnBooks ==
  ASSUME NEW v, Sound(v), NEW lower \in TickIndex, NEW upper \in TickIndex, lower < upper,
         NEW g \in Nat,
         NEW k \in 0 .. v.len-1, v.ticks[k].index = lower, v.ticks[k].gross >= g,
         NEW m \in 0 .. v.len-1, v.ticks[m].index = upper, v.ticks[m].gross >= g
  PROVE  LET x == TakeFrom(v, lower, g, -g)
             y == TakeFrom(x, upper, g, g)
         IN  /\ TickWithSliceKey(v, lower).exist /\ TickWithSliceKey(x, upper).exist
             /\ Sound(y)
             /\ \A u \in TickIndex :
                  /\ GrossAt(y, u) = IF u = lower \/ u = upper THEN GrossAt(v, u) - g ELSE GrossAt(v, u)
                  /\ NetAt(y, u) = IF u = lower THEN NetAt(v, u) - g
                                    ELSE IF u = upper THEN NetAt(v, u) + g ELSE NetAt(v, u)
<1> DEFINE x == TakeFrom(v, lower, g, -g)
           y == TakeFrom(x, upper, g, g)
<1>1. g \in Int /\ -g \in Int /\ lower # upper /\ k # m
  BY TicksHandlerAssumption
<1>2. Sound(x) /\ KeepsOthers(v, x, k)
  BY <1>1, TakeFromFact
<1>3. Booked(v, x, lower, -g, -g)
  BY <1>1, TakeFromBooks
<1>4. TickWithSliceKey(v, lower).exist
  BY ListedIsFound DEF Sound
<1> HIDE DEF x
<1>5. PICK j \in 0 .. x.len-1 : x.ticks[j] = v.ticks[m]
  BY <1>1, <1>2 DEF KeepsOthers
<1>6. x.ticks[j].index = upper /\ x.ticks[j].gross >= g
  BY <1>5
<1>7. TickWithSliceKey(x, upper).exist
  BY <1>2, <1>6, ListedIsFound DEF Sound
<1>8. Booked(x, y, upper, -g, g)
  BY <1>1, <1>2, <1>6, TakeFromBooks
<1>9. Sound(y)
  BY <1>1, <1>2, <1>6, TakeFromFact
<1> HIDE DEF y
<1>10. ASSUME NEW u \in TickIndex
       PROVE  /\ GrossAt(y, u) = IF u = lower \/ u = upper THEN GrossAt(v, u) - g ELSE GrossAt(v, u)
              /\ NetAt(y, u) = IF u = lower THEN NetAt(v, u) - g
                               ELSE IF u = upper THEN NetAt(v, u) + g ELSE NetAt(v, u)
  <2>1. /\ GrossAt(x, u) = IF u = lower THEN GrossAt(v, u) + (-g) ELSE GrossAt(v, u)
        /\ NetAt(x, u) = IF u = lower THEN NetAt(v, u) + (-g) ELSE NetAt(v, u)
    BY <1>3 DEF Booked
  <2>2. /\ GrossAt(y, u) = IF u = upper THEN GrossAt(x, u) + (-g) ELSE GrossAt(x, u)
        /\ NetAt(y, u) = IF u = upper THEN NetAt(x, u) + g ELSE NetAt(x, u)
    BY <1>8 DEF Booked
  <2>3. GrossAt(v, u) \in Nat /\ NetAt(v, u) \in Int
    BY AmountsAreNumbers DEF Sound
  <2> QED BY <1>1, <2>1, <2>2, <2>3
<1> QED BY <1>4, <1>7, <1>9, <1>10 DEF x, y

(* The book's burn. *)
LEMMA BurnImplements ==
  ASSUME IInv, Burn
  PROVE  Book!Next
<1>1. PICK lower \in TickIndex, upper \in TickIndex, g \in Liquidity :
        /\ lower < upper
        /\ MayBurn(lower, g) /\ MayBurn(upper, g)
        /\ UpdateTicksAfterBurn(lower, upper, g)
  BY DEF Burn
<1>2. g \in Nat /\ lower # upper /\ Sound(h)
  BY <1>1, TicksHandlerAssumption DEF IInv, Sound
<1>3. PICK k \in 0 .. h.len-1 : h.ticks[k].index = lower /\ h.ticks[k].gross >= g
  BY <1>1, <1>2, AmountsFact DEF MayBurn, Listed, Sound
<1>4. PICK m \in 0 .. h.len-1 : h.ticks[m].index = upper /\ h.ticks[m].gross >= g
  BY <1>1, <1>2, AmountsFact DEF MayBurn, Listed, Sound
<1> DEFINE x == TakeFrom(h, lower, g, -g)
           y == TakeFrom(x, upper, g, g)
<1>5. /\ TickWithSliceKey(h, lower).exist /\ TickWithSliceKey(x, upper).exist
      /\ \A u \in TickIndex :
           /\ GrossAt(y, u) = IF u = lower \/ u = upper THEN GrossAt(h, u) - g ELSE GrossAt(h, u)
           /\ NetAt(y, u) = IF u = lower THEN NetAt(h, u) - g
                            ELSE IF u = upper THEN NetAt(h, u) + g ELSE NetAt(h, u)
  BY <1>1, <1>2, <1>3, <1>4, BurnBooks
<1>6. h' = y /\ reply' = Done /\ call' = <<"Burn", lower, upper, g>>
  BY <1>1, <1>5 DEF UpdateTicksAfterBurn
<1> HIDE DEF x, y
<1>7. \A u \in TickIndex :
        /\ GrossAt(h', u) = IF u = lower \/ u = upper THEN GrossAt(h, u) - g ELSE GrossAt(h, u)
        /\ NetAt(h', u) = IF u = lower THEN NetAt(h, u) - g
                          ELSE IF u = upper THEN NetAt(h, u) + g ELSE NetAt(h, u)
  BY <1>5, <1>6
<1>8. {lower, upper} \subseteq Book!Listed
  BY <1>1, BookLists DEF MayBurn
<1>9. Book!Burn(lower, upper, g)
  BY <1>2, <1>6, <1>7, <1>8 DEF Book!Burn, Book!Done, Done
<1> QED BY <1>1, <1>9 DEF Book!Next
-----------------------------------------------------------------------------
(* Queries change no amount. *)
LEMMA QueryBooksNothing ==
  ASSUME h'.ticks = h.ticks, h'.len = h.len
  PROVE  /\ [t \in TickIndex |-> GrossAt(h, t)]' = [t \in TickIndex |-> GrossAt(h, t)]
         /\ [t \in TickIndex |-> NetAt(h, t)]' = [t \in TickIndex |-> NetAt(h, t)]
<1>1. \A t : GrossAt(h', t) = GrossAt(h, t) /\ NetAt(h', t) = NetAt(h, t)
  BY SameSliceSameAmounts
<1> QED BY <1>1

(* A tick is found wherever it is, whether by the hint or by the search. *)
LEMMA GetTickImplements ==
  ASSUME IInv, h.len > 0, NEW t \in TickIndex, GetTick(t)
  PROVE  Book!GetTick(t)
<1>1. /\ t \in Int /\ h.len \in Nat /\ h.last \in -1 .. h.len-1 /\ h.len # 0
      /\ \A k \in 0 .. h.len-1 : h.ticks[k].index \in Int
  BY QueryFacts, TicksHandlerAssumption
<1> DEFINE i == BinarySearch(h, t)
<1>2. /\ i \in 0 .. h.len-1
      /\ \/ /\ h.ticks[i].index <= t
            /\ \A j \in 0 .. h.len-1 : h.ticks[j].index <= t => j <= i
         \/ /\ i = 0
            /\ \A j \in 0 .. h.len-1 : h.ticks[j].index > t
  BY <1>1, SearchFact DEF IInv
<1> HIDE DEF i
<1>3. \A j, k \in 0 .. h.len-1 : j < k => h.ticks[j].index < h.ticks[k].index
  BY DEF IInv, Fit, Ordered
<1>4. t \in Listed(h) => h.ticks[i].index = t
  <2> SUFFICES ASSUME NEW k \in 0 .. h.len-1, h.ticks[k].index = t PROVE h.ticks[i].index = t
    BY DEF Listed
  <2> QED BY <1>1, <1>2, <1>3
<1>5. ASSUME NEW k \in 0 .. h.len-1, h.ticks[k].index = t
      PROVE  /\ t \in Listed(h)
             /\ Read(h, k) = Book!TickReply(t, GrossAt(h, t), NetAt(h, t))
  <2>1. GrossAt(h, t) = h.ticks[k].gross /\ NetAt(h, t) = h.ticks[k].net
    BY <1>5, AmountsFact DEF IInv
  <2>2. Read(h, k) = TickReply(h.ticks[k])
    BY DEF Read
  <2> QED BY <1>5, <2>1, <2>2 DEF TickReply, Book!TickReply, Listed
<1>6. reply' = IF t \in Listed(h) THEN Book!TickReply(t, GrossAt(h, t), NetAt(h, t))
               ELSE Book!Error("ErrTickNotFound")
  <2>1. CASE h.last >= 0 /\ h.ticks[h.last].index = t
    <3>1. h.last \in 0 .. h.len-1 /\ ~(h.last >= h.len) /\ h.last < h.len
      BY <1>1, <2>1
    <3>2. reply' = Read(h, h.last)
      BY <2>1, <3>1 DEF GetTick
    <3> QED BY <1>5, <2>1, <3>1, <3>2
  <2>2. CASE ~(h.last >= 0 /\ h.ticks[h.last].index = t)
    <3>1. ~(h.last >= 0 /\ h.last >= h.len)
      BY <1>1
    <3>2. reply' = IF h.ticks[i].index = t THEN Read(h, i) ELSE Error("ErrTickNotFound")
      BY <1>1, <2>2, <3>1 DEF GetTick, i
    <3>3. CASE h.ticks[i].index = t
      BY <1>2, <1>5, <3>2, <3>3
    <3>4. CASE h.ticks[i].index # t
      BY <1>4, <3>2, <3>4 DEF Error, Book!Error
    <3> QED BY <3>3, <3>4
  <2> QED BY <2>1, <2>2
<1>7. call' = <<"GetTick", t>> /\ h' = h
  BY DEF GetTick
<1>8. Book!Listed = Listed(h)
  BY BookLists
<1>9. UNCHANGED <<[u \in TickIndex |-> GrossAt(h, u)], [u \in TickIndex |-> NetAt(h, u)]>>
  BY <1>7, QueryBooksNothing
<1> QED BY <1>6, <1>7, <1>8, <1>9 DEF Book!GetTick

(* What a query answers from an index: the tick that is there. *)
LEMMA MovedAnswers ==
  ASSUME IInv, NEW i \in 0 .. h.len-1, Moved(i)
  PROVE  LET s == h.ticks[i].index
         IN  /\ s \in Book!Listed
             /\ reply' = Book!NextReply(s, [u \in TickIndex |-> GrossAt(h, u)][s] # 0)
             /\ h'.ticks = h.ticks /\ h'.len = h.len
<1> DEFINE s == h.ticks[i].index
           tk == h.ticks[i]
<1>1. /\ h \in Handler(h.len) /\ s \in TickIndex /\ GrossAt(h, s) = tk.gross
  BY FieldTypes, AmountsFact DEF IInv, Fit
<1>2. h' = [h EXCEPT !.last = i] /\ reply' = NextReply(tk)
  BY DEF Moved
<1>3. h'.ticks = h.ticks /\ h'.len = h.len
  BY <1>1, <1>2 DEF Handler
<1>4. s \in Book!Listed
  BY BookLists DEF Listed
<1>5. [u \in TickIndex |-> GrossAt(h, u)][s] = tk.gross
  BY <1>1
<1>6. NextReply(tk) = Book!NextReply(s, tk.gross # 0)
  BY DEF NextReply, Book!NextReply
<1> QED BY <1>2, <1>3, <1>4, <1>5, <1>6

(* The nearest tick to the left, from bounds, hint or search. *)
LEMMA NextAtOrBelowImplements ==
  ASSUME IInv, h.len > 0, NEW t \in TickIndex, NextAtOrBelow(t)
  PROVE  Book!NextAtOrBelow(t)
<1>1. /\ t \in Int /\ h.len \in Nat /\ h.last \in -1 .. h.len-1
      /\ \A k \in 0 .. h.len-1 : h.ticks[k].index \in Int
      /\ h.smallest = h.ticks[0].index /\ h.largest = h.ticks[h.len-1].index
      /\ \A j, k \in 0 .. h.len-1 : j < k => h.ticks[j].index < h.ticks[k].index
  BY QueryFacts, TicksHandlerAssumption DEF IInv, Fit, Ordered
<1>2. call' = <<"NextAtOrBelow", t>>
  BY DEF NextAtOrBelow
<1>3. Book!AtOrBelow(t) = {s \in Listed(h) : s <= t}
  BY BookLists DEF Book!AtOrBelow
<1>4. ASSUME NEW i \in 0 .. h.len-1, Moved(i), h.ticks[i].index <= t,
             \A j \in 0 .. h.len-1 : h.ticks[j].index <= t => j <= i
      PROVE  Book!NextAtOrBelow(t)
  <2> DEFINE s == h.ticks[i].index
  <2>1. /\ reply' = Book!NextReply(s, [u \in TickIndex |-> GrossAt(h, u)][s] # 0)
        /\ h'.ticks = h.ticks /\ h'.len = h.len
    BY <1>4, MovedAnswers
  <2>2. s \in Book!AtOrBelow(t) /\ \A r \in Book!AtOrBelow(t) : r <= s
    BY <1>1, <1>3, <1>4 DEF Listed
  <2>3. UNCHANGED <<[u \in TickIndex |-> GrossAt(h, u)], [u \in TickIndex |-> NetAt(h, u)]>>
    BY <2>1, QueryBooksNothing
  <2> QED BY <1>2, <2>1, <2>2, <2>3 DEF Book!NextAtOrBelow
<1>5. CASE IsBelowSmallest(h, t) /\ reply' = Error("ErrBelowSmallest") /\ UNCHANGED h
  <2>1. \A k \in 0 .. h.len-1 : h.ticks[k].index > t
    BY <1>1, <1>5 DEF IsBelowSmallest
  <2>2. Book!AtOrBelow(t) = {}
    BY <1>1, <1>3, <2>1 DEF Listed
  <2>3. UNCHANGED <<[u \in TickIndex |-> GrossAt(h, u)], [u \in TickIndex |-> NetAt(h, u)]>>
    BY <1>5, QueryBooksNothing
  <2> QED BY <1>2, <1>5, <2>2, <2>3 DEF Book!NextAtOrBelow, Error, Book!Error
<1>6. CASE IsAtOrAboveLargest(h, t) /\ Moved(h.len - 1)
  BY <1>1, <1>4, <1>6 DEF IsAtOrAboveLargest
<1>7. CASE /\ ~IsBelowSmallest(h, t)
           /\ IF HintBelowPanics(h, t) THEN reply' = Panic /\ UNCHANGED h
              ELSE Moved(IF HintBelow(h, t) THEN h.last - 1 ELSE BinarySearch(h, t))
  <2>1. ~HintBelowPanics(h, t)
    BY <1>1 DEF HintBelowPanics
  <2>2. CASE HintBelow(h, t)
    <3>1. /\ h.last - 1 \in 0 .. h.len-1 /\ h.last \in 0 .. h.len-1
          /\ h.ticks[h.last - 1].index <= t /\ h.ticks[h.last].index > t
      BY <1>1, <2>2 DEF HintBelow
    <3>2. \A j \in 0 .. h.len-1 : h.ticks[j].index <= t => j <= h.last - 1
      BY <1>1, <3>1
    <3> QED BY <1>4, <1>7, <2>1, <2>2, <3>1, <3>2
  <2>3. CASE ~HintBelow(h, t)
    <3> DEFINE i == BinarySearch(h, t)
    <3>1. /\ i \in 0 .. h.len-1
          /\ \/ /\ h.ticks[i].index <= t
                /\ \A j \in 0 .. h.len-1 : h.ticks[j].index <= t => j <= i
             \/ /\ i = 0
                /\ \A j \in 0 .. h.len-1 : h.ticks[j].index > t
      BY <1>1, SearchFact DEF IInv
    <3>2. Moved(i)
      BY <1>7, <2>1, <2>3
    <3> HIDE DEF i
    <3>3. h.ticks[0].index <= t
      BY <1>1, <1>7 DEF IsBelowSmallest
    <3> QED BY <1>1, <1>4, <3>1, <3>2, <3>3
  <2> QED BY <2>2, <2>3
<1> QED BY <1>5, <1>6, <1>7 DEF NextAtOrBelow

(* The nearest tick to the right. *)
LEMMA NextAboveImplements ==
  ASSUME IInv, h.len > 0, NEW t \in TickIndex, NextAbove(t)
  PROVE  Book!NextAbove(t)
<1>1. /\ t \in Int /\ h.len \in Nat /\ h.last \in -1 .. h.len-1
      /\ \A k \in 0 .. h.len-1 : h.ticks[k].index \in Int
      /\ h.smallest = h.ticks[0].index /\ h.largest = h.ticks[h.len-1].index
      /\ \A j, k \in 0 .. h.len-1 : j < k => h.ticks[j].index < h.ticks[k].index
  BY QueryFacts, TicksHandlerAssumption DEF IInv, Fit, Ordered
<1>2. call' = <<"NextAbove", t>>
  BY DEF NextAbove
<1>3. Book!Above(t) = {s \in Listed(h) : s > t}
  BY BookLists DEF Book!Above
<1>4. ASSUME NEW i \in 0 .. h.len-1, Moved(i), h.ticks[i].index > t,
             \A j \in 0 .. h.len-1 : h.ticks[j].index > t => i <= j
      PROVE  Book!NextAbove(t)
  <2> DEFINE s == h.ticks[i].index
  <2>1. /\ reply' = Book!NextReply(s, [u \in TickIndex |-> GrossAt(h, u)][s] # 0)
        /\ h'.ticks = h.ticks /\ h'.len = h.len
    BY <1>4, MovedAnswers
  <2>2. s \in Book!Above(t) /\ \A r \in Book!Above(t) : r >= s
    BY <1>1, <1>3, <1>4 DEF Listed
  <2>3. UNCHANGED <<[u \in TickIndex |-> GrossAt(h, u)], [u \in TickIndex |-> NetAt(h, u)]>>
    BY <2>1, QueryBooksNothing
  <2> QED BY <1>2, <2>1, <2>2, <2>3 DEF Book!NextAbove
<1>5. CASE IsAtOrAboveLargest(h, t) /\ reply' = Error("ErrAtOrAboveLargest") /\ UNCHANGED h
  <2>1. \A k \in 0 .. h.len-1 : h.ticks[k].index <= t
    BY <1>1, <1>5 DEF IsAtOrAboveLargest
  <2>2. Book!Above(t) = {}
    BY <1>1, <1>3, <2>1 DEF Listed
  <2>3. UNCHANGED <<[u \in TickIndex |-> GrossAt(h, u)], [u \in TickIndex |-> NetAt(h, u)]>>
    BY <1>5, QueryBooksNothing
  <2> QED BY <1>2, <1>5, <2>2, <2>3 DEF Book!NextAbove, Error, Book!Error
<1>6. CASE IsBelowSmallest(h, t) /\ Moved(0)
  <2>1. 0 \in 0 .. h.len-1 /\ h.ticks[0].index > t /\ \A j \in 0 .. h.len-1 : 0 <= j
    BY <1>1, <1>6 DEF IsBelowSmallest
  <2> QED BY <1>4, <1>6, <2>1
<1>7. CASE /\ ~IsAtOrAboveLargest(h, t) /\ ~IsBelowSmallest(h, t)
           /\ Moved(IF HintAbove(h, t) THEN h.last + 1 ELSE BinarySearch(h, t) + 1)
  <2>1. CASE HintAbove(h, t)
    <3>1. /\ h.last + 1 \in 0 .. h.len-1 /\ h.last \in 0 .. h.len-1
          /\ h.ticks[h.last].index <= t /\ h.ticks[h.last + 1].index > t
      BY <1>1, <2>1 DEF HintAbove
    <3>2. \A j \in 0 .. h.len-1 : h.ticks[j].index > t => h.last + 1 <= j
      BY <1>1, <3>1
    <3> QED BY <1>4, <1>7, <2>1, <3>1, <3>2
  <2>2. CASE ~HintAbove(h, t)
    <3> DEFINE i == BinarySearch(h, t)
    <3>1. /\ i \in 0 .. h.len-1
          /\ \/ /\ h.ticks[i].index <= t
                /\ \A j \in 0 .. h.len-1 : h.ticks[j].index <= t => j <= i
             \/ /\ i = 0
                /\ \A j \in 0 .. h.len-1 : h.ticks[j].index > t
      BY <1>1, SearchFact DEF IInv
    <3>2. Moved(i + 1)
      BY <1>7, <2>2
    <3> HIDE DEF i
    <3>3. h.ticks[0].index <= t /\ h.ticks[h.len-1].index > t
      BY <1>1, <1>7 DEF IsBelowSmallest, IsAtOrAboveLargest
    <3>4. /\ h.ticks[i].index <= t
          /\ \A j \in 0 .. h.len-1 : h.ticks[j].index <= t => j <= i
      BY <1>1, <3>1, <3>3
    <3>5. i # h.len-1
      <4>1. h.ticks[i].index \in Int
        BY <1>1, <3>1
      <4>2. QED
        BY <1>1, <3>3, <3>4, <4>1
    <3>6. i + 1 \in 0 .. h.len-1 /\ ~(i + 1 <= i)
      BY <1>1, <3>1, <3>5
    <3>7. h.ticks[i + 1].index > t
      BY <1>1, <3>4, <3>6
    <3>8. \A j \in 0 .. h.len-1 : h.ticks[j].index > t => i + 1 <= j
      BY <1>1, <3>1, <3>4
    <3> QED BY <1>4, <3>2, <3>6, <3>7, <3>8
  <2> QED BY <2>1, <2>2
<1> QED BY <1>5, <1>6, <1>7 DEF NextAbove

(* A new handler is an empty book. *)
LEMMA InitImplements == Init => Book!Init
<1> SUFFICES ASSUME Init PROVE Book!Init
  OBVIOUS
<1>1. h.len = 0 /\ call = <<"NewTicksHandler">> /\ reply = Book!Done
  BY DEF Init, NewTicksHandler, Done, Book!Done
<1>2. \A t : GrossAt(h, t) = 0 /\ NetAt(h, t) = 0
  BY <1>1 DEF GrossAt, NetAt
<1> QED BY <1>1, <1>2 DEF Book!Init

(* Every call on the handler is the book's call, with the book's answer. *)
LEMMA NextImplements == IInv /\ [Next]_vars => [Book!Next]_(Book!vars)
<1> SUFFICES ASSUME IInv, [Next]_vars PROVE [Book!Next]_(Book!vars)
  OBVIOUS
<1>1. CASE \E s \in Snapshots : SetTicks(s)
  BY <1>1, LoadImplements DEF Book!Next
<1>2. CASE Clone
  BY <1>2, CloneImplements DEF Book!Next
<1>3. CASE h.len > 0 /\ Mint
  BY <1>3, MintImplements
<1>4. CASE Burn
  BY <1>4, BurnImplements
<1>5. CASE h.len > 0 /\ Query
  BY <1>5, GetTickImplements, NextAtOrBelowImplements, NextAboveImplements DEF Query, Book!Next
<1>6. CASE UNCHANGED vars
  <2>1. h' = h /\ call' = call /\ reply' = reply
    BY <1>6 DEF vars
  <2>2. UNCHANGED <<[u \in TickIndex |-> GrossAt(h, u)], [u \in TickIndex |-> NetAt(h, u)]>>
    BY <2>1, QueryBooksNothing
  <2> QED BY <2>1, <2>2 DEF Book!vars
<1> QED BY <1>1, <1>2, <1>3, <1>4, <1>5, <1>6 DEF Next

(* IsTickBook: whatever is called on a loaded handler, it books and answers  *)
(* as the plain book of liquidity per tick does; neither hint nor cache nor  *)
(* bounds nor the order of earlier calls can be seen from outside.           *)
THEOREM ImplementsTickBook == Spec => IsTickBook
BY AlwaysIInv, InitImplements, NextImplements, PTL DEF Spec, IsTickBook, Book!Spec
=============================================================================
