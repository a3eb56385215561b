---------------------------- MODULE TicksHandler ----------------------------
(***************************************************************************)
(* entities/tickdataprovider.go: the sorted slice of initialised ticks     *)
(* that a pool keeps, with the two shortcuts in front of its binary        *)
(* search: the sequential hint lastResultIdx and the four-slot cache of    *)
(* tickWithSliceKey.  Both hold slice indices, so every insertion and      *)
(* deletion must shift them (shiftIndicesAfterInsert/Delete).              *)
(*                                                                         *)
(* A handler is a record h; an operator of the Go type is an operator on   *)
(* h.  binarySearch is taken by its result, LastAtOrBelow, which           *)
(* UpperBoundSearch establishes.  Liquidity amounts are integers: they     *)
(* stay far below the 2^128 the pool contract allows for a tick.           *)
(***************************************************************************)
EXTENDS GoSlices

CONSTANTS TickIndex,   \* tick indices in calls
          Liquidity,   \* amounts of Mint and Burn
          NSlots,      \* cache slots (4 in the code)
          Snapshots,   \* the slices of ticks that SetTicks is called with
          MaxGross     \* bound on a tick's gross liquidity

VARIABLES h,           \* the handler
          call, reply  \* the last call and what it returned

vars == <<h, call, reply>>

Slots == 0 .. NSlots-1
Tick == [index : TickIndex, gross : Nat, net : Int]

(* The handlers with n ticks. *)
Handler(n) ==
  [ticks : SliceOf(Tick, n), len : {n}, smallest : Int, largest : Int,
   last : Int,                                        \* lastResultIdx
   cacheTick : [Slots -> Int], cacheIdx : [Slots -> Int],
   valid : SUBSET Slots, next : Nat]                  \* cacheValidMask, cacheNext

IndexOf(ticks, n) == [k \in 0 .. n-1 |-> ticks[k].index]

ASSUME TicksHandlerAssumption ==
  /\ TickIndex \subseteq Int
  /\ Liquidity \subseteq Nat
  /\ NSlots \in Nat \ {0}
  /\ MaxGross \in Nat

(* SetTicks is called with the ticks of a pool: in order, none without       *)
(* liquidity.                                                                *)
IsSnapshot(s, n) ==
  /\ s \in SliceOf(Tick, n)
  /\ StrictlySorted(IndexOf(s, n), n)
  /\ \A k \in 0 .. n-1 : s[k].gross # 0 \/ s[k].net # 0

ASSUME SnapshotsAssumption ==
  \A x \in Snapshots : x.len \in Nat \ {0} /\ IsSnapshot(x.ticks, x.len)

Done == [kind |-> "done"]
Error(e) == [kind |-> "error", error |-> e]
TickReply(tk) == [kind |-> "tick", index |-> tk.index, gross |-> tk.gross, net |-> tk.net]
NextReply(tk) == [kind |-> "next", index |-> tk.index, initialized |-> tk.gross # 0]
Panic == [kind |-> "panic"]      \* index out of range, or nil dereference
-----------------------------------------------------------------------------
(* NewTicksHandler: every field has its zero value.                          *)
NewTicksHandler ==
  [ticks |-> [k \in {} |-> k], len |-> 0, smallest |-> 0, largest |-> 0, last |-> 0,
   cacheTick |-> [s \in Slots |-> 0], cacheIdx |-> [s \in Slots |-> 0],
   valid |-> {}, next |-> 0]

BinarySearch(x, t) == LastAtOrBelow(IndexOf(x.ticks, x.len), x.len, t)

IsBelowSmallest(x, t) == t < x.smallest
IsAtOrAboveLargest(x, t) == t >= x.largest

(* shiftIndicesAfterInsert and shiftIndicesAfterDelete. *)
ShiftSlotsAfterInsertPast(x, at) ==                                 \* mutant
  [s \in Slots |-> IF s \in x.valid /\ x.cacheIdx[s] > at
                   THEN x.cacheIdx[s] + 1 ELSE x.cacheIdx[s]]
ShiftSlotsAfterInsert(x, at) ==
  [s \in Slots |-> IF s \in x.valid /\ x.cacheIdx[s] >= at
                   THEN x.cacheIdx[s] + 1 ELSE x.cacheIdx[s]]

ShiftHintAfterInsert(x, at) == IF x.last >= at THEN x.last + 1 ELSE x.last

ShiftSlotsAfterDelete(x, at) ==
  [s \in Slots |-> IF s \in x.valid /\ x.cacheIdx[s] > at
                   THEN x.cacheIdx[s] - 1 ELSE x.cacheIdx[s]]

SlotsAfterDelete(x, at) == {s \in x.valid : x.cacheIdx[s] # at}

ShiftHintAfterDeleteKept(x, at) ==                                  \* mutant
  IF x.last > at THEN x.last - 1 ELSE x.last
ShiftHintAfterDelete(x, at) ==
  CASE x.last = at -> -1
    [] x.last > at -> x.last - 1
    [] OTHER -> x.last

(* slices.Insert, TicksLen++ and the shift. *)
InsertTick(x, at, tk) ==
  [x EXCEPT !.ticks = InsertAt(x.ticks, x.len, at, tk),
            !.len = x.len + 1,
            !.cacheIdx = ShiftSlotsAfterInsert(x, at),
            !.last = ShiftHintAfterInsert(x, at)]

(* slices.Delete, TicksLen-- and the shift. *)
DeleteTick(x, at) ==
  [x EXCEPT !.ticks = DeleteAt(x.ticks, x.len, at),
            !.len = x.len - 1,
            !.cacheIdx = ShiftSlotsAfterDelete(x, at),
            !.valid = SlotsAfterDelete(x, at),
            !.last = ShiftHintAfterDelete(x, at)]

(* removeTickIfEmpty recomputes both bounds, unless nothing is left. *)
Rebound(x) ==
  IF x.len > 0 THEN [x EXCEPT !.smallest = x.ticks[0].index,
                              !.largest = x.ticks[x.len-1].index]
  ELSE x

IsEmptyByNet(tk) == tk.net = 0                                      \* mutant
IsEmpty(tk) == tk.gross = 0 /\ tk.net = 0

RemoveTickIfEmpty(x, at) ==
  IF IsEmpty(x.ticks[at]) THEN Rebound(DeleteTick(x, at)) ELSE x
-----------------------------------------------------------------------------
(* tickWithSliceKey: the handler it leaves, the slice index of the tick or   *)
(* of its insertion point, and whether the tick is there.                    *)
Holding(x, t) == {s \in x.valid : x.cacheTick[s] = t}
FirstSlot(x, t) == CHOOSE s \in Holding(x, t) : \A r \in Holding(x, t) : s <= r

(* The cached index is verified before it is used. *)
Verified(x, s, t) == x.cacheIdx[s] < x.len /\ x.ticks[x.cacheIdx[s]].index = t

CacheHit(x, t) == Holding(x, t) # {} /\ Verified(x, FirstSlot(x, t), t)

Evict(x, t) ==
  IF Holding(x, t) = {} THEN x
  ELSE [x EXCEPT !.valid = @ \ {FirstSlot(x, t)}]

(* The first index whose tick is not below t. *)
SliceKeyAtFound(x, t) == BinarySearch(x, t)                         \* mutant
SliceKey(x, t) ==
  LET i == BinarySearch(x, t)
  IN  IF x.ticks[i].index < t THEN i + 1 ELSE i

IsAt(x, t, i) == i < x.len /\ x.ticks[i].index = t

(* Round-robin replacement. *)
Remember(x, t, i) ==
  LET slot == x.next % NSlots
  IN  [x EXCEPT !.cacheTick[slot] = t, !.cacheIdx[slot] = i,
                !.valid = @ \cup {slot}, !.next = slot + 1]

TickWithSliceKey(x, t) ==
  LET y == Evict(x, t)
      i == SliceKey(x, t)
  IN  CASE x.len = 0 -> [h |-> x, at |-> 0, exist |-> FALSE]
        [] x.len # 0 /\ CacheHit(x, t) ->
             [h |-> x, at |-> x.cacheIdx[FirstSlot(x, t)], exist |-> TRUE]
        [] x.len # 0 /\ ~CacheHit(x, t) /\ IsAt(x, t, i) ->
             [h |-> Remember(y, t, i), at |-> i, exist |-> TRUE]
        [] OTHER -> [h |-> y, at |-> i, exist |-> FALSE]
-----------------------------------------------------------------------------
(* One side of UpdateTicksAfterMint: add to the tick, or insert it. *)
ChangedSwapped(tk, dGross, dNet) ==                                 \* mutant
  [index |-> tk.index, gross |-> tk.gross + dNet, net |-> tk.net + dGross]
Changed(tk, dGross, dNet) ==
  [index |-> tk.index, gross |-> tk.gross + dGross, net |-> tk.net + dNet]

Change(x, at, dGross, dNet) ==
  [x EXCEPT !.ticks = [x.ticks EXCEPT ![at] = Changed(x.ticks[at], dGross, dNet)]]

AddTo(x, t, liquidity, dNet) ==
  LET r == TickWithSliceKey(x, t)
  IN  IF r.exist THEN Change(r.h, r.at, liquidity, dNet)
      ELSE InsertTick(r.h, r.at, [index |-> t, gross |-> liquidity, net |-> dNet])

(* An inserted lower tick can only lower the smallest index, an inserted     *)
(* upper tick only raise the largest.                                        *)
LowerSmallestNever(x, t) == x                                       \* mutant
LowerSmallest(x, t) == IF t < x.smallest THEN [x EXCEPT !.smallest = t] ELSE x
RaiseLargest(x, t) == IF t > x.largest THEN [x EXCEPT !.largest = t] ELSE x

MintLower(x, t, liquidity) ==
  LET y == AddTo(x, t, liquidity, liquidity)
  IN  IF y.len > x.len THEN LowerSmallest(y, t) ELSE y

MintUpper(x, t, liquidity) ==
  LET y == AddTo(x, t, liquidity, -liquidity)
  IN  IF y.len > x.len THEN RaiseLargest(y, t) ELSE y

(* One side of UpdateTicksAfterBurn, for a tick that is in the slice. *)
TakeFrom(x, t, liquidity, dNet) ==
  LET r == TickWithSliceKey(x, t)
  IN  RemoveTickIfEmpty(Change(r.h, r.at, -liquidity, dNet), r.at)
-----------------------------------------------------------------------------
(* SetTicks reads ticks[0], so it panics on an empty slice.                  *)
Loaded(x, s) ==
  Rebound([x EXCEPT !.ticks = s.ticks, !.len = s.len, !.last = -1, !.valid = {}])

SetTicks(s) ==
  /\ call' = <<"SetTicks", s>>
  /\ h' = IF s.len > 0 THEN Loaded(h, s) ELSE [h EXCEPT !.ticks = s.ticks, !.len = 0]
  /\ reply' = IF s.len > 0 THEN Done ELSE Panic

(* The caller goes on with the copy.  Clone is CloneTicks on a new handler.  *)
Clone ==
  /\ h.len > 0
  /\ call' = <<"Clone">>
  /\ h' = Loaded(NewTicksHandler, h)
  /\ reply' = Done

UpdateTicksAfterMint(lower, upper, liquidity) ==
  /\ call' = <<"Mint", lower, upper, liquidity>>
  /\ h' = MintUpper(MintLower(h, lower, liquidity), upper, liquidity)
  /\ reply' = Done

(* The pointer tickWithSliceKey returns is nil for a missing tick. *)
UpdateTicksAfterBurn(lower, upper, liquidity) ==
  LET lo == TickWithSliceKey(h, lower)
      x == TakeFrom(h, lower, liquidity, -liquidity)
      up == TickWithSliceKey(x, upper)
  IN  /\ call' = <<"Burn", lower, upper, liquidity>>
      /\ \/ /\ ~lo.exist
            /\ h' = lo.h /\ reply' = Panic
         \/ /\ lo.exist /\ ~up.exist
            /\ h' = up.h /\ reply' = Panic
         \/ /\ lo.exist /\ up.exist
            /\ h' = TakeFrom(x, upper, liquidity, liquidity)
            /\ reply' = Done

Read(x, i) == IF i \in 0 .. x.len-1 THEN TickReply(x.ticks[i]) ELSE Panic

GetTick(t) ==
  LET i == BinarySearch(h, t)
      hinted == h.last >= 0
  IN  /\ call' = <<"GetTick", t>>
      /\ reply' = CASE hinted /\ h.last >= h.len -> Panic
                    [] hinted /\ h.last < h.len /\ h.ticks[h.last].index = t -> Read(h, h.last)
                    [] h.len = 0 -> Panic
                    [] OTHER -> IF h.ticks[i].index = t THEN Read(h, i)
                                ELSE Error("ErrTickNotFound")
      /\ UNCHANGED h

(* The hints of NextInitializedTickIndex: the neighbour of the last result   *)
(* is taken without a search when it and the last result enclose t.          *)
HintBelow(x, t) ==
  /\ x.last - 1 >= 0
  /\ x.ticks[x.last - 1].index <= t
  /\ x.ticks[x.last].index > t

HintAboveUnchecked(x, t) ==                                         \* mutant
  /\ x.last >= 0 /\ x.last + 1 < x.len
  /\ x.ticks[x.last + 1].index > t
HintAbove(x, t) ==
  /\ x.last >= 0 /\ x.last + 1 < x.len
  /\ x.ticks[x.last].index <= t
  /\ x.ticks[x.last + 1].index > t

(* HintBelow reads up to Ticks[lastResultIdx] without a bounds test. *)
HintBelowPanics(x, t) ==
  LET hint == x.last - 1
  IN  \/ hint >= x.len
      \/ hint >= 0 /\ x.ticks[hint].index <= t /\ x.last >= x.len

Moved(i) ==
  /\ h' = [h EXCEPT !.last = i]
  /\ reply' = IF i \in 0 .. h.len-1 THEN NextReply(h.ticks[i]) ELSE Panic

NextAtOrBelow(t) ==
  /\ call' = <<"NextAtOrBelow", t>>
  /\ \/ /\ IsBelowSmallest(h, t)
        /\ reply' = Error("ErrBelowSmallest") /\ UNCHANGED h
     \/ /\ ~IsBelowSmallest(h, t) /\ IsAtOrAboveLargest(h, t)
        /\ Moved(h.len - 1)
     \/ /\ ~IsBelowSmallest(h, t) /\ ~IsAtOrAboveLargest(h, t)
        /\ IF HintBelowPanics(h, t) THEN reply' = Panic /\ UNCHANGED h
           ELSE Moved(IF HintBelow(h, t) THEN h.last - 1 ELSE BinarySearch(h, t))

NextAbove(t) ==
  /\ call' = <<"NextAbove", t>>
  /\ \/ /\ IsAtOrAboveLargest(h, t)
        /\ reply' = Error("ErrAtOrAboveLargest") /\ UNCHANGED h
     \/ /\ ~IsAtOrAboveLargest(h, t) /\ IsBelowSmallest(h, t)
        /\ Moved(0)
     \/ /\ ~IsAtOrAboveLargest(h, t) /\ ~IsBelowSmallest(h, t)
        /\ Moved(IF HintAbove(h, t) THEN h.last + 1 ELSE BinarySearch(h, t) + 1)
-----------------------------------------------------------------------------
(* Calls.  A burn takes no more than what is there on both of its ticks,     *)
(* and liquidity is minted up to the bound.                                  *)
GrossAt(x, t) ==
  IF \E k \in 0 .. x.len-1 : x.ticks[k].index = t
  THEN x.ticks[CHOOSE k \in 0 .. x.len-1 : x.ticks[k].index = t].gross ELSE 0
NetAt(x, t) ==
  IF \E k \in 0 .. x.len-1 : x.ticks[k].index = t
  THEN x.ticks[CHOOSE k \in 0 .. x.len-1 : x.ticks[k].index = t].net ELSE 0
Listed(x) == {x.ticks[k].index : k \in 0 .. x.len-1}

MayMint(t, liquidity) == liquidity > 0 /\ GrossAt(h, t) + liquidity <= MaxGross
MayBurn(t, liquidity) == t \in Listed(h) /\ liquidity <= GrossAt(h, t)

Mint ==
  \E lower, upper \in TickIndex, liquidity \in Liquidity :
    /\ lower < upper
    /\ MayMint(lower, liquidity) /\ MayMint(upper, liquidity)
    /\ UpdateTicksAfterMint(lower, upper, liquidity)

Burn ==
  \E lower, upper \in TickIndex, liquidity \in Liquidity :
    /\ lower < upper
    /\ MayBurn(lower, liquidity) /\ MayBurn(upper, liquidity)
    /\ UpdateTicksAfterBurn(lower, upper, liquidity)

Query == \E t \in TickIndex : GetTick(t) \/ NextAtOrBelow(t) \/ NextAbove(t)

Init == h = NewTicksHandler /\ call = <<"NewTicksHandler">> /\ reply = Done

(* The life of a handler that is loaded before it is used and never runs     *)
(* out of ticks: the only one in which its bounds are exact.                 *)
Next ==
  \/ \E s \in Snapshots : SetTicks(s)
  \/ Clone
  \/ h.len > 0 /\ Mint
  \/ Burn /\ h'.len > 0
  \/ h.len > 0 /\ Query

Spec == Init /\ [][Next]_vars
-----------------------------------------------------------------------------
TypeOK ==
  /\ h.len \in Nat
  /\ h \in Handler(h.len)
  /\ reply.kind \in {"done", "error", "panic", "tick", "next"}

(* The slice is strictly ordered and holds no tick without liquidity: what   *)
(* both searches and the pool's walk from tick to tick rely on.              *)
ListInOrder ==
  /\ StrictlySorted(IndexOf(h.ticks, h.len), h.len)
  /\ \A k \in 0 .. h.len-1 : ~IsEmpty(h.ticks[k])

(* SmallestTickIdx and LargestTickIdx are those of the slice.  They decide   *)
(* which queries never reach the slice at all.                               *)
BoundsExact ==
  h.len > 0 => /\ h.smallest = h.ticks[0].index
               /\ h.largest = h.ticks[h.len-1].index

(* lastResultIdx is an index of the slice or -1, "cache invalid", through    *)
(* every insertion and deletion: GetTick reads Ticks[lastResultIdx] without  *)
(* a bounds test.                                                            *)
HintInRange == h.len > 0 => h.last \in -1 .. h.len-1

(* A valid cache slot holds the slice index its tick really has, so that the *)
(* verification in tickWithSliceKey never has to refuse one.                 *)
CacheExact ==
  \A s \in h.valid : /\ h.cacheIdx[s] \in 0 .. h.len-1
                     /\ h.ticks[h.cacheIdx[s]].index = h.cacheTick[s]

(* A loaded handler never panics. *)
NeverPanics == reply # Panic

(* Seen through its calls, the handler is a book of liquidity per tick:      *)
(* every Mint and Burn is booked in full and on its own ticks, and no answer *)
(* of GetTick or NextInitializedTickIndex shows that it was found through a  *)
(* hint, a cache or a bound.                                                 *)
Book == INSTANCE TickBook WITH
  gross <- [t \in TickIndex |-> GrossAt(h, t)],
  net <- [t \in TickIndex |-> NetAt(h, t)]

IsTickBook == Book!Spec
=============================================================================
