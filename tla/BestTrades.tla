----------------------------- MODULE BestTrades -----------------------------
(***************************************************************************)
(* entities/trade.go: the search of BestTradeExactIn and BestTradeExactOut *)
(* for the best routes through a list of pools, with the routes it makes   *)
(* of them (entities/route.go).  The recursion is a stack of frames.  What *)
(* is special about it is that a Go slice is an array, a length and a      *)
(* capacity: append writes into the array while there is room, also when   *)
(* other slices share it.                                                  *)
(***************************************************************************)
EXTENDS Integers, FiniteSets, SequencesExt

CONSTANTS Token, Pool, NoPool,
          Ends,                 \* the tokens of a pool: [Pool -> [token0, token1]]
          Failing,              \* pools whose swap returns an error
          OutputAmount(_, _, _),   \* of pool, token and amount in
          InputAmount(_, _, _),    \* of pool, token and amount out
          Requests

(* Pools of one address are one element of Pool. *)
Request == [exactIn : BOOLEAN, pools : Seq(Pool), input : Token, output : Token,
            amount : Nat, maxNumResults : Int, maxHops : Int]

ASSUME PoolAssumption ==
  /\ Ends \in [Pool -> [token0 : Token, token1 : Token]]
  /\ \A p \in Pool : Ends[p].token0 # Ends[p].token1
  /\ Failing \subseteq Pool
  /\ Requests \subseteq Request

VARIABLES request,
          arrays,       \* the arrays that slices of pools point into
          frames,       \* the calls of the search, the innermost last
          bestTrades,
          status, err

vars == <<request, arrays, frames, bestTrades, status, err>>
-----------------------------------------------------------------------------
InvolvesToken(p, t) == t \in {Ends[p].token0, Ends[p].token1}
Other(p, t) == IF t = Ends[p].token0 THEN Ends[p].token1 ELSE Ends[p].token0

(* The search goes from the token whose amount is given to the other. *)
From == IF request.exactIn THEN request.input ELSE request.output
To == IF request.exactIn THEN request.output ELSE request.input
Quote(p, t, a) == IF request.exactIn THEN OutputAmount(p, t, a) ELSE InputAmount(p, t, a)

(* FromRoute: the pools quoted one after the other, from the given amount. *)
RouteAmount(pools) ==
  LET quoted(at, p) == [token |-> Other(p, at.token), amount |-> Quote(p, at.token, at.amount)]
      inOrder == IF request.exactIn THEN pools ELSE Reverse(pools)
  IN  FoldLeft(quoted, [token |-> From, amount |-> request.amount], inOrder).amount
-----------------------------------------------------------------------------
Nil == [array |-> 0, len |-> 0]
Cap(slice) == IF slice.array = 0 THEN 0 ELSE Len(arrays[slice.array])
Contents(slice) == IF slice.len = 0 THEN <<>> ELSE SubSeq(arrays[slice.array], 1, slice.len)

GrownWithSpare(cap) == cap + 3                                      \* mutant
Grown(cap) == IF cap = 0 THEN 1 ELSE 2 * cap

(* append(slice, p): the new slice and the arrays. *)
Append1(slice, p) ==
  IF slice.len < Cap(slice)
  THEN [slice |-> [slice EXCEPT !.len = @ + 1],
        arrays |-> [arrays EXCEPT ![slice.array][slice.len + 1] = p]]
  ELSE LET free == [k \in 1 .. Grown(Cap(slice)) - slice.len - 1 |-> NoPool]
       IN  [slice |-> [array |-> Len(arrays) + 1, len |-> slice.len + 1],
            arrays |-> Append(arrays, Contents(slice) \o <<p>> \o free)]

(* append([]*Pool{p}, slice...): always an array of its own. *)
Prepend1(slice, p) ==
  [slice |-> [array |-> Len(arrays) + 1, len |-> slice.len + 1],
   arrays |-> Append(arrays, <<p>> \o Contents(slice))]

Extended(slice, p) == IF request.exactIn THEN Append1(slice, p) ELSE Prepend1(slice, p)
-----------------------------------------------------------------------------
(* A trade: its route's pools and token path, and its amounts. *)
TradeOf(slice, pools) ==
  [route |-> slice, hops |-> Len(pools) + 1,
   input |-> IF request.exactIn THEN request.amount ELSE RouteAmount(pools),
   output |-> IF request.exactIn THEN RouteAmount(pools) ELSE request.amount]

tradeComparatorManyHops(a, b) ==                                    \* mutant
  CASE a.output = b.output /\ a.input = b.input -> b.hops - a.hops
    [] a.output = b.output /\ a.input # b.input -> IF a.input < b.input THEN -1 ELSE 1
    [] OTHER -> IF a.output < b.output THEN 1 ELSE -1
tradeComparator(a, b) ==
  CASE a.output = b.output /\ a.input = b.input -> a.hops - b.hops
    [] a.output = b.output /\ a.input # b.input -> IF a.input < b.input THEN -1 ELSE 1
    [] OTHER -> IF a.output < b.output THEN 1 ELSE -1

(* Insert in order, and keep maxSize. *)
Inserted(items, add) ==
  LET after == {i \in DOMAIN items : tradeComparator(items[i], add) > 0}
      i == CHOOSE k \in after \cup {Len(items) + 1} : \A m \in after : k <= m
  IN  InsertAt(items, i, add)
sortedInsert(items, add, maxSize) ==
  IF Len(items) = maxSize /\ tradeComparator(items[maxSize], add) <= 0 THEN items
  ELSE SubSeq(Inserted(items, add), 1, IF Len(items) = maxSize THEN maxSize ELSE Len(items) + 1)

(* newTrade compares the number of pools with that of their addresses. *)
HasDuplicatesNever(pools) == FALSE                                  \* mutant
HasDuplicates(pools) == Cardinality(Range(pools)) # Len(pools)

ExcludingAfter(pools, i) == IF i = Len(pools) THEN pools ELSE RemoveAt(pools, i+1) \* mutant
Excluding(pools, i) == RemoveAt(pools, i)
-----------------------------------------------------------------------------
Frame(pools, current, token, amount, maxHops) ==
  [pools |-> pools, i |-> 1, current |-> current, token |-> token, amount |-> amount, maxHops |-> maxHops]

Top == Last(frames)
ThisPool == Top.pools[Top.i]
InLoop == status = "searching" /\ Top.i <= Len(Top.pools)
Quoted == InLoop /\ InvolvesToken(ThisPool, Top.token) /\ ThisPool \notin Failing
Arriving == Other(ThisPool, Top.token) = To
CanDescend == Top.maxHops > 1 /\ Len(Top.pools) > 1

Advanced(fs) == [fs EXCEPT ![Len(fs)].i = @ + 1]

(* Any error ends all calls; the trades found so far are not returned. *)
ReturnError(e) ==
  /\ err' = e /\ status' = "returned"
  /\ bestTrades' = <<>> /\ frames' = <<>>

Begin ==
  /\ status = "start"
  /\ \/ request.pools = <<>> /\ ReturnError("ErrNoPools")
     \/ request.pools # <<>> /\ request.maxHops <= 0 /\ ReturnError("ErrInvalidMaxHops")
     \/ /\ request.pools # <<>> /\ request.maxHops > 0
        /\ frames' = <<Frame(request.pools, Nil, From, request.amount, request.maxHops)>>
        /\ status' = "searching"
        /\ UNCHANGED <<bestTrades, err>>
  /\ UNCHANGED <<request, arrays>>

Skip ==
  /\ InLoop /\ ~InvolvesToken(ThisPool, Top.token)
  /\ frames' = Advanced(frames)
  /\ UNCHANGED <<request, arrays, bestTrades, status, err>>

FailToQuote ==
  /\ InLoop /\ InvolvesToken(ThisPool, Top.token) /\ ThisPool \in Failing
  /\ ReturnError("swap")
  /\ UNCHANGED <<request, arrays>>

Arrive ==
  /\ Quoted /\ Arriving
  /\ LET extended == Extended(Top.current, ThisPool)
         pools == SubSeq(extended.arrays[extended.slice.array], 1, extended.slice.len)
     IN  /\ arrays' = extended.arrays
         /\ \/ HasDuplicates(pools) /\ ReturnError("ErrDuplicatePools")
            \/ ~HasDuplicates(pools) /\ request.maxNumResults <= 0 /\ ReturnError("ErrInvalidMaxSize")
            \/ /\ ~HasDuplicates(pools) /\ request.maxNumResults > 0
               /\ bestTrades' = sortedInsert(bestTrades, TradeOf(extended.slice, pools), request.maxNumResults)
               /\ frames' = Advanced(frames)
               /\ UNCHANGED <<status, err>>
  /\ UNCHANGED request

Descend ==
  /\ Quoted /\ ~Arriving /\ CanDescend
  /\ LET extended == Extended(Top.current, ThisPool)
     IN  /\ arrays' = extended.arrays
         /\ frames' = Append(frames, Frame(Excluding(Top.pools, Top.i), extended.slice,
                                           Other(ThisPool, Top.token),
                                           Quote(ThisPool, Top.token, Top.amount), Top.maxHops - 1))
  /\ UNCHANGED <<request, bestTrades, status, err>>

DeadEnd ==
  /\ Quoted /\ ~Arriving /\ ~CanDescend
  /\ frames' = Advanced(frames)
  /\ UNCHANGED <<request, arrays, bestTrades, status, err>>

(* The innermost call returns, and its caller goes on with the next pool. *)
Leave ==
  /\ status = "searching" /\ Top.i > Len(Top.pools)
  /\ IF Len(frames) = 1 THEN frames' = <<>> /\ status' = "returned"
     ELSE frames' = Advanced(Front(frames)) /\ UNCHANGED status
  /\ UNCHANGED <<request, arrays, bestTrades, err>>

Init ==
  /\ request \in Requests
  /\ arrays = <<>> /\ frames = <<>> /\ bestTrades = <<>>
  /\ status = "start" /\ err = "nil"

Next == Begin \/ Skip \/ FailToQuote \/ Arrive \/ Descend \/ DeadEnd \/ Leave

Spec == Init /\ [][Next]_vars
-----------------------------------------------------------------------------
(* What a caller of the search would call a walk: different places in the    *)
(* list of pools, from the given token, that passes To only at its end.      *)
Walk(n) == {s \in [1 .. n -> DOMAIN request.pools] : IsInjective(s)}
TokenAfter(s) ==
  LET at[k \in 0 .. Len(s)] == IF k = 0 THEN From ELSE Other(request.pools[s[k]], at[k-1])
  IN  at
Follows(s) ==
  \A k \in 1 .. Len(s) :
    /\ InvolvesToken(request.pools[s[k]], TokenAfter(s)[k-1])
    /\ k < Len(s) => TokenAfter(s)[k] # To
Walks == {s \in UNION {Walk(n) : n \in 1 .. request.maxHops} : Follows(s)}
PoolsOf(s) == [k \in 1 .. Len(s) |-> request.pools[s[k]]]
RouteOf(s) == IF request.exactIn THEN PoolsOf(s) ELSE Reverse(PoolsOf(s))
Complete(s) == TokenAfter(s)[Len(s)] = To

Count(pools, p) == Cardinality({k \in DOMAIN pools : pools[k] = p})

(* Through every return, and every append of a call that has returned, each  *)
(* call of the search has before it the way it has come: its pools, its      *)
(* token and its amount.  The pools on the way are not in its list, and the  *)
(* hops left are those not made.                                             *)
PathIsTheWayHere ==
  \A k \in DOMAIN frames :
    LET way == [m \in 1 .. k-1 |-> frames[m].pools[frames[m].i]]
        path == IF request.exactIn THEN way ELSE Reverse(way)
        f == frames[k]
    IN  /\ Contents(f.current) = path
        /\ f.amount = RouteAmount(path)
        /\ \A p \in Pool : Count(way, p) + Count(f.pools, p) = Count(request.pools, p)
        /\ f.maxHops = request.maxHops - (k - 1)

(* A trade in the list of the best keeps the pools that give its amounts,    *)
(* whatever routes are extended after it was found.                          *)
RoutesKeepTheirPools ==
  \A k \in DOMAIN bestTrades :
    LET t == bestTrades[k]
        given == RouteAmount(Contents(t.route))
    IN  /\ t.hops = t.route.len + 1
        /\ IF request.exactIn THEN t.input = request.amount /\ t.output = given
           ELSE t.output = request.amount /\ t.input = given

(* The answer is made of the best trades there are: the k-th has fewer than  *)
(* k better ones, and no fewer than k as good.  More output is better, then  *)
(* less input, then fewer hops.                                              *)
Beats(a, b) ==
  \/ a.output > b.output
  \/ a.output = b.output /\ a.input < b.input
  \/ a.output = b.output /\ a.input = b.input /\ a.hops < b.hops
BestAreBest ==
  status = "returned" /\ err = "nil" =>
    LET routes == {s \in Walks : Complete(s)}
        offers == [s \in routes |-> TradeOf(Nil, RouteOf(s))]
        n == IF request.maxNumResults > 0 THEN request.maxNumResults ELSE 0
    IN  /\ Len(bestTrades) = IF Cardinality(routes) < n THEN Cardinality(routes) ELSE n
        /\ \A k \in DOMAIN bestTrades :
             /\ Cardinality({s \in routes : Beats(offers[s], bestTrades[k])}) < k
             /\ Cardinality({s \in routes : ~Beats(bestTrades[k], offers[s])}) >= k

(* The search fails if a pool within reach cannot be quoted, if a route goes *)
(* through a pool twice, or if the request is void; and only then.           *)
FailsForAReason ==
  status = "returned" =>
    (err # "nil") =
      \/ request.pools = <<>> \/ request.maxHops <= 0
      \/ \E s \in Walks :
           \/ request.pools[s[Len(s)]] \in Failing
           \/ Complete(s) /\ (request.maxNumResults <= 0 \/ ~IsInjective(PoolsOf(s)))
=============================================================================
