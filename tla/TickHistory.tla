---------------------------- MODULE TickHistory -----------------------------
(***************************************************************************)
(* A tick handler driven by a pool's history: mints and burns of positions *)
(* (a range of ticks and its liquidity), as a backtest replays them, with  *)
(* the queries of the swaps in between.  The pool contract lets a burn     *)
(* take no more than its position holds, and burning zero is how fees are  *)
(* poked, so a burn of 0 does reach the handler.                           *)
(***************************************************************************)
EXTENDS TicksHandler, FiniteSetsExt

CONSTANTS MaxPosition,   \* bound on the liquidity of one position
          SnapshotLedgers \* ledgers whose ticks a snapshot is taken of

VARIABLE positions       \* liquidity of every range of ticks

historyVars == <<h, call, reply, positions>>

Ranges == {r \in TickIndex \X TickIndex : r[1] < r[2]}
Ledger == [Ranges -> 0 .. MaxPosition]

ASSUME TickHistoryAssumption ==
  /\ IsFiniteSet(TickIndex)
  /\ MaxPosition \in Nat
  /\ SnapshotLedgers \subseteq Ledger

Total(f, S) == MapThenSumSet(LAMBDA x : f[x], S)

(* Liquidity of the positions that start or end at t, and what crossing t    *)
(* upwards adds to the liquidity in range.                                   *)
LedgerGross(p, t) == Total(p, {r \in Ranges : t \in {r[1], r[2]}})
LedgerNet(p, t) ==
  Total(p, {r \in Ranges : r[1] = t}) - Total(p, {r \in Ranges : r[2] = t})

(* Liquidity of the positions in range at t. *)
LedgerActive(p, t) == Total(p, {r \in Ranges : r[1] <= t /\ t < r[2]})

Initialized(p) == {t \in TickIndex : LedgerGross(p, t) > 0}

Rank(S, t) == Cardinality({s \in S : s < t})
NthOf(S, k) == CHOOSE t \in S : Rank(S, t) = k

(* The slice of ticks of a ledger, as a caller reads it from the chain. *)
LedgerTicks(p) ==
  LET n == Cardinality(Initialized(p))
      nth(k) == NthOf(Initialized(p), k)
  IN  [len |-> n,
       ticks |-> [k \in 0 .. n-1 |-> [index |-> nth(k),
                                      gross |-> LedgerGross(p, nth(k)),
                                      net |-> LedgerNet(p, nth(k))]]]

Load == \E p \in SnapshotLedgers : SetTicks(LedgerTicks(p)) /\ positions' = p

MintPosition ==
  \E r \in Ranges, x \in Liquidity \ {0} :
    /\ positions[r] + x <= MaxPosition
    /\ UpdateTicksAfterMint(r[1], r[2], x)
    /\ positions' = [positions EXCEPT ![r] = @ + x]

BurnPosition ==
  \E r \in Ranges, x \in Liquidity :
    /\ positions[r] > 0
    /\ x <= positions[r]
    /\ UpdateTicksAfterBurn(r[1], r[2], x)
    /\ positions' = [positions EXCEPT ![r] = @ - x]

CloneHandler == Clone /\ UNCHANGED positions

Ask == Query /\ UNCHANGED positions

HistoryInit == Init /\ positions = [r \in Ranges |-> 0]

(* Any history: a handler may be loaded or filled by mints alone, and the    *)
(* last position may be burnt.  A panic ends the program.                    *)
HistoryNext ==
  /\ reply # Panic
  /\ \/ Load
     \/ MintPosition
     \/ BurnPosition
     \/ CloneHandler
     \/ h.len > 0 /\ Ask

HistorySpec == HistoryInit /\ [][HistoryNext]_historyVars
-----------------------------------------------------------------------------
(* Every tick holds exactly the liquidity of the positions at it, and only   *)
(* ticks of some position are listed: no event is lost, doubled or booked on *)
(* a neighbour whatever the hint and the cache held when it was applied; so   *)
(* a legal burn finds both of its ticks, whose pointers it uses unchecked.   *)
BookMatchesLedger ==
  /\ Listed(h) = Initialized(positions)
  /\ \A k \in 0 .. h.len-1 :
       /\ h.ticks[k].gross = LedgerGross(positions, h.ticks[k].index)
       /\ h.ticks[k].net = LedgerNet(positions, h.ticks[k].index)

(* A pool that walks the slice, adding liquidityNet at every tick it         *)
(* crosses, has the liquidity of the positions in range wherever it stops,   *)
(* so never a negative one.                                                  *)
WalkGivesActiveLiquidity ==
  \A t \in TickIndex :
    Total([k \in 0 .. h.len-1 |-> h.ticks[k].net],
          {k \in 0 .. h.len-1 : h.ticks[k].index <= t})
      = LedgerActive(positions, t)
=============================================================================
