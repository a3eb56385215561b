------------------------------ MODULE TickBook ------------------------------
(***************************************************************************)
(* What a tick handler promises: for every tick the gross and the net      *)
(* liquidity of the positions that start or end there, and four kinds of   *)
(* call that read or change them.  There is no list, no bound, no hint and *)
(* no cache here; TicksHandler implements this with all of them.           *)
(***************************************************************************)
EXTENDS Integers

CONSTANTS TickIndex,   \* the ticks that calls name
          Liquidity,   \* the amounts that Mint and Burn move
          Snapshots    \* the slices of ticks that SetTicks is called with

VARIABLES gross, net,  \* per tick; both 0 where no position starts or ends
          call, reply  \* the last call and what it returned

vars == <<gross, net, call, reply>>

Done == [kind |-> "done"]
Error(e) == [kind |-> "error", error |-> e]
TickReply(t, g, n) == [kind |-> "tick", index |-> t, gross |-> g, net |-> n]
NextReply(t, initialized) == [kind |-> "next", index |-> t, initialized |-> initialized]

Listed == {t \in TickIndex : gross[t] # 0 \/ net[t] # 0}
AtOrBelow(t) == {s \in Listed : s <= t}
Above(t) == {s \in Listed : s > t}

(* What a slice of ticks says of tick t. *)
Entries(s, t) == {k \in 0 .. s.len-1 : s.ticks[k].index = t}

SetTicks(s) ==
  /\ call' = <<"SetTicks", s>> /\ reply' = Done
  /\ \A t \in TickIndex :
       /\ Entries(s, t) = {} => gross'[t] = 0 /\ net'[t] = 0
       /\ \A k \in Entries(s, t) : gross'[t] = s.ticks[k].gross /\ net'[t] = s.ticks[k].net

Mint(lower, upper, liquidity) ==
  /\ call' = <<"Mint", lower, upper, liquidity>> /\ reply' = Done
  /\ gross' = [gross EXCEPT ![lower] = @ + liquidity, ![upper] = @ + liquidity]
  /\ net' = [net EXCEPT ![lower] = @ + liquidity, ![upper] = @ - liquidity]

Burn(lower, upper, liquidity) ==
  /\ {lower, upper} \subseteq Listed
  /\ call' = <<"Burn", lower, upper, liquidity>> /\ reply' = Done
  /\ gross' = [gross EXCEPT ![lower] = @ - liquidity, ![upper] = @ - liquidity]
  /\ net' = [net EXCEPT ![lower] = @ - liquidity, ![upper] = @ + liquidity]

Clone == call' = <<"Clone">> /\ reply' = Done /\ UNCHANGED <<gross, net>>

GetTick(t) ==
  /\ call' = <<"GetTick", t>>
  /\ reply' = IF t \in Listed THEN TickReply(t, gross[t], net[t])
              ELSE Error("ErrTickNotFound")
  /\ UNCHANGED <<gross, net>>

(* The nearest listed tick at or below t, or the nearest one above it. *)
NextAtOrBelow(t) ==
  /\ call' = <<"NextAtOrBelow", t>>
  /\ \/ AtOrBelow(t) = {} /\ reply' = Error("ErrBelowSmallest")
     \/ \E s \in AtOrBelow(t) : /\ \A r \in AtOrBelow(t) : r <= s
                                /\ reply' = NextReply(s, gross[s] # 0)
  /\ UNCHANGED <<gross, net>>

NextAbove(t) ==
  /\ call' = <<"NextAbove", t>>
  /\ \/ Above(t) = {} /\ reply' = Error("ErrAtOrAboveLargest")
     \/ \E s \in Above(t) : /\ \A r \in Above(t) : r >= s
                            /\ reply' = NextReply(s, gross[s] # 0)
  /\ UNCHANGED <<gross, net>>

Init ==
  /\ gross = [t \in TickIndex |-> 0]
  /\ net = [t \in TickIndex |-> 0]
  /\ call = <<"NewTicksHandler">> /\ reply = Done

Next ==
  \/ \E s \in Snapshots : SetTicks(s)
  \/ \E l, u \in TickIndex, x \in Liquidity :
       l < u /\ (Mint(l, u, x) \/ Burn(l, u, x))
  \/ Clone
  \/ \E t \in TickIndex : GetTick(t) \/ NextAtOrBelow(t) \/ NextAbove(t)

Spec == Init /\ [][Next]_vars
=============================================================================
