---------------------------- MODULE MCBestTrades ----------------------------
(* Two pools from A to B, two from B to C and one from A to C, asked for in  *)
(* every order; a list with a pool that cannot be quoted, and one with a     *)
(* pool twice.  For a longer way there are C to D and two pools from D to E. *)
EXTENDS BestTrades

MCEnds ==
  [p \in Pool |->
     CASE p \in {"ab1", "ab2"} -> [token0 |-> "A", token1 |-> "B"]
       [] p \in {"bc1", "bc2", "bcx"} -> [token0 |-> "B", token1 |-> "C"]
       [] p = "ac" -> [token0 |-> "A", token1 |-> "C"]
       [] p = "cd" -> [token0 |-> "C", token1 |-> "D"]
       [] p \in {"de1", "de2"} -> [token0 |-> "D", token1 |-> "E"]]
MCFailing == {"bcx"}

(* Rounded prices; ab1 and ab2 give the same. *)
Price(p) ==
  CASE p \in {"ab1", "ab2"} -> 9 [] p = "bc1" -> 8 [] p = "bc2" -> 10 [] p = "ac" -> 9
    [] p = "de1" -> 7 [] OTHER -> 10
MCOutputAmount(p, t, a) == (a * Price(p)) \div 10
MCInputAmount(p, t, a) == (a * 10 + Price(p) - 1) \div Price(p)

Ask(exactIn, pools, output, n, hops) ==
  [exactIn |-> exactIn, pools |-> pools, input |-> "A", output |-> output, amount |-> 100,
   maxNumResults |-> n, maxHops |-> hops]

Orders == SetToSeqs({"ab1", "ab2", "bc1", "bc2", "ac"})
FourHops == <<"ab1", "bc2", "cd", "de1", "de2", "ab2">>
MCRequests ==
  {Ask(exactIn, pools, "C", n, hops) :
     exactIn \in BOOLEAN, pools \in Orders, n \in 1 .. 3, hops \in 1 .. 3}
  \cup {Ask(exactIn, pools, "C", n, hops) :
     exactIn \in BOOLEAN,
     pools \in {<<>>, <<"ab1", "ac">>, <<"ac", "ab1", "bcx">>, <<"ab1", "ab1", "bc1">>, <<"ab1", "bc1", "ab1", "ac", "ab2">>},
     n \in -1 .. 2, hops \in -1 .. 3}
  \cup {Ask(FALSE, FourHops, "E", 3, 4)}

LongWay == {Ask(TRUE, FourHops, "E", 3, 4)}
=============================================================================
