-------------------------- MODULE BestTradesProofs --------------------------
(***************************************************************************)
(* The slices of the search for the best trades: for every list of pools,  *)
(* every quote and every number of hops, each call of the search has the   *)
(* way it has come before it, although its callers and the calls that have *)
(* returned share arrays with it; while no array has room to spare the     *)
(* routes found keep their pools; and the search passes every walk there   *)
(* is, so that it answers with the best trades, or fails for a reason.     *)
(***************************************************************************)
EXTENDS BestTrades, SequenceTheorems, FiniteSetTheorems, FunctionTheorems, WellFoundedInduction, TLAPS

Slot == Pool \cup {NoPool}
Slice == [array : Nat, len : Nat]

(* Slices in the arrays of mem.                                              *)
IsMemory(mem) == mem \in Seq(Seq(Slot))
CapIn(s, mem) == IF s.array = 0 THEN 0 ELSE Len(mem[s.array])
IsSliceIn(s, mem) == s \in Slice /\ s.array <= Len(mem) /\ s.len <= CapIn(s, mem)
ContentsIn(s, mem) == IF s.len = 0 THEN <<>> ELSE SubSeq(mem[s.array], 1, s.len)

(* A slice and the pool that append or a literal put at its end or start.    *)
WithPool(pools, p) == IF request.exactIn THEN Append(pools, p) ELSE <<p>> \o pools
-----------------------------------------------------------------------------
(* Induction on natural numbers.                                             *)
LEMMA InductionOnNat ==
  ASSUME NEW T, 0 \in T, \A n \in Nat : n \in T => n+1 \in T
  PROVE  Nat \subseteq T
<1> DEFINE R == {ss \in Nat \X Nat : ss[1] < ss[2]}  B == Nat \ T
<1> SUFFICES ASSUME B # {} PROVE FALSE
  OBVIOUS
<1>1. IsWellFoundedOn(R, Nat)
  BY NatLessThanWellFounded DEF OpToRel
<1>2. PICK m \in B : \A y \in B : <<y, m>> \notin R
  BY <1>1, WFMin
<1>3. m \in Nat /\ m # 0
  OBVIOUS
<1>4. m - 1 \in Nat /\ (m - 1) + 1 = m /\ <<m - 1, m>> \in R
  BY <1>3
<1>5. m - 1 \in T
  BY <1>2, <1>4
<1> QED BY <1>4, <1>5

(* What a slice holds are pools or places kept free, as many as it is long.  *)
LEMMA ContentsFacts ==
  ASSUME NEW mem, IsMemory(mem), NEW s, IsSliceIn(s, mem)
  PROVE  /\ ContentsIn(s, mem) \in Seq(Slot) /\ Len(ContentsIn(s, mem)) = s.len
         /\ \A i \in 1 .. s.len : ContentsIn(s, mem)[i] = mem[s.array][i]
<1>1. s.array \in Nat /\ s.len \in Nat
  BY DEF IsSliceIn, Slice
<1>2. CASE s.len = 0
  BY <1>2 DEF ContentsIn
<1>3. CASE s.len # 0
  <2>1. s.array \in 1 .. Len(mem) /\ s.len <= Len(mem[s.array])
    BY <1>1, <1>3 DEF IsSliceIn, CapIn
  <2>2. mem[s.array] \in Seq(Slot)
    BY <2>1, ElementOfSeq DEF IsMemory
  <2>3. \A i \in 1 .. s.len : mem[s.array][i] \in Slot
    BY <1>1, <2>1, <2>2, ElementOfSeq, LenProperties
  <2>4. /\ SubSeq(mem[s.array], 1, s.len) \in Seq(Slot)
        /\ Len(SubSeq(mem[s.array], 1, s.len)) = s.len
        /\ \A i \in 1 .. s.len : SubSeq(mem[s.array], 1, s.len)[i] = mem[s.array][i]
    BY <1>1, <1>3, <2>3, SubSeqProperties
  <2> QED BY <1>3, <2>4 DEF ContentsIn
<1> QED BY <1>2, <1>3

(* A slice keeps its contents while the slots below its length do.           *)
LEMMA ContentsStay ==
  ASSUME NEW mem, IsMemory(mem), NEW new, IsMemory(new), NEW s, IsSliceIn(s, mem),
         Len(mem) <= Len(new),
         s.array \in 1 .. Len(mem) =>
           /\ Len(new[s.array]) >= Len(mem[s.array])
           /\ \A i \in 1 .. s.len : new[s.array][i] = mem[s.array][i]
  PROVE  IsSliceIn(s, new) /\ ContentsIn(s, new) = ContentsIn(s, mem)
<1>1. s.array \in Nat /\ s.len \in Nat /\ s.array <= Len(mem) /\ s.len <= CapIn(s, mem) /\ s \in Slice
  BY DEF IsSliceIn, Slice
<1>2. Len(mem) \in Nat /\ Len(new) \in Nat
  BY LenProperties DEF IsMemory
<1>3. IsSliceIn(s, new)
  <2>1. CASE s.array = 0
    BY <1>1, <1>2, <2>1 DEF IsSliceIn, CapIn
  <2>2. CASE s.array # 0
    <3>1. s.array \in 1 .. Len(mem) /\ s.array \in 1 .. Len(new)
      BY <1>1, <1>2, <2>2
    <3>2. Len(mem[s.array]) \in Nat /\ Len(new[s.array]) \in Nat
      BY <3>1, ElementOfSeq, LenProperties DEF IsMemory
    <3> QED BY <1>1, <1>2, <2>2, <3>1, <3>2 DEF IsSliceIn, CapIn
  <2> QED BY <2>1, <2>2
<1>4. /\ ContentsIn(s, mem) \in Seq(Slot) /\ Len(ContentsIn(s, mem)) = s.len
      /\ ContentsIn(s, new) \in Seq(Slot) /\ Len(ContentsIn(s, new)) = s.len
      /\ \A i \in 1 .. s.len : /\ ContentsIn(s, mem)[i] = mem[s.array][i]
                               /\ ContentsIn(s, new)[i] = new[s.array][i]
  BY <1>3, ContentsFacts
<1>5. \A i \in 1 .. s.len : new[s.array][i] = mem[s.array][i]
  BY <1>1 DEF CapIn
<1> QED BY <1>3, <1>4, <1>5, SeqEqual
-----------------------------------------------------------------------------
StartState == [token |-> From, amount |-> request.amount]
QuotedAt(at, p) == [token |-> Other(p, at.token), amount |-> Quote(p, at.token, at.amount)]
IsRouteFold(g, pools, D) ==
  g = [s \in D |-> IF s = {} THEN StartState ELSE QuotedAt(g[s \ {Max(s)}], pools[Max(s)])]

(* FromRoute's fold over the pools of a route, as the library defines it.    *)
LEMMA RouteAmountIsFold ==
  ASSUME NEW pools
  PROVE  LET inOrder == IF request.exactIn THEN pools ELSE Reverse(pools)
         IN  RouteAmount(pools)
               = (CHOOSE g : IsRouteFold(g, inOrder, SUBSET DOMAIN inOrder))[DOMAIN inOrder].amount
BY DEF RouteAmount, FoldLeft, MapThenFoldSet, IsRouteFold, StartState, QuotedAt
-----------------------------------------------------------------------------
(* A new array leaves all others as they are.                                *)
LEMMA NewArray ==
  ASSUME IsMemory(arrays), NEW body \in Seq(Slot), NEW l \in 1 .. Len(body)
  PROVE  LET new == Append(arrays, body)
             made == [array |-> Len(arrays) + 1, len |-> l]
         IN  /\ IsMemory(new) /\ Len(arrays) <= Len(new)
             /\ IsSliceIn(made, new) /\ ContentsIn(made, new) = SubSeq(body, 1, l)
             /\ Len(new[made.array]) = Len(body)
             /\ \A i \in 1 .. Len(arrays) : new[i] = arrays[i]
<1> DEFINE new == Append(arrays, body)  made == [array |-> Len(arrays) + 1, len |-> l]  n == Len(arrays)
<1>1. n \in Nat /\ Len(body) \in Nat /\ l \in Nat /\ l > 0
  BY LenProperties DEF IsMemory
<1>2. /\ IsMemory(new) /\ Len(new) = n + 1 /\ new[n + 1] = body
      /\ \A i \in 1 .. n : new[i] = arrays[i]
  BY AppendProperties DEF IsMemory
<1>3. made.array = n + 1 /\ made.len = l /\ made \in Slice
  BY <1>1 DEF Slice
<1> HIDE DEF new, made, n
<1>4. IsSliceIn(made, new) /\ Len(new[made.array]) = Len(body)
  BY <1>1, <1>2, <1>3 DEF IsSliceIn, CapIn
<1>5. ContentsIn(made, new) = SubSeq(body, 1, l)
  BY <1>1, <1>2, <1>3 DEF ContentsIn
<1> QED BY <1>1, <1>2, <1>4, <1>5 DEF new, made, n

(* What append does in its array when there is room, and what it makes when  *)
(* there is none: an array with room for as many again.                      *)
LEMMA AppendFacts ==
  ASSUME IsMemory(arrays), NEW slice, IsSliceIn(slice, arrays), NEW p \in Pool
  PROVE  LET e == Append1(slice, p)
         IN  /\ IsMemory(e.arrays) /\ Len(arrays) <= Len(e.arrays)
             /\ IsSliceIn(e.slice, e.arrays) /\ e.slice.len = slice.len + 1
             /\ ContentsIn(e.slice, e.arrays) = Append(ContentsIn(slice, arrays), p)
             /\ \A i \in 1 .. Len(arrays) :
                  /\ Len(e.arrays[i]) = Len(arrays[i])
                  /\ \A j \in 1 .. slice.len : e.arrays[i][j] = arrays[i][j]
             /\ slice.len >= Cap(slice) =>
                  /\ \A i \in 1 .. Len(arrays) : e.arrays[i] = arrays[i]
                  /\ Len(e.arrays[e.slice.array]) = Grown(Cap(slice))
<1> DEFINE e == Append1(slice, p)  c == ContentsIn(slice, arrays)  cap == Cap(slice)  l == slice.len
<1>1. /\ cap = CapIn(slice, arrays) /\ c = Contents(slice)
      /\ l \in Nat /\ l <= cap /\ slice.array \in Nat /\ slice.array <= Len(arrays) /\ slice \in Slice
  BY DEF Cap, CapIn, Contents, ContentsIn, IsSliceIn, Slice
<1>2. Len(arrays) \in Nat /\ cap \in Nat /\ \A i \in 1 .. Len(arrays) : arrays[i] \in Seq(Slot) /\ Len(arrays[i]) \in Nat
  <2>1. Len(arrays) \in Nat /\ \A i \in 1 .. Len(arrays) : arrays[i] \in Seq(Slot) /\ Len(arrays[i]) \in Nat
    BY ElementOfSeq, LenProperties DEF IsMemory
  <2>2. slice.array # 0 => slice.array \in 1 .. Len(arrays)
    BY <1>1, <2>1
  <2> QED BY <1>1, <2>1, <2>2 DEF CapIn
<1>3. c \in Seq(Slot) /\ Len(c) = l /\ p \in Slot
  BY ContentsFacts DEF Slot
<1> HIDE DEF c
<1>4. CASE l < cap
  <2> DEFINE a == slice.array  new == [arrays EXCEPT ![a][l + 1] = p]  made == [slice EXCEPT !.len = @ + 1]
             body == [arrays[a] EXCEPT ![l + 1] = p]
  <2>1. e.slice = made /\ e.arrays = new
    BY <1>4 DEF Append1
  <2>2. a \in 1 .. Len(arrays) /\ l + 1 \in 1 .. Len(arrays[a]) /\ cap = Len(arrays[a]) /\ arrays[a] \in Seq(Slot)
    <3>1. a # 0
      BY <1>1, <1>4 DEF CapIn
    <3>2. a \in 1 .. Len(arrays) /\ cap = Len(arrays[a])
      BY <1>1, <1>2, <3>1 DEF CapIn
    <3> QED BY <1>1, <1>2, <1>4, <3>2
  <2>3. /\ body \in Seq(Slot) /\ Len(body) = Len(arrays[a])
        /\ \A j \in 1 .. Len(arrays[a]) : body[j] = IF j = l + 1 THEN p ELSE arrays[a][j]
    BY <1>3, <2>2, ExceptSeq
  <2>4. /\ new = [arrays EXCEPT ![a] = body]
        /\ IsMemory(new) /\ Len(new) = Len(arrays)
        /\ \A i \in 1 .. Len(arrays) : new[i] = IF i = a THEN body ELSE arrays[i]
    <3>1. new = [arrays EXCEPT ![a] = body]
      OBVIOUS
    <3> HIDE DEF new, body
    <3> QED BY <2>2, <2>3, <3>1, ExceptSeq DEF IsMemory
  <2>5. made.array = a /\ made.len = l + 1 /\ made \in Slice
    BY <1>1 DEF Slice
  <2> HIDE DEF new, made, body, a
  <2>6. IsSliceIn(made, new)
    BY <1>1, <1>2, <2>2, <2>3, <2>4, <2>5 DEF IsSliceIn, CapIn
  <2>7. ContentsIn(made, new) = Append(c, p)
    <3>1. /\ ContentsIn(made, new) \in Seq(Slot) /\ Len(ContentsIn(made, new)) = l + 1
          /\ \A i \in 1 .. l + 1 : ContentsIn(made, new)[i] = body[i]
      <4>1. new[made.array] = body
        BY <2>2, <2>4, <2>5
      <4>2. /\ ContentsIn(made, new) \in Seq(Slot) /\ Len(ContentsIn(made, new)) = made.len
            /\ \A i \in 1 .. made.len : ContentsIn(made, new)[i] = new[made.array][i]
        <5>1. IsMemory(new) /\ IsSliceIn(made, new)
          BY <2>4, <2>6
        <5> QED BY <5>1, ContentsFacts
      <4> QED BY <2>5, <4>1, <4>2
    <3>2. /\ Append(c, p) \in Seq(Slot) /\ Len(Append(c, p)) = l + 1
          /\ \A i \in 1 .. l : Append(c, p)[i] = c[i]
          /\ Append(c, p)[l + 1] = p
      BY <1>3, AppendProperties
    <3>3. \A i \in 1 .. l : c[i] = arrays[a][i]
      BY ContentsFacts DEF c, a
    <3>4. \A i \in 1 .. l + 1 : ContentsIn(made, new)[i] = Append(c, p)[i]
      <4> SUFFICES ASSUME NEW i \in 1 .. l + 1 PROVE ContentsIn(made, new)[i] = Append(c, p)[i]
        OBVIOUS
      <4>1. CASE i = l + 1
        BY <2>2, <2>3, <3>1, <3>2, <4>1
      <4>2. CASE i # l + 1
        <5>1. i \in 1 .. l /\ i \in 1 .. Len(arrays[a])
          BY <1>1, <1>2, <2>2, <4>2
        <5> QED BY <2>3, <3>1, <3>2, <3>3, <4>2, <5>1
      <4> QED BY <4>1, <4>2
    <3> QED BY <3>1, <3>2, <3>4, SeqEqual
  <2>8. \A i \in 1 .. Len(arrays) : /\ Len(new[i]) = Len(arrays[i])
                                    /\ \A j \in 1 .. l : new[i][j] = arrays[i][j]
    <3> SUFFICES ASSUME NEW i \in 1 .. Len(arrays)
                 PROVE  Len(new[i]) = Len(arrays[i]) /\ \A j \in 1 .. l : new[i][j] = arrays[i][j]
      OBVIOUS
    <3>1. CASE i = a
      <4>1. \A j \in 1 .. l : j # l + 1 /\ j \in 1 .. Len(arrays[a])
        BY <1>1, <1>2, <2>2
      <4> QED BY <2>3, <2>4, <3>1, <4>1
    <3>2. CASE i # a
      BY <2>4, <3>2
    <3> QED BY <3>1, <3>2
  <2>9. ~(l >= cap) /\ Len(arrays) <= Len(new)
    BY <1>1, <1>2, <1>4, <2>4
  <2>10. made.len = slice.len + 1
    BY <2>5
  <2> HIDE DEF e, l, cap
  <2>11. /\ IsMemory(e.arrays) /\ Len(arrays) <= Len(e.arrays)
         /\ IsSliceIn(e.slice, e.arrays) /\ e.slice.len = slice.len + 1
         /\ ContentsIn(e.slice, e.arrays) = Append(c, p)
         /\ ~(l >= cap)
         /\ \A i \in 1 .. Len(arrays) : /\ Len(e.arrays[i]) = Len(arrays[i])
                                       /\ \A j \in 1 .. l : e.arrays[i][j] = arrays[i][j]
    BY <2>1, <2>4, <2>6, <2>7, <2>8, <2>9, <2>10
  <2> QED BY <2>11 DEF e, c, l, cap
<1>5. CASE ~(l < cap)
  <2> DEFINE room == Grown(cap) - l - 1  free == [k \in 1 .. room |-> NoPool]
             body == c \o <<p>> \o free
  <2>1. e.slice = [array |-> Len(arrays) + 1, len |-> l + 1] /\ e.arrays = Append(arrays, body)
    BY <1>1, <1>5 DEF Append1
  <2>2. room \in Nat /\ l + 1 + room = Grown(cap)
    BY <1>1, <1>2, <1>5 DEF Grown
  <2>3. free \in Seq(Slot) /\ Len(free) = room
    BY <2>2 DEF Slot
  <2>4. <<p>> \in Seq(Slot) /\ Len(<<p>>) = 1 /\ <<p>>[1] = p
    BY <1>3
  <2> HIDE DEF free, room
  <2>5. /\ c \o <<p>> \in Seq(Slot) /\ Len(c \o <<p>>) = l + 1
        /\ c \o <<p>> = Append(c, p)
    BY <1>3, <2>4, ConcatProperties, AppendIsConcat
  <2>6. /\ body \in Seq(Slot) /\ Len(body) = Grown(cap)
        /\ \A i \in 1 .. l + 1 : body[i] = (c \o <<p>>)[i]
    <3>1. /\ (c \o <<p>>) \o free \in Seq(Slot) /\ Len((c \o <<p>>) \o free) = l + 1 + room
          /\ \A i \in 1 .. l + 1 + room : ((c \o <<p>>) \o free)[i] =
               IF i <= l + 1 THEN (c \o <<p>>)[i] ELSE free[i - (l + 1)]
      <4> DEFINE b == c \o <<p>>
      <4>1. b \in Seq(Slot) /\ Len(b) = l + 1
        BY <2>5
      <4> HIDE DEF b
      <4>2. /\ b \o free \in Seq(Slot) /\ Len(b \o free) = Len(b) + Len(free)
            /\ \A i \in 1 .. Len(b) + Len(free) : (b \o free)[i] =
                 IF i <= Len(b) THEN b[i] ELSE free[i - Len(b)]
        BY <2>3, <4>1, ConcatProperties
      <4>3. Len(b) + Len(free) = l + 1 + room
        BY <2>3, <4>1
      <4> QED BY <4>1, <4>2, <4>3 DEF b
    <3>2. \A i \in 1 .. l + 1 : i \in 1 .. l + 1 + room /\ i <= l + 1
      BY <1>1, <2>2
    <3>3. body = (c \o <<p>>) \o free
      OBVIOUS
    <3> HIDE DEF body
    <3> QED BY <2>2, <3>1, <3>2, <3>3
  <2> HIDE DEF body
  <2>7. l + 1 \in 1 .. Len(body)
    BY <1>1, <2>2, <2>6
  <2>8. /\ IsMemory(e.arrays) /\ Len(arrays) <= Len(e.arrays)
        /\ IsSliceIn(e.slice, e.arrays) /\ ContentsIn(e.slice, e.arrays) = SubSeq(body, 1, l + 1)
        /\ Len(e.arrays[e.slice.array]) = Len(body)
        /\ \A i \in 1 .. Len(arrays) : e.arrays[i] = arrays[i]
    BY <2>1, <2>6, <2>7, NewArray
  <2>9. SubSeq(body, 1, l + 1) = Append(c, p)
    <3>1. \A i \in 1 .. l + 1 : body[i] \in Slot
      BY <2>6, <2>7, ElementOfSeq, LenProperties
    <3>2. /\ SubSeq(body, 1, l + 1) \in Seq(Slot) /\ Len(SubSeq(body, 1, l + 1)) = l + 1
          /\ \A i \in 1 .. l + 1 : SubSeq(body, 1, l + 1)[i] = body[i]
      BY <1>1, <3>1, SubSeqProperties
    <3> QED BY <2>5, <2>6, <3>2, SeqEqual
  <2>10. e.slice.len = l + 1
    BY <2>1
  <2> HIDE DEF e
  <2> QED BY <2>6, <2>8, <2>9, <2>10 DEF e, c
<1> QED BY <1>4, <1>5

(* One step of the way: the slice handed on is one longer and ends or starts *)
(* with the pool, and no slice that is not longer changes.                   *)
LEMMA ExtendedFacts ==
  ASSUME IsMemory(arrays), NEW slice, IsSliceIn(slice, arrays), NEW p \in Pool
  PROVE  LET e == Extended(slice, p)
         IN  /\ IsMemory(e.arrays) /\ Len(arrays) <= Len(e.arrays)
             /\ IsSliceIn(e.slice, e.arrays) /\ e.slice.len = slice.len + 1
             /\ ContentsIn(e.slice, e.arrays) = WithPool(ContentsIn(slice, arrays), p)
             /\ \A s : IsSliceIn(s, arrays) /\ s.len <= slice.len =>
                  IsSliceIn(s, e.arrays) /\ ContentsIn(s, e.arrays) = ContentsIn(s, arrays)
             /\ ~request.exactIn \/ slice.len >= Cap(slice) =>
                  \A i \in 1 .. Len(arrays) : e.arrays[i] = arrays[i]
             /\ request.exactIn /\ slice.len >= Cap(slice) =>
                  Len(e.arrays[e.slice.array]) = Grown(Cap(slice))
<1> DEFINE e == Extended(slice, p)  c == ContentsIn(slice, arrays)
<1>1. slice.len \in Nat
  BY DEF IsSliceIn, Slice
<1>2. \A i \in 1 .. Len(arrays) : Len(arrays[i]) \in Nat
  BY ElementOfSeq, LenProperties DEF IsMemory
<1>3. CASE request.exactIn
  <2>1. e = Append1(slice, p) /\ WithPool(c, p) = Append(c, p)
    BY <1>3 DEF Extended, WithPool
  <2> HIDE DEF e, c
  <2>2. /\ IsMemory(e.arrays) /\ Len(arrays) <= Len(e.arrays)
        /\ IsSliceIn(e.slice, e.arrays) /\ e.slice.len = slice.len + 1
        /\ ContentsIn(e.slice, e.arrays) = Append(c, p)
        /\ \A i \in 1 .. Len(arrays) :
             /\ Len(e.arrays[i]) = Len(arrays[i])
             /\ \A j \in 1 .. slice.len : e.arrays[i][j] = arrays[i][j]
        /\ slice.len >= Cap(slice) =>
             /\ \A i \in 1 .. Len(arrays) : e.arrays[i] = arrays[i]
             /\ Len(e.arrays[e.slice.array]) = Grown(Cap(slice))
    BY <2>1, AppendFacts DEF c
  <2>3. ASSUME NEW s, IsSliceIn(s, arrays), s.len <= slice.len
        PROVE  IsSliceIn(s, e.arrays) /\ ContentsIn(s, e.arrays) = ContentsIn(s, arrays)
    <3>1. s.len \in Nat
      BY <2>3 DEF IsSliceIn, Slice
    <3>2. s.array \in 1 .. Len(arrays) =>
            /\ Len(e.arrays[s.array]) >= Len(arrays[s.array])
            /\ \A i \in 1 .. s.len : e.arrays[s.array][i] = arrays[s.array][i]
      <4> SUFFICES ASSUME s.array \in 1 .. Len(arrays)
                   PROVE  /\ Len(e.arrays[s.array]) >= Len(arrays[s.array])
                          /\ \A i \in 1 .. s.len : e.arrays[s.array][i] = arrays[s.array][i]
        OBVIOUS
      <4>1. Len(e.arrays[s.array]) >= Len(arrays[s.array])
        BY <1>2, <2>2
      <4>2. \A i \in 1 .. s.len : i \in 1 .. slice.len
        BY <1>1, <2>3, <3>1
      <4>3. \A i \in 1 .. s.len : e.arrays[s.array][i] = arrays[s.array][i]
        BY <2>2, <4>2
      <4> QED BY <4>1, <4>3
    <3> QED BY <2>2, <2>3, <3>2, ContentsStay
  <2> QED BY <1>3, <2>1, <2>2, <2>3 DEF e, c
<1>4. CASE ~request.exactIn
  <2> DEFINE body == <<p>> \o c
  <2>1. /\ e.slice = [array |-> Len(arrays) + 1, len |-> slice.len + 1]
        /\ e.arrays = Append(arrays, body) /\ WithPool(c, p) = body
    BY <1>4 DEF Extended, WithPool, Prepend1, Contents, ContentsIn
  <2>2. body \in Seq(Slot) /\ Len(body) = slice.len + 1
    <3>1. c \in Seq(Slot) /\ Len(c) = slice.len
      BY ContentsFacts
    <3>2. <<p>> \in Seq(Slot) /\ Len(<<p>>) = 1
      BY DEF Slot
    <3> HIDE DEF c
    <3> QED BY <1>1, <3>1, <3>2, ConcatProperties
  <2>3. e.slice.len = slice.len + 1
    BY <2>1
  <2> HIDE DEF e, c, body
  <2>4. slice.len + 1 \in 1 .. Len(body) /\ SubSeq(body, 1, slice.len + 1) = body
    BY <1>1, <2>2, SubSeqFull
  <2>5. /\ IsMemory(e.arrays) /\ Len(arrays) <= Len(e.arrays)
        /\ IsSliceIn(e.slice, e.arrays) /\ ContentsIn(e.slice, e.arrays) = body
        /\ \A i \in 1 .. Len(arrays) : e.arrays[i] = arrays[i]
    BY <2>1, <2>2, <2>4, NewArray
  <2>6. ASSUME NEW s, IsSliceIn(s, arrays)
        PROVE  IsSliceIn(s, e.arrays) /\ ContentsIn(s, e.arrays) = ContentsIn(s, arrays)
    <3>1. s.array \in 1 .. Len(arrays) =>
            /\ Len(e.arrays[s.array]) >= Len(arrays[s.array])
            /\ \A i \in 1 .. s.len : e.arrays[s.array][i] = arrays[s.array][i]
      BY <1>2, <2>5
    <3> QED BY <2>5, <2>6, <3>1, ContentsStay
  <2> QED BY <1>4, <2>1, <2>3, <2>5, <2>6 DEF e, c
<1> QED BY <1>3, <1>4
-----------------------------------------------------------------------------
(* A list of pools without one of them.                                      *)
LEMMA ExcludingFacts ==
  ASSUME NEW pools \in Seq(Pool), NEW i \in 1 .. Len(pools)
  PROVE  /\ Excluding(pools, i) \in Seq(Pool)
         /\ Len(Excluding(pools, i)) = Len(pools) - 1
         /\ \A j \in 1 .. Len(pools)-1 : Excluding(pools, i)[j] = pools[IF j < i THEN j ELSE j+1]
<1> DEFINE n == Len(pools)  a == SubSeq(pools, 1, i-1)  b == SubSeq(pools, i+1, n)
<1>1. n \in Nat /\ i \in Nat /\ i > 0 /\ i <= n /\ \A j \in 1 .. n : pools[j] \in Pool
  BY LenProperties, ElementOfSeq
<1>2. a \in Seq(Pool) /\ Len(a) = i-1 /\ \A j \in 1 .. i-1 : a[j] = pools[j]
  <2>1. \A j \in 1 .. i-1 : pools[j] \in Pool
    BY <1>1
  <2>2. /\ a \in Seq(Pool) /\ Len(a) = IF 1 <= i-1 THEN (i-1)-1+1 ELSE 0
        /\ \A j \in 1 .. (i-1)-1+1 : a[j] = pools[1+j-1]
    BY <1>1, <2>1, SubSeqProperties
  <2> QED BY <1>1, <2>2
<1>3. b \in Seq(Pool) /\ Len(b) = n-i /\ \A j \in 1 .. n-i : b[j] = pools[i+j]
  <2>1. \A j \in i+1 .. n : pools[j] \in Pool
    BY <1>1
  <2>2. /\ b \in Seq(Pool) /\ Len(b) = IF i+1 <= n THEN n-(i+1)+1 ELSE 0
        /\ \A j \in 1 .. n-(i+1)+1 : b[j] = pools[(i+1)+j-1]
    BY <1>1, <2>1, SubSeqProperties
  <2> QED BY <1>1, <2>2
<1> HIDE DEF a, b, n
<1>4. /\ a \o b \in Seq(Pool) /\ Len(a \o b) = Len(a) + Len(b)
      /\ \A j \in 1 .. Len(a) + Len(b) : (a \o b)[j] = IF j <= Len(a) THEN a[j] ELSE b[j - Len(a)]
  BY <1>2, <1>3, ConcatProperties
<1>5. Len(a \o b) = n-1 /\ \A j \in 1 .. n-1 : (a \o b)[j] = pools[IF j < i THEN j ELSE j+1]
  <2>1. Len(a) + Len(b) = n-1
    BY <1>1, <1>2, <1>3
  <2>2. ASSUME NEW j \in 1 .. n-1 PROVE (a \o b)[j] = pools[IF j < i THEN j ELSE j+1]
    <3>1. CASE j < i
      <4>1. j \in 1 .. i-1 /\ j <= Len(a)
        BY <1>1, <1>2, <3>1
      <4> QED BY <1>2, <1>4, <2>1, <3>1, <4>1
    <3>2. CASE ~(j < i)
      <4>1. ~(j <= Len(a)) /\ j - Len(a) = j - (i-1) /\ j - (i-1) \in 1 .. n-i /\ i + (j - (i-1)) = j+1
        BY <1>1, <1>2, <3>2
      <4>2. (a \o b)[j] = b[j - (i-1)]
        BY <1>4, <2>1, <4>1
      <4> QED BY <1>3, <3>2, <4>1, <4>2
    <3> QED BY <3>1, <3>2
  <2> QED BY <1>4, <2>1, <2>2
<1> QED BY <1>4, <1>5 DEF Excluding, RemoveAt, a, b, n

(* It holds a pool as often as before, but for the one that was taken out.   *)
LEMMA ExcludingCounts ==
  ASSUME NEW pools \in Seq(Pool), NEW i \in 1 .. Len(pools), NEW p \in Pool
  PROVE  /\ Count(pools, p) \in Nat
         /\ Count(pools, p) = Count(Excluding(pools, i), p) + (IF pools[i] = p THEN 1 ELSE 0)
<1> DEFINE n == Len(pools)  rest == Excluding(pools, i)
           K == {k \in DOMAIN pools : pools[k] = p}
           R == {k \in DOMAIN rest : rest[k] = p}
           f == [k \in R |-> IF k < i THEN k ELSE k+1]
<1>1. /\ n \in Nat /\ i \in 1 .. n /\ DOMAIN pools = 1 .. n /\ DOMAIN rest = 1 .. n-1
      /\ \A k \in 1 .. n-1 : rest[k] = pools[IF k < i THEN k ELSE k+1]
  BY ExcludingFacts, LenProperties
<1>2. IsFiniteSet(K) /\ IsFiniteSet(R)
  <2>1. IsFiniteSet(1 .. n) /\ IsFiniteSet(1 .. n-1)
    BY <1>1, FS_Interval
  <2> QED BY <1>1, <2>1, FS_Subset
<1>3. f \in Bijection(R, K \ {i})
  <2>1. \A k \in R : k \in 1 .. n-1 /\ rest[k] = p
    BY <1>1
  <2>2. f \in [R -> K \ {i}]
    <3> SUFFICES ASSUME NEW k \in R PROVE f[k] \in K \ {i}
      OBVIOUS
    <3>1. f[k] = IF k < i THEN k ELSE k+1
      OBVIOUS
    <3>2. f[k] \in 1 .. n /\ f[k] # i /\ pools[f[k]] = p
      BY <1>1, <2>1, <3>1
    <3> QED BY <1>1, <3>2
  <2>3. \A k, m \in R : f[k] = f[m] => k = m
    BY <1>1, <2>1
  <2>4. ASSUME NEW m \in K \ {i} PROVE \E k \in R : f[k] = m
    <3>1. m \in 1 .. n /\ m # i /\ pools[m] = p
      BY <1>1
    <3>2. CASE m < i
      <4>1. m \in 1 .. n-1 /\ rest[m] = pools[m]
        BY <1>1, <3>1, <3>2
      <4>2. m \in R
        BY <1>1, <3>1, <4>1
      <4> QED BY <3>2, <4>2
    <3>3. CASE m > i
      <4>1. m-1 \in 1 .. n-1 /\ ~(m-1 < i) /\ (m-1)+1 = m /\ rest[m-1] = pools[m]
        BY <1>1, <3>1, <3>3
      <4>2. m-1 \in R
        BY <1>1, <3>1, <4>1
      <4> QED BY <4>1, <4>2
    <3> QED BY <1>1, <3>1, <3>2, <3>3
  <2> HIDE DEF f, K, R
  <2> QED BY <2>2, <2>3, <2>4, Fun_IsBij
<1>4. Cardinality(R) = Cardinality(K \ {i}) /\ Cardinality(R) \in Nat /\ Cardinality(K) \in Nat
  <2>1. ExistsBijection(R, K \ {i})
    BY <1>3 DEF ExistsBijection
  <2>2. IsFiniteSet(K \ {i})
    BY <1>2, FS_Subset
  <2> HIDE DEF K, R
  <2> QED BY <1>2, <2>1, <2>2, FS_Bijection, FS_CardinalityType
<1>5. i \in K <=> pools[i] = p
  BY <1>1
<1>6. Cardinality(K) = Cardinality(R) + (IF pools[i] = p THEN 1 ELSE 0)
  <2> HIDE DEF K, R
  <2>1. CASE i \in K
    <3>1. Cardinality(K \ {i}) = Cardinality(K) - 1
      BY <1>2, <2>1, FS_RemoveElement
    <3> QED BY <1>4, <1>5, <2>1, <3>1
  <2>2. CASE i \notin K
    <3>1. Cardinality(K \ {i}) = Cardinality(K)
      BY <1>2, <2>2, FS_RemoveElement
    <3>2. pools[i] # p
      BY <1>5, <2>2
    <3> QED BY <1>4, <3>1, <3>2
  <2> QED BY <2>1, <2>2
<1> QED BY <1>4, <1>6 DEF Count
-----------------------------------------------------------------------------
(* The stack of the search.  Its first call has the request, and each other  *)
(* what its caller hands on: the pools without the one it takes, the amount  *)
(* that is quoted, one hop less, and the way with one more pool.             *)
FramesWith(A) ==
  [pools : Seq(Pool), i : Nat \ {0}, current : Slice, token : Token, amount : A, maxHops : Int]

StartsSearch(f) ==
  /\ f.pools = request.pools /\ f.current = Nil /\ f.maxHops = request.maxHops
  /\ f.token = From /\ f.amount = request.amount

HandsOn(f, g, mem) ==
  LET p == f.pools[f.i]
  IN  /\ f.i \in 1 .. Len(f.pools)
      /\ g.pools = Excluding(f.pools, f.i)
      /\ [token |-> g.token, amount |-> g.amount]
           = QuotedAt([token |-> f.token, amount |-> f.amount], p)
      /\ g.maxHops = f.maxHops - 1
      /\ ContentsIn(g.current, mem) = WithPool(ContentsIn(f.current, mem), p)

StackFits(fs, mem) ==
  /\ \E A : fs \in Seq(FramesWith(A))
  /\ \A k \in 1 .. Len(fs) : IsSliceIn(fs[k].current, mem) /\ fs[k].current.len = k-1
  /\ fs # <<>> => StartsSearch(fs[1])
  /\ \A k \in 1 .. Len(fs)-1 : HandsOn(fs[k], fs[k+1], mem)

SearchInv ==
  /\ request \in Requests
  /\ IsMemory(arrays)
  /\ StackFits(frames, arrays)
  /\ status = "searching" => frames # <<>>

(* A call that goes on with its next pool is otherwise the same.             *)
LEMMA AdvancedFits ==
  ASSUME NEW fs, NEW mem, StackFits(fs, mem), fs # <<>>
  PROVE  /\ StackFits(Advanced(fs), mem) /\ Advanced(fs) # <<>>
         /\ Len(Advanced(fs)) = Len(fs)
         /\ \A k \in 1 .. Len(fs) : Advanced(fs)[k].current = fs[k].current
<1>1. PICK A : fs \in Seq(FramesWith(A))
  BY DEF StackFits
<1> DEFINE n == Len(fs)  f == fs[n]  g == [f EXCEPT !.i = @ + 1]  new == Advanced(fs)
<1>2. n \in Nat /\ n > 0 /\ n \in 1 .. n /\ f \in FramesWith(A)
  BY <1>1, EmptySeq, ElementOfSeq, LenProperties
<1>3. /\ g \in FramesWith(A) /\ g.pools = f.pools /\ g.current = f.current /\ g.token = f.token
      /\ g.amount = f.amount /\ g.maxHops = f.maxHops
  BY <1>2 DEF FramesWith
<1>4. new = [fs EXCEPT ![n] = g]
  BY DEF Advanced
<1> HIDE DEF n, f, g, new
<1>5. /\ new \in Seq(FramesWith(A)) /\ Len(new) = n
      /\ \A k \in 1 .. n : new[k] = IF k = n THEN g ELSE fs[k]
  BY <1>1, <1>2, <1>3, <1>4, ExceptSeq DEF n
<1>6. \A k \in 1 .. n : /\ new[k].pools = fs[k].pools /\ new[k].current = fs[k].current
                        /\ new[k].token = fs[k].token /\ new[k].amount = fs[k].amount
                        /\ new[k].maxHops = fs[k].maxHops
  BY <1>3, <1>5 DEF f
<1>7. \A k \in 1 .. n : IsSliceIn(new[k].current, mem) /\ new[k].current.len = k-1
  BY <1>6 DEF StackFits, n
<1>8. StartsSearch(new[1])
  BY <1>2, <1>6 DEF StackFits, StartsSearch, n
<1>9. \A k \in 1 .. n-1 : HandsOn(new[k], new[k+1], mem)
  <2> SUFFICES ASSUME NEW k \in 1 .. n-1 PROVE HandsOn(new[k], new[k+1], mem)
    OBVIOUS
  <2>1. k \in 1 .. n /\ k+1 \in 1 .. n /\ k # n
    BY <1>2
  <2>2. new[k] = fs[k] /\ HandsOn(fs[k], fs[k+1], mem)
    BY <1>5, <2>1 DEF StackFits, n
  <2> QED BY <1>6, <2>1, <2>2 DEF HandsOn
<1>10. new # <<>>
  BY <1>2, <1>5, EmptySeq
<1> QED BY <1>5, <1>6, <1>7, <1>8, <1>9, <1>10 DEF StackFits, new, n

(* A call that returns leaves its callers as they are.                       *)
LEMMA FrontFits ==
  ASSUME NEW fs, NEW mem, StackFits(fs, mem), fs # <<>>
  PROVE  /\ StackFits(Front(fs), mem) /\ (Len(fs) # 1 => Front(fs) # <<>>)
         /\ Len(Front(fs)) = Len(fs)-1 /\ \A k \in 1 .. Len(fs)-1 : Front(fs)[k] = fs[k]
<1>1. PICK A : fs \in Seq(FramesWith(A))
  BY DEF StackFits
<1> DEFINE n == Len(fs)  new == Front(fs)
<1>2. n \in Nat /\ n > 0 /\ \A k \in 1 .. n : fs[k] \in FramesWith(A)
  BY <1>1, EmptySeq, ElementOfSeq, LenProperties
<1>3. /\ new \in Seq(FramesWith(A)) /\ Len(new) = n-1
      /\ \A k \in 1 .. n-1 : new[k] = fs[k]
  <2>1. \A k \in 1 .. n-1 : fs[k] \in FramesWith(A)
    BY <1>2
  <2>2. /\ SubSeq(fs, 1, n-1) \in Seq(FramesWith(A))
        /\ Len(SubSeq(fs, 1, n-1)) = IF 1 <= n-1 THEN (n-1)-1+1 ELSE 0
        /\ \A k \in 1 .. (n-1)-1+1 : SubSeq(fs, 1, n-1)[k] = fs[1+k-1]
    BY <1>2, <2>1, SubSeqProperties
  <2>3. new = SubSeq(fs, 1, n-1)
    BY DEF Front
  <2> HIDE DEF new, n
  <2> QED BY <1>2, <2>2, <2>3
<1> HIDE DEF new
<1>4. \A k \in 1 .. Len(new) : IsSliceIn(new[k].current, mem) /\ new[k].current.len = k-1
  BY <1>2, <1>3 DEF StackFits
<1>5. new # <<>> => StartsSearch(new[1])
  <2> SUFFICES ASSUME new # <<>> PROVE StartsSearch(new[1])
    OBVIOUS
  <2>1. 1 \in 1 .. n-1
    BY <1>2, <1>3, EmptySeq
  <2> QED BY <1>3, <2>1 DEF StackFits
<1>6. \A k \in 1 .. Len(new)-1 : HandsOn(new[k], new[k+1], mem)
  <2> SUFFICES ASSUME NEW k \in 1 .. Len(new)-1 PROVE HandsOn(new[k], new[k+1], mem)
    OBVIOUS
  <2>1. k \in 1 .. n-1 /\ k+1 \in 1 .. n-1
    BY <1>2, <1>3
  <2> QED BY <1>3, <2>1 DEF StackFits
<1>7. n # 1 => new # <<>>
  BY <1>2, <1>3, EmptySeq
<1> QED BY <1>3, <1>4, <1>5, <1>6, <1>7 DEF StackFits, new

(* Nor does it matter to the calls what is written past their own slices.    *)
LEMMA MemoryFits ==
  ASSUME NEW fs, NEW mem, NEW new, StackFits(fs, mem), fs # <<>>,
         \A s : IsSliceIn(s, mem) /\ s.len <= Last(fs).current.len =>
           IsSliceIn(s, new) /\ ContentsIn(s, new) = ContentsIn(s, mem)
  PROVE  StackFits(fs, new)
<1>1. PICK A : fs \in Seq(FramesWith(A))
  BY DEF StackFits
<1>2. Len(fs) \in Nat /\ Len(fs) > 0
  BY <1>1, EmptySeq, LenProperties
<1>3. \A k \in 1 .. Len(fs) : /\ IsSliceIn(fs[k].current, new) /\ fs[k].current.len = k-1
                              /\ ContentsIn(fs[k].current, new) = ContentsIn(fs[k].current, mem)
  <2> SUFFICES ASSUME NEW k \in 1 .. Len(fs)
               PROVE  /\ IsSliceIn(fs[k].current, new) /\ fs[k].current.len = k-1
                      /\ ContentsIn(fs[k].current, new) = ContentsIn(fs[k].current, mem)
    OBVIOUS
  <2>1. Len(fs) \in 1 .. Len(fs)
    BY <1>2
  <2>2. /\ IsSliceIn(fs[k].current, mem) /\ fs[k].current.len = k-1
        /\ Last(fs).current.len = Len(fs)-1
    BY <2>1 DEF StackFits, Last
  <2> QED BY <1>2, <2>2
<1>4. \A k \in 1 .. Len(fs)-1 : HandsOn(fs[k], fs[k+1], new)
  <2> SUFFICES ASSUME NEW k \in 1 .. Len(fs)-1 PROVE HandsOn(fs[k], fs[k+1], new)
    OBVIOUS
  <2>1. k \in 1 .. Len(fs) /\ k+1 \in 1 .. Len(fs)
    BY <1>2
  <2>2. HandsOn(fs[k], fs[k+1], mem)
    BY DEF StackFits
  <2> QED BY <1>3, <2>1, <2>2 DEF HandsOn
<1> QED BY <1>3, <1>4 DEF StackFits

(* A call that is made has what its caller hands on.                         *)
LEMMA CalledFits ==
  ASSUME NEW fs, NEW mem, StackFits(fs, mem), fs # <<>>,
         NEW g, g \in FramesWith({g.amount}), IsSliceIn(g.current, mem), g.current.len = Len(fs),
         HandsOn(Last(fs), g, mem)
  PROVE  StackFits(Append(fs, g), mem) /\ Append(fs, g) # <<>>
<1>1. PICK A : fs \in Seq(FramesWith(A))
  BY DEF StackFits
<1> DEFINE n == Len(fs)  new == Append(fs, g)  B == A \cup {g.amount}
<1>2. fs \in Seq(FramesWith(B)) /\ g \in FramesWith(B)
  <2>1. FramesWith(A) \subseteq FramesWith(B) /\ g \in FramesWith(B)
    BY DEF FramesWith
  <2> QED BY <1>1, <2>1, SeqMonotonic
<1>3. n \in Nat /\ n > 0
  BY <1>1, EmptySeq, LenProperties
<1>4. /\ new \in Seq(FramesWith(B)) /\ new # <<>> /\ Len(new) = n + 1
      /\ \A k \in 1 .. n : new[k] = fs[k]
      /\ new[n + 1] = g
  BY <1>2, AppendProperties
<1> HIDE DEF new, n, B
<1>5. \A k \in 1 .. n + 1 : IsSliceIn(new[k].current, mem) /\ new[k].current.len = k-1
  <2> SUFFICES ASSUME NEW k \in 1 .. n + 1 PROVE IsSliceIn(new[k].current, mem) /\ new[k].current.len = k-1
    OBVIOUS
  <2>1. CASE k = n + 1
    BY <1>3, <1>4, <2>1 DEF n
  <2>2. CASE k # n + 1
    <3>1. k \in 1 .. n
      BY <1>3, <2>2
    <3> QED BY <1>4, <3>1 DEF StackFits, n
  <2> QED BY <2>1, <2>2
<1>6. StartsSearch(new[1])
  <2>1. 1 \in 1 .. n
    BY <1>3
  <2> QED BY <1>4, <2>1 DEF StackFits
<1>7. \A k \in 1 .. n : HandsOn(new[k], new[k+1], mem)
  <2> SUFFICES ASSUME NEW k \in 1 .. n PROVE HandsOn(new[k], new[k+1], mem)
    OBVIOUS
  <2>1. CASE k = n
    BY <1>3, <1>4, <2>1 DEF n, Last
  <2>2. CASE k # n
    <3>1. k \in 1 .. n-1 /\ k+1 \in 1 .. n
      BY <1>3, <2>2
    <3>2. HandsOn(fs[k], fs[k+1], mem)
      BY <3>1 DEF StackFits, n
    <3> QED BY <1>4, <3>1, <3>2
  <2> QED BY <2>1, <2>2
<1>8. (n + 1) - 1 = n
  BY <1>3
<1> QED BY <1>4, <1>5, <1>6, <1>7, <1>8 DEF StackFits, new
-----------------------------------------------------------------------------
(* The innermost call: a frame, a slice as long as the way, a pool.          *)
LEMMA TopFacts ==
  ASSUME SearchInv, status = "searching"
  PROVE  /\ frames # <<>> /\ Len(frames) \in Nat /\ Len(frames) > 0
         /\ Top \in FramesWith({Top.amount})
         /\ IsSliceIn(Top.current, arrays) /\ Top.current.len = Len(frames)-1
         /\ Top.i <= Len(Top.pools) => Top.i \in 1 .. Len(Top.pools) /\ ThisPool \in Pool
<1>1. frames # <<>> /\ StackFits(frames, arrays)
  BY DEF SearchInv
<1>2. PICK A : frames \in Seq(FramesWith(A))
  BY <1>1 DEF StackFits
<1>3. Len(frames) \in Nat /\ Len(frames) > 0 /\ Len(frames) \in 1 .. Len(frames)
  BY <1>1, <1>2, EmptySeq, LenProperties
<1>4. Top \in FramesWith(A)
  BY <1>2, <1>3, ElementOfSeq DEF Top, Last
<1>5. Top \in FramesWith({Top.amount})
  BY <1>4 DEF FramesWith
<1>6. IsSliceIn(Top.current, arrays) /\ Top.current.len = Len(frames)-1
  BY <1>1, <1>3 DEF StackFits, Top, Last
<1>7. ASSUME Top.i <= Len(Top.pools) PROVE Top.i \in 1 .. Len(Top.pools) /\ ThisPool \in Pool
  <2>1. Top.pools \in Seq(Pool) /\ Top.i \in Nat /\ Top.i # 0
    BY <1>5 DEF FramesWith
  <2>2. Top.i \in 1 .. Len(Top.pools)
    BY <1>7, <2>1, LenProperties
  <2> QED BY <2>1, <2>2, ElementOfSeq DEF ThisPool
<1> QED BY <1>1, <1>3, <1>5, <1>6, <1>7

(* A search that has not begun or has ended has no calls.                    *)
LEMMA NoCallsFit ==
  ASSUME NEW mem
  PROVE  StackFits(<<>>, mem)
<1>1. <<>> \in Seq(FramesWith({}))
  BY EmptySeq
<1>2. Len(<<>>) = 0
  BY EmptySeq
<1> QED BY <1>1, <1>2 DEF StackFits

(* The first call.                                                           *)
LEMMA FirstCallFits ==
  ASSUME NEW mem, IsMemory(mem), request \in Requests,
         NEW f, f = Frame(request.pools, Nil, From, request.amount, request.maxHops)
  PROVE  StackFits(<<f>>, mem)
<1>1. request \in Request
  BY PoolAssumption
<1>2. request.pools \in Seq(Pool) /\ request.maxHops \in Int /\ From \in Token
  BY <1>1 DEF Request, From
<1>3. Nil \in Slice /\ Nil.array = 0 /\ Nil.len = 0
  BY DEF Nil, Slice
<1>4. f \in FramesWith({f.amount})
  BY <1>2, <1>3 DEF Frame, FramesWith
<1>5. <<f>> \in Seq(FramesWith({f.amount})) /\ Len(<<f>>) = 1 /\ <<f>>[1] = f
  BY <1>4
<1>6. IsSliceIn(f.current, mem) /\ f.current.len = 0
  <2>1. Len(mem) \in Nat
    BY LenProperties DEF IsMemory
  <2> QED BY <1>3, <2>1 DEF IsSliceIn, CapIn, Frame
<1>7. StartsSearch(f)
  BY DEF StartsSearch, Frame
<1> HIDE DEF Nil
<1>8. /\ \A k \in 1 .. Len(<<f>>) : IsSliceIn(<<f>>[k].current, mem) /\ <<f>>[k].current.len = k-1
      /\ \A k \in 1 .. Len(<<f>>)-1 : HandsOn(<<f>>[k], <<f>>[k+1], mem)
  BY <1>5, <1>6
<1> QED BY <1>5, <1>7, <1>8 DEF StackFits

(* The request stays, so whether a stack is that of the search depends on    *)
(* the calls and the arrays.                                                 *)
LEMMA SameRequest ==
  ASSUME request' = request, StackFits(frames', arrays')
  PROVE  StackFits(frames, arrays)'
<1>1. From' = From
  BY DEF From
<1>2. \A p, t, a : Quote(p, t, a)' = Quote(p, t, a)
  BY DEF Quote
<1>3. \A f : StartsSearch(f) => StartsSearch(f)'
  BY <1>1 DEF StartsSearch
<1>4. \A pools, p : WithPool(pools, p) = WithPool(pools, p)'
  BY DEF WithPool
<1> QED BY <1>1, <1>2, <1>3, <1>4 DEF StackFits, StartsSearch, HandsOn, QuotedAt, WithPool

(* What a call hands on fits below it, whatever the arrays get.              *)
LEMMA DescentFits ==
  ASSUME SearchInv, InLoop, InvolvesToken(ThisPool, Top.token),
         NEW e, e = Extended(Top.current, ThisPool),
         NEW g, g = Frame(Excluding(Top.pools, Top.i), e.slice, Other(ThisPool, Top.token),
                          Quote(ThisPool, Top.token, Top.amount), Top.maxHops - 1)
  PROVE  IsMemory(e.arrays) /\ StackFits(Append(frames, g), e.arrays) /\ Append(frames, g) # <<>>
<1>1. /\ frames # <<>> /\ Len(frames) \in Nat /\ Top \in FramesWith({Top.amount})
      /\ IsSliceIn(Top.current, arrays) /\ Top.current.len = Len(frames)-1
      /\ Top.i \in 1 .. Len(Top.pools) /\ ThisPool \in Pool
  BY TopFacts DEF InLoop
<1>2. IsMemory(arrays) /\ StackFits(frames, arrays)
  BY DEF SearchInv
<1>3. /\ IsMemory(e.arrays)
      /\ IsSliceIn(e.slice, e.arrays) /\ e.slice.len = Top.current.len + 1
      /\ ContentsIn(e.slice, e.arrays) = WithPool(ContentsIn(Top.current, arrays), ThisPool)
      /\ \A s : IsSliceIn(s, arrays) /\ s.len <= Top.current.len =>
           IsSliceIn(s, e.arrays) /\ ContentsIn(s, e.arrays) = ContentsIn(s, arrays)
  BY <1>1, <1>2, ExtendedFacts
<1>4. StackFits(frames, e.arrays)
  BY <1>1, <1>2, <1>3, MemoryFits DEF Top
<1>5. ContentsIn(Top.current, e.arrays) = ContentsIn(Top.current, arrays)
  <2>1. Top.current.len \in Int
    BY <1>1
  <2> QED BY <1>1, <1>3, <2>1
<1>6. /\ Top.pools \in Seq(Pool) /\ Top.token \in Token /\ Top.maxHops \in Int
  BY <1>1 DEF FramesWith
<1>7. /\ g.pools = Excluding(Top.pools, Top.i) /\ g.i = 1 /\ g.current = e.slice
      /\ g.token = Other(ThisPool, Top.token) /\ g.amount = Quote(ThisPool, Top.token, Top.amount)
      /\ g.maxHops = Top.maxHops - 1
  BY DEF Frame
<1>8. g \in FramesWith({g.amount})
  <2>1. Excluding(Top.pools, Top.i) \in Seq(Pool)
    BY <1>1, <1>6, ExcludingFacts
  <2>2. Other(ThisPool, Top.token) \in Token
    BY <1>1, PoolAssumption DEF Other
  <2>3. e.slice \in Slice
    BY <1>3 DEF IsSliceIn
  <2> QED BY <1>6, <2>1, <2>2, <2>3 DEF FramesWith, Frame
<1>9. HandsOn(Top, g, e.arrays)
  BY <1>1, <1>3, <1>5, <1>7 DEF HandsOn, QuotedAt, ThisPool
<1>10. IsSliceIn(g.current, e.arrays) /\ g.current.len = Len(frames)
  BY <1>1, <1>3, <1>7
<1> QED BY <1>1, <1>3, <1>4, <1>8, <1>9, <1>10, CalledFits DEF Top
-----------------------------------------------------------------------------
(* Every operation of the search keeps its invariant.                        *)
LEMMA SearchStep ==
  ASSUME SearchInv, [Next]_vars
  PROVE  SearchInv'
<1>1. /\ request \in Requests /\ IsMemory(arrays) /\ StackFits(frames, arrays)
      /\ status = "searching" => frames # <<>>
  BY DEF SearchInv
<1>2. ASSUME request' = request, IsMemory(arrays'), StackFits(frames', arrays'),
             status' = "searching" => frames' # <<>>
      PROVE  SearchInv'
  BY <1>1, <1>2, SameRequest DEF SearchInv, IsMemory, Slot
<1>3. ASSUME NEW e, ReturnError(e), request' = request, IsMemory(arrays') PROVE SearchInv'
  BY <1>2, <1>3, NoCallsFit DEF ReturnError
<1>4. CASE Begin
  <2>1. CASE \E e : ReturnError(e)
    BY <1>1, <1>3, <1>4, <2>1 DEF Begin, IsMemory, Slot
  <2>2. CASE ~\E e : ReturnError(e)
    <3>1. /\ frames' = <<Frame(request.pools, Nil, From, request.amount, request.maxHops)>>
          /\ request' = request /\ arrays' = arrays
      BY <1>4, <2>2 DEF Begin
    <3>2. StackFits(frames', arrays')
      BY <1>1, <3>1, FirstCallFits
    <3> QED BY <1>1, <1>2, <3>1, <3>2
  <2> QED BY <2>1, <2>2
<1>5. CASE Skip
  <2>1. frames # <<>> /\ frames' = Advanced(frames) /\ arrays' = arrays /\ request' = request
    BY <1>1, <1>5 DEF Skip, InLoop
  <2> QED BY <1>1, <1>2, <2>1, AdvancedFits
<1>6. CASE FailToQuote
  BY <1>1, <1>3, <1>6 DEF FailToQuote
<1>7. CASE Arrive
  <2> DEFINE e == Extended(Top.current, ThisPool)
  <2>1. /\ status = "searching" /\ frames # <<>>
        /\ Top.i <= Len(Top.pools) /\ arrays' = e.arrays /\ request' = request
    BY <1>1, <1>7 DEF Arrive, Quoted, InLoop
  <2>2. IsSliceIn(Top.current, arrays) /\ ThisPool \in Pool
    BY <2>1, TopFacts
  <2>3. /\ IsMemory(e.arrays)
        /\ \A s : IsSliceIn(s, arrays) /\ s.len <= Top.current.len =>
             IsSliceIn(s, e.arrays) /\ ContentsIn(s, e.arrays) = ContentsIn(s, arrays)
    BY <1>1, <2>2, ExtendedFacts
  <2>4. CASE \E x : ReturnError(x)
    BY <1>3, <2>1, <2>3, <2>4
  <2>5. CASE ~\E x : ReturnError(x)
    <3>1. frames' = Advanced(frames)
      BY <1>7, <2>5 DEF Arrive
    <3> HIDE DEF e
    <3>2. StackFits(frames, e.arrays)
      BY <1>1, <2>1, <2>3, MemoryFits DEF Top
    <3> QED BY <1>2, <2>1, <2>3, <3>1, <3>2, AdvancedFits
  <2> QED BY <2>4, <2>5
<1>8. CASE Descend
  <2> DEFINE e == Extended(Top.current, ThisPool)
             g == Frame(Excluding(Top.pools, Top.i), e.slice, Other(ThisPool, Top.token),
                        Quote(ThisPool, Top.token, Top.amount), Top.maxHops - 1)
  <2>1. /\ InLoop /\ InvolvesToken(ThisPool, Top.token)
        /\ arrays' = e.arrays /\ frames' = Append(frames, g) /\ request' = request
    BY <1>8 DEF Descend, Quoted
  <2>2. IsMemory(e.arrays) /\ StackFits(Append(frames, g), e.arrays) /\ Append(frames, g) # <<>>
    BY <2>1, DescentFits
  <2> HIDE DEF e, g
  <2> QED BY <1>2, <2>1, <2>2
<1>9. CASE DeadEnd
  <2>1. frames # <<>> /\ frames' = Advanced(frames) /\ arrays' = arrays /\ request' = request
    BY <1>1, <1>9 DEF DeadEnd, Quoted, InLoop
  <2> QED BY <1>1, <1>2, <2>1, AdvancedFits
<1>10. CASE Leave
  <2>1. frames # <<>> /\ arrays' = arrays /\ request' = request
    BY <1>1, <1>10 DEF Leave
  <2>2. CASE Len(frames) = 1
    <3>1. frames' = <<>> /\ status' = "returned"
      BY <1>10, <2>2 DEF Leave
    <3> QED BY <1>1, <1>2, <2>1, <3>1, NoCallsFit
  <2>3. CASE Len(frames) # 1
    <3>1. frames' = Advanced(Front(frames))
      BY <1>10, <2>3 DEF Leave
    <3>2. StackFits(Front(frames), arrays) /\ Front(frames) # <<>>
      BY <1>1, <2>1, <2>3, FrontFits
    <3> QED BY <1>1, <1>2, <2>1, <3>1, <3>2, AdvancedFits
  <2> QED BY <2>2, <2>3
<1>11. CASE UNCHANGED vars
  BY <1>1, <1>2, <1>11 DEF vars
<1> QED BY <1>4, <1>5, <1>6, <1>7, <1>8, <1>9, <1>10, <1>11 DEF Next

LEMMA SearchStarts ==
  ASSUME Init
  PROVE  SearchInv
<1>1. IsMemory(arrays)
  BY EmptySeq DEF Init, IsMemory
<1> QED BY <1>1, NoCallsFit DEF Init, SearchInv

(* Whatever is quoted and however the calls share their arrays, the calls    *)
(* of BestTradeExactIn and BestTradeExactOut hand on to each other what they *)
(* say they do: this is kept by every append and every return.               *)
THEOREM SearchInvariant == Spec => []SearchInv
<1>1. Init => SearchInv
  BY SearchStarts
<1>2. SearchInv /\ [Next]_vars => SearchInv'
  BY SearchStep
<1> QED BY <1>1, <1>2, PTL DEF Spec
-----------------------------------------------------------------------------
(* The way to the k-th call of the stack.                                    *)
WayTo(k) == [m \in 1 .. k-1 |-> frames[m].pools[frames[m].i]]
PathTo(k) == IF request.exactIn THEN WayTo(k) ELSE Reverse(WayTo(k))

LEMMA StackFacts ==
  ASSUME SearchInv
  PROVE  /\ Len(frames) \in Nat
         /\ \A k \in 1 .. Len(frames) :
              /\ frames[k].pools \in Seq(Pool) /\ frames[k].maxHops \in Int
              /\ IsSliceIn(frames[k].current, arrays) /\ frames[k].current.len = k-1
         /\ Len(frames) > 0 => StartsSearch(frames[1])
         /\ \A k \in 1 .. Len(frames)-1 :
              HandsOn(frames[k], frames[k+1], arrays) /\ frames[k].pools[frames[k].i] \in Pool
         /\ request.pools \in Seq(Pool) /\ request.maxHops \in Int
<1>1. StackFits(frames, arrays) /\ request \in Requests
  BY DEF SearchInv
<1>2. PICK A : frames \in Seq(FramesWith(A))
  BY <1>1 DEF StackFits
<1>3. Len(frames) \in Nat /\ \A k \in 1 .. Len(frames) : frames[k] \in FramesWith(A)
  BY <1>2, ElementOfSeq, LenProperties
<1>4. \A k \in 1 .. Len(frames) : frames[k].pools \in Seq(Pool) /\ frames[k].maxHops \in Int
  BY <1>3 DEF FramesWith
<1>5. \A k \in 1 .. Len(frames) : IsSliceIn(frames[k].current, arrays) /\ frames[k].current.len = k-1
  BY <1>1 DEF StackFits
<1>6. Len(frames) > 0 => StartsSearch(frames[1])
  BY <1>1, <1>2, EmptySeq DEF StackFits
<1>7. ASSUME NEW k \in 1 .. Len(frames)-1
      PROVE  HandsOn(frames[k], frames[k+1], arrays) /\ frames[k].pools[frames[k].i] \in Pool
  <2>1. HandsOn(frames[k], frames[k+1], arrays)
    BY <1>1 DEF StackFits
  <2>2. frames[k].i \in 1 .. Len(frames[k].pools)
    BY <2>1 DEF HandsOn
  <2>3. frames[k].pools \in Seq(Pool)
    BY <1>3, <1>4
  <2> QED BY <2>1, <2>2, <2>3, ElementOfSeq
<1>8. request.pools \in Seq(Pool) /\ request.maxHops \in Int
  BY <1>1, PoolAssumption DEF Request
<1> QED BY <1>3, <1>4, <1>5, <1>6, <1>7, <1>8

(* It gets longer by the pool a call takes.                                  *)
LEMMA WayFacts ==
  ASSUME SearchInv, NEW k \in 1 .. Len(frames)
  PROVE  /\ WayTo(k) \in Seq(Pool) /\ Len(WayTo(k)) = k-1
         /\ k = 1 => WayTo(k) = <<>>
         /\ k < Len(frames) => WayTo(k+1) = Append(WayTo(k), frames[k].pools[frames[k].i])
<1>1. Len(frames) \in Nat /\ k \in Nat /\ k >= 1 /\ k <= Len(frames)
  BY StackFacts
<1>2. ASSUME NEW m \in 1 .. Len(frames)
      PROVE  WayTo(m) \in Seq(Pool) /\ Len(WayTo(m)) = m-1
  <2>1. m-1 \in Nat /\ \A j \in 1 .. m-1 : j \in 1 .. Len(frames)-1
    BY <1>1
  <2>2. \A j \in 1 .. m-1 : frames[j].pools[frames[j].i] \in Pool
    BY <2>1, StackFacts
  <2> QED BY <2>1, <2>2 DEF WayTo
<1>3. ASSUME k = 1 PROVE WayTo(k) = <<>>
  BY <1>1, <1>2, <1>3, EmptySeq
<1>4. ASSUME k < Len(frames)
      PROVE  WayTo(k+1) = Append(WayTo(k), frames[k].pools[frames[k].i])
  <2> DEFINE p == frames[k].pools[frames[k].i]  w == WayTo(k)  v == WayTo(k+1)
  <2>1. p \in Pool
    <3>1. k \in 1 .. Len(frames)-1
      BY <1>1, <1>4
    <3> QED BY <3>1, StackFacts
  <2>2. w \in Seq(Pool) /\ Len(w) = k-1 /\ v \in Seq(Pool) /\ Len(v) = k
    <3>1. k+1 \in 1 .. Len(frames)
      BY <1>1, <1>4
    <3> QED BY <1>1, <1>2, <3>1
  <2>3. \A j \in 1 .. k : v[j] = IF j = k THEN p ELSE w[j]
    BY <1>1 DEF WayTo
  <2> HIDE DEF p, w, v
  <2>4. /\ Append(w, p) \in Seq(Pool) /\ Len(Append(w, p)) = Len(w) + 1
        /\ \A j \in 1 .. Len(w) : Append(w, p)[j] = w[j]
        /\ Append(w, p)[Len(w) + 1] = p
    BY <2>1, <2>2, AppendProperties
  <2>5. Len(w) + 1 = k /\ \A j \in 1 .. k : j # k => j \in 1 .. Len(w)
    BY <1>1, <2>2
  <2>6. \A j \in 1 .. Len(v) : v[j] = Append(w, p)[j]
    BY <2>2, <2>3, <2>4, <2>5
  <2>7. v = Append(w, p)
    BY <2>2, <2>4, <2>5, <2>6, SeqEqual
  <2> QED BY <2>7 DEF v, w, p
<1> QED BY <1>2, <1>3, <1>4

(* The order of a list, turned round.                                        *)
LEMMA ReverseFacts ==
  ASSUME NEW s \in Seq(Pool)
  PROVE  /\ Reverse(s) \in Seq(Pool) /\ Len(Reverse(s)) = Len(s)
         /\ \A i \in 1 .. Len(s) : Reverse(s)[i] = s[Len(s) - i + 1]
<1>1. Len(s) \in Nat /\ \A i \in 1 .. Len(s) : s[i] \in Pool
  BY LenProperties, ElementOfSeq
<1>2. \A i \in 1 .. Len(s) : s[(Len(s) - i) + 1] \in Pool
  <2>1. \A i \in 1 .. Len(s) : (Len(s) - i) + 1 \in 1 .. Len(s)
    BY <1>1
  <2> QED BY <1>1, <2>1
<1>3. Reverse(s) \in [1 .. Len(s) -> Pool]
  BY <1>2 DEF Reverse
<1>4. Reverse(s) \in Seq(Pool) /\ Len(Reverse(s)) = Len(s)
  BY <1>1, <1>3
<1> QED BY <1>4 DEF Reverse

LEMMA ReverseTwice ==
  ASSUME NEW s \in Seq(Pool)
  PROVE  Reverse(Reverse(s)) = s
<1> DEFINE r == Reverse(s)  n == Len(s)
<1>1. n \in Nat /\ r \in Seq(Pool) /\ Len(r) = n /\ \A i \in 1 .. n : r[i] = s[n - i + 1]
  BY ReverseFacts, LenProperties
<1>2. Reverse(r) \in Seq(Pool) /\ Len(Reverse(r)) = n /\ \A i \in 1 .. n : Reverse(r)[i] = r[n - i + 1]
  BY <1>1, ReverseFacts
<1> HIDE DEF r
<1>3. \A i \in 1 .. n : n - i + 1 \in 1 .. n /\ n - (n - i + 1) + 1 = i
  BY <1>1
<1>4. \A i \in 1 .. n : Reverse(r)[i] = s[i]
  BY <1>1, <1>2, <1>3
<1>5. Reverse(r) = s
  BY <1>1, <1>2, <1>4, SeqEqual
<1> QED BY <1>5 DEF r

LEMMA ReverseAppend ==
  ASSUME NEW s \in Seq(Pool), NEW p \in Pool
  PROVE  Reverse(Append(s, p)) = <<p>> \o Reverse(s)
<1> DEFINE n == Len(s)  a == Append(s, p)  r == Reverse(s)  left == Reverse(a)  right == <<p>> \o r
<1>1. n \in Nat /\ a \in Seq(Pool) /\ Len(a) = n+1 /\ a[n+1] = p /\ \A i \in 1 .. n : a[i] = s[i]
  BY AppendProperties, LenProperties
<1>2. /\ r \in Seq(Pool) /\ Len(r) = n /\ \A i \in 1 .. n : r[i] = s[n - i + 1]
  BY ReverseFacts
<1>3. left \in Seq(Pool) /\ Len(left) = n+1 /\ \A i \in 1 .. n+1 : left[i] = a[(n+1) - i + 1]
  <2> HIDE DEF a, n
  <2>1. /\ Reverse(a) \in Seq(Pool) /\ Len(Reverse(a)) = Len(a)
        /\ \A i \in 1 .. Len(a) : Reverse(a)[i] = a[Len(a) - i + 1]
    BY <1>1, ReverseFacts
  <2> QED BY <1>1, <2>1
<1>4. <<p>> \in Seq(Pool) /\ Len(<<p>>) = 1 /\ <<p>>[1] = p
  OBVIOUS
<1> HIDE DEF a, r, left, n
<1>5. /\ right \in Seq(Pool) /\ Len(right) = n+1
      /\ \A i \in 1 .. n+1 : right[i] = IF i <= 1 THEN p ELSE r[i-1]
  <2>1. /\ right \in Seq(Pool) /\ Len(right) = Len(<<p>>) + Len(r)
        /\ \A i \in 1 .. Len(<<p>>) + Len(r) : right[i] = IF i <= Len(<<p>>) THEN <<p>>[i] ELSE r[i - Len(<<p>>)]
    BY <1>2, <1>4, ConcatProperties
  <2>2. Len(<<p>>) + Len(r) = n+1 /\ \A i \in 1 .. n+1 : i <= 1 => i = 1
    BY <1>1, <1>2, <1>4
  <2> HIDE DEF right
  <2> QED BY <1>4, <2>1, <2>2
<1> HIDE DEF right
<1>6. ASSUME NEW i \in 1 .. n+1 PROVE left[i] = right[i]
  <2>1. CASE i = 1
    <3>1. (n+1) - i + 1 = n+1 /\ i <= 1
      BY <1>1, <2>1
    <3> QED BY <1>1, <1>3, <1>5, <3>1
  <2>2. CASE i # 1
    <3>1. /\ ~(i <= 1) /\ i-1 \in 1 .. n /\ n - (i-1) + 1 = (n+1) - i + 1
          /\ (n+1) - i + 1 \in 1 .. n
      BY <1>1, <2>2
    <3> QED BY <1>1, <1>2, <1>3, <1>5, <3>1
  <2> QED BY <2>1, <2>2
<1>7. left = right
  BY <1>1, <1>3, <1>5, <1>6, SeqEqual
<1> QED BY <1>7 DEF left, right, a, r
-----------------------------------------------------------------------------
(* The fold over n pools: what it is for fewer of them is within it, and     *)
(* there is one for any number.                                              *)
LEMMA LastOfInterval ==
  ASSUME NEW n \in Nat, NEW s \in SUBSET (1 .. n+1), n+1 \in s
  PROVE  Max(s) = n+1
<1>1. n+1 \in s /\ \A y \in s : n+1 >= y
  OBVIOUS
<1>2. \A x \in s : (\A y \in s : x >= y) => x = n+1
  BY <1>1
<1> QED BY <1>1, <1>2 DEF Max

LEMMA FoldExists ==
  ASSUME NEW pools, NEW n \in Nat
  PROVE  \E g : IsRouteFold(g, pools, SUBSET (1 .. n))
<1> DEFINE T == {m \in Nat : \E g : IsRouteFold(g, pools, SUBSET (1 .. m))}
<1>1. 0 \in T
  <2> DEFINE D == SUBSET (1 .. 0)  g == [s \in D |-> StartState]
  <2>1. \A s \in D : s = {}
    OBVIOUS
  <2>2. g = [s \in D |-> IF s = {} THEN StartState ELSE QuotedAt(g[s \ {Max(s)}], pools[Max(s)])]
    BY <2>1
  <2> HIDE DEF g
  <2>3. IsRouteFold(g, pools, SUBSET (1 .. 0))
    BY <2>2 DEF IsRouteFold
  <2> QED BY <2>3
<1>2. ASSUME NEW m \in Nat, m \in T PROVE m+1 \in T
  <2>1. PICK g : IsRouteFold(g, pools, SUBSET (1 .. m))
    BY <1>2
  <2> DEFINE D == SUBSET (1 .. m)  E == SUBSET (1 .. m+1)
             h == [s \in E |-> IF m+1 \in s THEN QuotedAt(g[s \ {m+1}], pools[m+1]) ELSE g[s]]
  <2>2. \A s \in E : s \ {m+1} \in D /\ s \ {m+1} \in E /\ m+1 \notin s \ {m+1} /\ (m+1 \notin s => s \in D)
    OBVIOUS
  <2>3. \A s \in D : s \in E /\ m+1 \notin s /\ \A x : s \ {x} \in D
    <3>1. 1 .. m \subseteq 1 .. m+1 /\ m+1 \notin 1 .. m
      OBVIOUS
    <3>2. \A s \in D : s \in E /\ m+1 \notin s
      BY <3>1
    <3>3. \A s \in D : \A x : s \ {x} \subseteq 1 .. m
      OBVIOUS
    <3> QED BY <3>2, <3>3
  <2>4. \A s \in D : h[s] = g[s]
    BY <2>3
  <2>5. \A s \in D : g[s] = IF s = {} THEN StartState ELSE QuotedAt(g[s \ {Max(s)}], pools[Max(s)])
    BY <2>1 DEF IsRouteFold
  <2>6. ASSUME NEW s \in E
        PROVE  h[s] = IF s = {} THEN StartState ELSE QuotedAt(h[s \ {Max(s)}], pools[Max(s)])
    <3>1. CASE m+1 \in s
      <4>1. Max(s) = m+1 /\ s # {}
        BY <3>1, LastOfInterval
      <4>2. h[s] = QuotedAt(g[s \ {m+1}], pools[m+1])
        BY <3>1
      <4> HIDE DEF h, D, E
      <4>3. h[s \ {m+1}] = g[s \ {m+1}]
        BY <2>2, <2>4
      <4> QED BY <4>1, <4>2, <4>3
    <3>2. CASE m+1 \notin s
      <4>1. s \in D
        BY <2>2, <3>2
      <4> HIDE DEF h, D, E
      <4> QED BY <2>3, <2>4, <2>5, <4>1
    <3> QED BY <3>1, <3>2
  <2> DEFINE v == [s \in E |-> IF s = {} THEN StartState ELSE QuotedAt(h[s \ {Max(s)}], pools[Max(s)])]
  <2>7. h = v
    <3>1. DOMAIN h = E /\ DOMAIN v = E /\ h = [s \in E |-> h[s]]
      OBVIOUS
    <3>2. \A s \in E : v[s] = IF s = {} THEN StartState ELSE QuotedAt(h[s \ {Max(s)}], pools[Max(s)])
      OBVIOUS
    <3>3. v = [s \in E |-> v[s]]
      OBVIOUS
    <3> HIDE DEF h, v, E
    <3> QED BY <2>6, <3>1, <3>2, <3>3
  <2>8. IsRouteFold(h, pools, SUBSET (1 .. m+1))
    <3> HIDE DEF h
    <3> QED BY <2>7 DEF IsRouteFold
  <2> HIDE DEF h
  <2> QED BY <2>8
<1>3. Nat \subseteq T
  <2> HIDE DEF T
  <2> QED BY <1>1, <1>2, InductionOnNat
<1> QED BY <1>3

(* What the fold has after all pools of the list when the states between     *)
(* them are known.                                                           *)
IsFoldOf(g, pools, n) == IsRouteFold(g, pools, SUBSET (1 .. n))

LEMMA FoldFollows ==
  ASSUME NEW pools, NEW n \in Nat, NEW g, IsFoldOf(g, pools, n),
         NEW state, state[1] = StartState,
         \A m \in 1 .. n : state[m+1] = QuotedAt(state[m], pools[m])
  PROVE  g[1 .. n] = state[n+1]
<1> DEFINE T == {m \in Nat : m <= n => g[1 .. m] = state[m+1]}
<1>1. \A s \in SUBSET (1 .. n) : g[s] = IF s = {} THEN StartState ELSE QuotedAt(g[s \ {Max(s)}], pools[Max(s)])
  BY DEF IsFoldOf, IsRouteFold
<1>2. 0 \in T
  <2>1. 1 .. 0 = {} /\ 1 .. 0 \in SUBSET (1 .. n)
    OBVIOUS
  <2>2. g[1 .. 0] = StartState
    BY <1>1, <2>1
  <2> QED BY <2>2
<1>3. ASSUME NEW m \in Nat, m \in T PROVE m+1 \in T
  <2> SUFFICES ASSUME m+1 <= n PROVE g[1 .. m+1] = state[(m+1)+1]
    OBVIOUS
  <2>1. 1 .. m+1 \in SUBSET (1 .. n) /\ 1 .. m+1 # {} /\ (1 .. m+1) \ {m+1} = 1 .. m /\ m+1 \in 1 .. n
    <3>1. \A x \in 1 .. m+1 : x \in 1 .. n
      OBVIOUS
    <3>2. m+1 \in 1 .. m+1 /\ m+1 \in 1 .. n
      OBVIOUS
    <3>3. \A x : x \in (1 .. m+1) \ {m+1} <=> x \in 1 .. m
      OBVIOUS
    <3>4. (1 .. m+1) \ {m+1} = 1 .. m
      BY <3>3
    <3> QED BY <3>1, <3>2, <3>4
  <2>2. Max(1 .. m+1) = m+1
    BY LastOfInterval
  <2>3. g[1 .. m] = state[m+1]
    BY <1>3
  <2>4. g[1 .. m+1] = QuotedAt(g[1 .. m], pools[m+1])
    BY <1>1, <2>1, <2>2
  <2> QED BY <2>1, <2>3, <2>4
<1>4. Nat \subseteq T
  <2> HIDE DEF T
  <2> QED BY <1>2, <1>3, InductionOnNat
<1> QED BY <1>4

(* FromRoute quotes the pools of a route one after the other.                *)
LEMMA RouteAmountFollows ==
  ASSUME NEW pools, NEW way \in Seq(Pool), (IF request.exactIn THEN pools ELSE Reverse(pools)) = way,
         NEW state, state[1] = StartState,
         \A m \in 1 .. Len(way) : state[m+1] = QuotedAt(state[m], way[m])
  PROVE  RouteAmount(pools) = state[Len(way)+1].amount
<1> DEFINE n == Len(way)  g == CHOOSE x : IsRouteFold(x, way, SUBSET (1 .. n))
<1>1. n \in Nat /\ DOMAIN way = 1 .. n
  BY LenProperties
<1>2. RouteAmount(pools) = g[1 .. n].amount
  BY <1>1, RouteAmountIsFold
<1>3. IsRouteFold(g, way, SUBSET (1 .. n))
  BY <1>1, FoldExists
<1>4. /\ state[1] = StartState
      /\ \A m \in 1 .. n : state[m+1] = QuotedAt(state[m], way[m])
  OBVIOUS
<1> HIDE DEF g, n
<1>5. g[1 .. n] = state[n+1]
  <2>1. IsFoldOf(g, way, n)
    BY <1>3 DEF IsFoldOf
  <2> QED BY <1>1, <1>4, <2>1, FoldFollows
<1> QED BY <1>2, <1>5 DEF n

(* A list has one more of the pool that is added to it.                      *)
LEMMA AppendCounts ==
  ASSUME NEW s \in Seq(Pool), NEW q \in Pool, NEW p \in Pool
  PROVE  /\ Count(s, p) \in Nat
         /\ Count(Append(s, q), p) = Count(s, p) + (IF q = p THEN 1 ELSE 0)
<1> DEFINE n == Len(s)  a == Append(s, q)
<1>1. n \in Nat /\ a \in Seq(Pool) /\ Len(a) = n+1 /\ a[n+1] = q /\ \A i \in 1 .. n : a[i] = s[i]
  BY AppendProperties, LenProperties
<1> HIDE DEF a, n
<1>2. n+1 \in 1 .. Len(a)
  BY <1>1
<1>3. /\ Excluding(a, n+1) \in Seq(Pool) /\ Len(Excluding(a, n+1)) = n
      /\ \A i \in 1 .. n : Excluding(a, n+1)[i] = a[IF i < n+1 THEN i ELSE i+1]
  <2>1. /\ Excluding(a, n+1) \in Seq(Pool) /\ Len(Excluding(a, n+1)) = Len(a)-1
        /\ \A i \in 1 .. Len(a)-1 : Excluding(a, n+1)[i] = a[IF i < n+1 THEN i ELSE i+1]
    BY <1>1, <1>2, ExcludingFacts
  <2>2. Len(a)-1 = n
    BY <1>1
  <2> QED BY <2>1, <2>2
<1>4. Excluding(a, n+1) = s
  <2>1. \A i \in 1 .. n : Excluding(a, n+1)[i] = s[i]
    BY <1>1, <1>3
  <2> QED BY <1>3, <2>1, SeqEqual DEF n
<1>5. Count(a, p) \in Nat /\ Count(a, p) = Count(s, p) + (IF a[n+1] = p THEN 1 ELSE 0)
  BY <1>1, <1>2, <1>4, ExcludingCounts
<1>6. Count(s, p) \in Nat
  <2>1. DOMAIN s = 1 .. n /\ IsFiniteSet(1 .. n)
    BY <1>1, LenProperties, FS_Interval DEF n
  <2>2. IsFiniteSet({k \in DOMAIN s : s[k] = p})
    BY <2>1, FS_Subset
  <2> QED BY <2>2, FS_CardinalityType DEF Count
<1> QED BY <1>1, <1>5, <1>6 DEF a
-----------------------------------------------------------------------------
(* What a call has is the way to it.                                         *)
LEMMA ContentsAreTheWay ==
  ASSUME SearchInv, NEW k \in 1 .. Len(frames)
  PROVE  ContentsIn(frames[k].current, arrays) = PathTo(k)
<1> DEFINE N == Len(frames)
           T == {m \in Nat : m+1 <= N => ContentsIn(frames[m+1].current, arrays) = PathTo(m+1)}
<1>1. N \in Nat /\ k \in 1 .. N
  BY StackFacts
<1>2. 0 \in T
  <2>1. StartsSearch(frames[1]) /\ WayTo(1) = <<>>
    <3>1. 1 \in 1 .. Len(frames) /\ Len(frames) > 0
      BY <1>1
    <3> QED BY <3>1, StackFacts, WayFacts
  <2>2. ContentsIn(frames[1].current, arrays) = <<>>
    BY <2>1 DEF StartsSearch, Nil, ContentsIn
  <2>3. Reverse(<<>>) = <<>>
    <3>1. <<>> \in Seq(Pool) /\ Len(<<>>) = 0
      BY EmptySeq
    <3>2. Reverse(<<>>) \in Seq(Pool) /\ Len(Reverse(<<>>)) = 0
      BY <3>1, ReverseFacts
    <3> QED BY <3>2, EmptySeq
  <2> QED BY <2>1, <2>2, <2>3 DEF PathTo
<1>3. ASSUME NEW m \in Nat, m \in T PROVE m+1 \in T
  <2> SUFFICES ASSUME (m+1)+1 <= N
               PROVE  ContentsIn(frames[(m+1)+1].current, arrays) = PathTo((m+1)+1)
    OBVIOUS
  <2> DEFINE j == m+1  p == frames[j].pools[frames[j].i]
  <2>1. j \in 1 .. N-1 /\ j \in 1 .. N /\ j < N
    BY <1>1
  <2>2. HandsOn(frames[j], frames[j+1], arrays) /\ p \in Pool
    BY <2>1, StackFacts
  <2>3. ContentsIn(frames[j].current, arrays) = PathTo(j)
    BY <1>3, <2>1
  <2>4. WayTo(j) \in Seq(Pool) /\ WayTo(j+1) = Append(WayTo(j), p)
    BY <2>1, WayFacts
  <2>5. ContentsIn(frames[j+1].current, arrays) = WithPool(PathTo(j), p)
    BY <2>2, <2>3 DEF HandsOn
  <2> HIDE DEF p, j
  <2>6. WithPool(PathTo(j), p) = PathTo(j+1)
    BY <2>2, <2>4, ReverseAppend DEF PathTo, WithPool
  <2> QED BY <2>5, <2>6 DEF j
<1>4. Nat \subseteq T
  <2> HIDE DEF T
  <2> QED BY <1>2, <1>3, InductionOnNat
<1>5. k-1 \in T /\ (k-1)+1 = k
  BY <1>1, <1>4
<1> QED BY <1>1, <1>5

(* Its amount is that of the route it has come.                              *)
LEMMA AmountIsOfTheWay ==
  ASSUME SearchInv, NEW k \in 1 .. Len(frames)
  PROVE  frames[k].amount = RouteAmount(PathTo(k))
<1> DEFINE N == Len(frames)  way == WayTo(k)
           state == [m \in 1 .. N |-> [token |-> frames[m].token, amount |-> frames[m].amount]]
<1>1. N \in Nat /\ k \in 1 .. N /\ 1 \in 1 .. N /\ N > 0
  BY StackFacts
<1>2. way \in Seq(Pool) /\ Len(way) = k-1
  BY WayFacts
<1>3. (IF request.exactIn THEN PathTo(k) ELSE Reverse(PathTo(k))) = way
  BY <1>2, ReverseTwice DEF PathTo
<1>4. state[1] = StartState
  <2>1. StartsSearch(frames[1])
    BY <1>1, StackFacts
  <2> QED BY <1>1, <2>1 DEF StartsSearch, StartState
<1>5. ASSUME NEW m \in 1 .. Len(way) PROVE state[m+1] = QuotedAt(state[m], way[m])
  <2>1. m \in 1 .. N-1 /\ m \in 1 .. N /\ m+1 \in 1 .. N /\ m \in 1 .. k-1
    BY <1>1, <1>2
  <2>2. HandsOn(frames[m], frames[m+1], arrays)
    BY <2>1, StackFacts
  <2>3. way[m] = frames[m].pools[frames[m].i]
    BY <2>1 DEF WayTo
  <2>4. /\ state[m] = [token |-> frames[m].token, amount |-> frames[m].amount]
        /\ state[m+1] = [token |-> frames[m+1].token, amount |-> frames[m+1].amount]
    BY <2>1
  <2> QED BY <2>2, <2>3, <2>4 DEF HandsOn
<1> HIDE DEF way, state
<1>6. RouteAmount(PathTo(k)) = state[Len(way)+1].amount
  BY <1>2, <1>3, <1>4, <1>5, RouteAmountFollows
<1>7. Len(way)+1 = k
  BY <1>1, <1>2
<1>8. state[k] = [token |-> frames[k].token, amount |-> frames[k].amount]
  BY <1>1 DEF state
<1> QED BY <1>6, <1>7, <1>8

(* The pools of the way are not in its list, and its hops are those left.    *)
LEMMA ListIsWhatIsLeft ==
  ASSUME SearchInv, NEW k \in 1 .. Len(frames)
  PROVE  /\ \A p \in Pool : Count(WayTo(k), p) + Count(frames[k].pools, p) = Count(request.pools, p)
         /\ frames[k].maxHops = request.maxHops - (k-1)
<1> DEFINE N == Len(frames)
           Left(j) == /\ \A p \in Pool : Count(WayTo(j), p) + Count(frames[j].pools, p) = Count(request.pools, p)
                      /\ frames[j].maxHops = request.maxHops - (j-1)
           T == {m \in Nat : m+1 <= N => Left(m+1)}
<1>1. N \in Nat /\ k \in 1 .. N /\ request.pools \in Seq(Pool) /\ request.maxHops \in Int
  BY StackFacts
<1>2. 0 \in T
  <2>1. StartsSearch(frames[1]) /\ WayTo(1) = <<>>
    <3>1. 1 \in 1 .. Len(frames) /\ Len(frames) > 0
      BY <1>1
    <3> QED BY <3>1, StackFacts, WayFacts
  <2>2. \A p \in Pool : Count(<<>>, p) = 0
    <3>1. DOMAIN <<>> = {}
      BY EmptySeq, LenProperties
    <3>2. \A p \in Pool : {j \in DOMAIN <<>> : <<>>[j] = p} = {}
      BY <3>1
    <3>3. Cardinality({}) = 0
      BY FS_EmptySet
    <3> QED BY <3>2, <3>3 DEF Count
  <2>3. \A p \in Pool : Count(request.pools, p) \in Nat
    <3> TAKE p \in Pool
    <3> QED BY <1>1, AppendCounts
  <2> QED BY <1>1, <2>1, <2>2, <2>3 DEF StartsSearch
<1>3. ASSUME NEW m \in Nat, m \in T PROVE m+1 \in T
  <2> SUFFICES ASSUME (m+1)+1 <= N PROVE Left((m+1)+1)
    OBVIOUS
  <2> DEFINE j == m+1  f == frames[j]  g == frames[j+1]  q == f.pools[f.i]
  <2>1. j \in 1 .. N-1 /\ j \in 1 .. N /\ j < N /\ j \in Nat
    BY <1>1
  <2>2. HandsOn(f, g, arrays) /\ q \in Pool /\ f.pools \in Seq(Pool) /\ f.maxHops \in Int
    BY <2>1, StackFacts
  <2>3. WayTo(j) \in Seq(Pool) /\ WayTo(j+1) = Append(WayTo(j), q)
    BY <2>1, WayFacts
  <2>4. Left(j)
    BY <1>3, <2>1
  <2>5. f.i \in 1 .. Len(f.pools) /\ g.pools = Excluding(f.pools, f.i) /\ g.maxHops = f.maxHops - 1
    BY <2>2 DEF HandsOn
  <2>6. f.pools[f.i] = q
    OBVIOUS
  <2> HIDE DEF f, g, q, j
  <2>7. ASSUME NEW p \in Pool
        PROVE  Count(WayTo(j+1), p) + Count(g.pools, p) = Count(request.pools, p)
    <3>1. /\ Count(f.pools, p) \in Nat
          /\ Count(f.pools, p) = Count(g.pools, p) + (IF q = p THEN 1 ELSE 0)
      BY <2>2, <2>5, <2>6, ExcludingCounts
    <3>2. g.pools \in Seq(Pool)
      BY <2>2, <2>5, ExcludingFacts
    <3>3. Count(g.pools, p) \in Nat
      BY <3>2, AppendCounts
    <3>4. /\ Count(WayTo(j), p) \in Nat
          /\ Count(WayTo(j+1), p) = Count(WayTo(j), p) + (IF q = p THEN 1 ELSE 0)
      <4> DEFINE w == WayTo(j)
      <4>1. w \in Seq(Pool)
        BY <2>3
      <4> HIDE DEF w
      <4>2. Count(w, p) \in Nat /\ Count(Append(w, q), p) = Count(w, p) + (IF q = p THEN 1 ELSE 0)
        BY <2>2, <4>1, AppendCounts
      <4> QED BY <2>3, <4>2 DEF w
    <3>5. Count(WayTo(j), p) + Count(f.pools, p) = Count(request.pools, p)
      BY <2>4 DEF f
    <3> QED BY <3>1, <3>3, <3>4, <3>5
  <2>8. g.maxHops = request.maxHops - ((j+1)-1)
    <3>1. f.maxHops = request.maxHops - (j-1)
      BY <2>4 DEF f
    <3> QED BY <1>1, <2>1, <2>5, <3>1
  <2> QED BY <2>7, <2>8 DEF g, j
<1>4. Nat \subseteq T
  <2> HIDE DEF T
  <2> QED BY <1>2, <1>3, InductionOnNat
<1>5. (k-1)+1 = k /\ k-1 \in Nat /\ k <= N
  BY <1>1
<1>6. k-1 \in T
  BY <1>4, <1>5
<1>7. Left(k)
  <2> HIDE DEF Left
  <2> QED BY <1>5, <1>6
<1> QED BY <1>7

(* PathIsTheWayHere holds in every state of every search, whatever the       *)
(* pools, the quotes and the number of hops are.                             *)
THEOREM PathsAreTheWayHere == Spec => []PathIsTheWayHere
<1>1. ASSUME SearchInv PROVE PathIsTheWayHere
  <2> SUFFICES ASSUME NEW k \in DOMAIN frames
               PROVE  /\ Contents(frames[k].current) = PathTo(k)
                      /\ frames[k].amount = RouteAmount(PathTo(k))
                      /\ \A p \in Pool :
                           Count(WayTo(k), p) + Count(frames[k].pools, p) = Count(request.pools, p)
                      /\ frames[k].maxHops = request.maxHops - (k - 1)
    BY DEF PathIsTheWayHere, PathTo, WayTo
  <2>1. k \in 1 .. Len(frames)
    <3>1. PICK A : frames \in Seq(FramesWith(A))
      BY <1>1 DEF SearchInv, StackFits
    <3> QED BY <3>1, LenProperties
  <2>2. Contents(frames[k].current) = ContentsIn(frames[k].current, arrays)
    BY DEF Contents, ContentsIn
  <2> QED BY <1>1, <2>1, <2>2, ContentsAreTheWay, AmountIsOfTheWay, ListIsWhatIsLeft
<1> QED BY <1>1, SearchInvariant, PTL
-----------------------------------------------------------------------------
(* The list of the best trades has nothing but trades that were added to it. *)
LEMMA InsertionPoint ==
  ASSUME NEW n \in Nat, NEW after, after \subseteq 1 .. n
  PROVE  LET i == CHOOSE k \in after \cup {n+1} : \A m \in after : k <= m
         IN  i \in 1 .. n+1 /\ i \in after \cup {n+1} /\ \A m \in after : i <= m
<1> DEFINE R == {ss \in Nat \X Nat : ss[1] < ss[2]}
           Fit(k) == \A m \in after : k <= m
<1>1. \E k \in after \cup {n+1} : Fit(k)
  <2>1. CASE after = {}
    BY <2>1
  <2>2. CASE after # {}
    <3>1. IsWellFoundedOn(R, Nat)
      BY NatLessThanWellFounded DEF OpToRel
    <3>2. after \subseteq Nat
      OBVIOUS
    <3>3. PICK k \in after : \A m \in after : <<m, k>> \notin R
      BY <2>2, <3>1, <3>2, WFMin
    <3>4. ASSUME NEW m \in after PROVE k <= m
      <4>1. m \in Nat /\ k \in Nat /\ <<m, k>> \notin R
        BY <3>2, <3>3
      <4>2. ~(m < k)
        BY <4>1
      <4> QED BY <4>1, <4>2
    <3> QED BY <3>4
  <2> QED BY <2>1, <2>2
<1> DEFINE i == CHOOSE k \in after \cup {n+1} : Fit(k)
<1>2. i \in after \cup {n+1} /\ Fit(i)
  <2> HIDE DEF Fit
  <2> QED BY <1>1
<1>3. after \cup {n+1} \subseteq 1 .. n+1
  OBVIOUS
<1> HIDE DEF i
<1>4. i \in 1 .. n+1 /\ i \in after \cup {n+1} /\ \A m \in after : i <= m
  BY <1>2, <1>3
<1> QED BY <1>4 DEF i

LEMMA SortedInsertFacts ==
  ASSUME NEW S, NEW items \in Seq(S), NEW add \in S, NEW maxSize
  PROVE  sortedInsert(items, add, maxSize) \in Seq(S)
<1> DEFINE n == Len(items)
           after == {k \in DOMAIN items : tradeComparator(items[k], add) > 0}
           i == CHOOSE k \in after \cup {n+1} : \A m \in after : k <= m
           a == SubSeq(items, 1, i-1)  b == SubSeq(items, i, n)
           longer == Inserted(items, add)
<1>1. n \in Nat /\ DOMAIN items = 1 .. n /\ \A k \in 1 .. n : items[k] \in S
  BY LenProperties, ElementOfSeq
<1>2. i \in 1 .. n+1
  <2>1. after \subseteq 1 .. n
    BY <1>1
  <2> HIDE DEF after, n
  <2> QED BY <1>1, <2>1, InsertionPoint
<1>3. longer = a \o <<add>> \o b
  BY DEF Inserted, InsertAt
<1> HIDE DEF i, longer
<1>4. a \in Seq(S) /\ Len(a) = i-1
  <2>1. \A k \in 1 .. i-1 : items[k] \in S
    BY <1>1, <1>2
  <2>2. a \in Seq(S) /\ Len(a) = IF 1 <= i-1 THEN (i-1)-1+1 ELSE 0
    BY <1>1, <1>2, <2>1, SubSeqProperties
  <2> QED BY <1>1, <1>2, <2>2
<1>5. b \in Seq(S) /\ Len(b) = n-i+1
  <2>1. \A k \in i .. n : items[k] \in S
    BY <1>1, <1>2
  <2>2. b \in Seq(S) /\ Len(b) = IF i <= n THEN n-i+1 ELSE 0
    BY <1>1, <1>2, <2>1, SubSeqProperties
  <2> QED BY <1>1, <1>2, <2>2
<1> HIDE DEF a, b
<1>6. longer \in Seq(S) /\ Len(longer) = n+1
  <2>1. <<add>> \in Seq(S) /\ Len(<<add>>) = 1
    OBVIOUS
  <2>2. a \o <<add>> \in Seq(S) /\ Len(a \o <<add>>) = Len(a) + 1
    BY <1>4, <2>1, ConcatProperties
  <2>3. (a \o <<add>>) \o b \in Seq(S) /\ Len((a \o <<add>>) \o b) = Len(a \o <<add>>) + Len(b)
    BY <1>5, <2>2, ConcatProperties
  <2>4. longer = (a \o <<add>>) \o b
    BY <1>3
  <2> QED BY <1>1, <1>2, <1>4, <1>5, <2>2, <2>3, <2>4
<1>7. ASSUME NEW m \in 0 .. n+1 PROVE SubSeq(longer, 1, m) \in Seq(S)
  <2>1. \A k \in 1 .. m : k \in 1 .. Len(longer)
    BY <1>1, <1>6
  <2>2. \A k \in 1 .. m : longer[k] \in S
    BY <1>6, <2>1, ElementOfSeq
  <2> QED BY <1>1, <2>2, SubSeqProperties
<1>8. CASE n = maxSize
  <2>1. maxSize \in 0 .. n+1
    BY <1>1, <1>8
  <2>2. SubSeq(longer, 1, maxSize) \in Seq(S)
    BY <1>7, <2>1
  <2>3. \/ sortedInsert(items, add, maxSize) = items
        \/ sortedInsert(items, add, maxSize) = SubSeq(longer, 1, maxSize)
    BY <1>8 DEF sortedInsert, longer
  <2> QED BY <2>2, <2>3
<1>9. CASE n # maxSize
  <2>1. SubSeq(longer, 1, n+1) \in Seq(S)
    BY <1>1, <1>7
  <2>2. sortedInsert(items, add, maxSize) = SubSeq(longer, 1, n+1)
    BY <1>9 DEF sortedInsert, longer
  <2> QED BY <2>1, <2>2
<1> QED BY <1>8, <1>9
-----------------------------------------------------------------------------
(* FromRoute for a request, and what it is for a trade to keep its pools.    *)
RouteAmountFor(r, pools) ==
  LET next(p, t, a) == IF r.exactIn THEN OutputAmount(p, t, a) ELSE InputAmount(p, t, a)
      quoted(at, p) == [token |-> Other(p, at.token), amount |-> next(p, at.token, at.amount)]
      start == [token |-> IF r.exactIn THEN r.input ELSE r.output, amount |-> r.amount]
  IN  FoldLeft(quoted, start, IF r.exactIn THEN pools ELSE Reverse(pools)).amount

LEMMA RouteAmountIsFor ==
  ASSUME NEW pools
  PROVE  RouteAmount(pools) = RouteAmountFor(request, pools)
BY DEF RouteAmount, RouteAmountFor, From, Quote, FoldLeft, MapThenFoldSet

KeepsPools(r, t, mem) ==
  /\ IsSliceIn(t.route, mem) /\ t.hops = t.route.len + 1
  /\ IF r.exactIn THEN t.input = r.amount /\ t.output = RouteAmountFor(r, ContentsIn(t.route, mem))
     ELSE t.output = r.amount /\ t.input = RouteAmountFor(r, ContentsIn(t.route, mem))

(* With the options' default of three hops an array is full whenever a slice *)
(* of it is extended: append doubles the capacity, from 0 to 1 to 2, and     *)
(* these are the lengths.  (With four hops the array of three pools has room *)
(* for a fourth.)  So every append makes an array of its own.                *)
AtMostThreeHops == \A r \in Requests : r.exactIn => r.maxHops <= 3

RoutesFit(r, fs, mem, trades) ==
  /\ r.exactIn => \A k \in 1 .. Len(fs) : CapIn(fs[k].current, mem) = k-1
  /\ \E S : trades \in Seq(S)
  /\ \A k \in 1 .. Len(trades) : KeepsPools(r, trades[k], mem)

RoutesInv ==
  /\ SearchInv
  /\ AtMostThreeHops
  /\ RoutesFit(request, frames, arrays, bestTrades)

(* Where no array is written, a slice keeps its pools, whatever its length.  *)
LEMMA SlicesStay ==
  ASSUME NEW mem, IsMemory(mem), NEW new, IsMemory(new), Len(mem) <= Len(new),
         \A i \in 1 .. Len(mem) : new[i] = mem[i],
         NEW s, IsSliceIn(s, mem)
  PROVE  IsSliceIn(s, new) /\ ContentsIn(s, new) = ContentsIn(s, mem) /\ CapIn(s, new) = CapIn(s, mem)
<1>1. \A i \in 1 .. Len(mem) : Len(mem[i]) \in Nat
  BY ElementOfSeq, LenProperties DEF IsMemory
<1>2. s.array \in 1 .. Len(mem) =>
        /\ Len(new[s.array]) >= Len(mem[s.array])
        /\ \A i \in 1 .. s.len : new[s.array][i] = mem[s.array][i]
  BY <1>1
<1>3. IsSliceIn(s, new) /\ ContentsIn(s, new) = ContentsIn(s, mem)
  BY <1>2, ContentsStay
<1>4. s.array \in Nat /\ s.array <= Len(mem) /\ Len(mem) \in Nat
  BY LenProperties DEF IsSliceIn, Slice, IsMemory
<1>5. CapIn(s, new) = CapIn(s, mem)
  BY <1>4 DEF CapIn
<1> QED BY <1>3, <1>5

LEMMA TradesStay ==
  ASSUME NEW mem, IsMemory(mem), NEW new, IsMemory(new), Len(mem) <= Len(new),
         \A i \in 1 .. Len(mem) : new[i] = mem[i],
         NEW r, NEW t, KeepsPools(r, t, mem)
  PROVE  KeepsPools(r, t, new)
<1>1. IsSliceIn(t.route, mem)
  BY DEF KeepsPools
<1>2. IsSliceIn(t.route, new) /\ ContentsIn(t.route, new) = ContentsIn(t.route, mem)
  BY <1>1, SlicesStay
<1> QED BY <1>2 DEF KeepsPools

(* A step of the way under at most three hops: no array is written, and the  *)
(* new one is full if the call it is for can go on.                          *)
LEMMA ExtendedAllocates ==
  ASSUME RoutesInv, InLoop, NEW e, e = Extended(Top.current, ThisPool)
  PROVE  /\ IsMemory(e.arrays) /\ Len(arrays) <= Len(e.arrays)
         /\ IsSliceIn(e.slice, e.arrays) /\ e.slice.len = Len(frames)
         /\ \A i \in 1 .. Len(arrays) : e.arrays[i] = arrays[i]
         /\ request.exactIn /\ Top.maxHops > 1 => CapIn(e.slice, e.arrays) = Len(frames)
<1>1. /\ SearchInv /\ AtMostThreeHops /\ RoutesFit(request, frames, arrays, bestTrades)
      /\ request \in Requests /\ IsMemory(arrays)
  BY DEF RoutesInv, SearchInv
<1>2. /\ Len(frames) \in Nat /\ Len(frames) > 0
      /\ IsSliceIn(Top.current, arrays) /\ Top.current.len = Len(frames)-1 /\ ThisPool \in Pool
  BY <1>1, TopFacts DEF InLoop
<1>3. /\ IsMemory(e.arrays) /\ Len(arrays) <= Len(e.arrays)
      /\ IsSliceIn(e.slice, e.arrays) /\ e.slice.len = Top.current.len + 1
      /\ ~request.exactIn \/ Top.current.len >= Cap(Top.current) =>
           \A i \in 1 .. Len(arrays) : e.arrays[i] = arrays[i]
      /\ request.exactIn /\ Top.current.len >= Cap(Top.current) =>
           Len(e.arrays[e.slice.array]) = Grown(Cap(Top.current))
  BY <1>1, <1>2, ExtendedFacts
<1>4. request.exactIn => Cap(Top.current) = Len(frames)-1
  <2>1. Len(frames) \in 1 .. Len(frames) /\ Top = frames[Len(frames)]
    BY <1>2 DEF Top, Last
  <2>2. Cap(Top.current) = CapIn(Top.current, arrays)
    BY DEF Cap, CapIn
  <2> QED BY <1>1, <2>1, <2>2 DEF RoutesFit
<1>5. ~request.exactIn \/ Top.current.len >= Cap(Top.current)
  BY <1>2, <1>4
<1>6. ASSUME request.exactIn, Top.maxHops > 1 PROVE CapIn(e.slice, e.arrays) = Len(frames)
  <2>1. /\ Len(frames) \in 1 .. Len(frames) /\ Top = frames[Len(frames)]
        /\ request.maxHops \in Int /\ request.maxHops <= 3
    BY <1>1, <1>2, <1>6, StackFacts DEF Top, Last, AtMostThreeHops
  <2>2. Top.maxHops = request.maxHops - (Len(frames)-1)
    BY <1>1, <2>1, ListIsWhatIsLeft
  <2>3. Len(frames) = 1 \/ Len(frames) = 2
    <3>1. ASSUME NEW n \in Nat, n > 0, NEW h \in Int, h <= 3, h - (n-1) > 1 PROVE n = 1 \/ n = 2
      BY <3>1
    <3>2. request.maxHops - (Len(frames)-1) > 1
      BY <1>6, <2>2
    <3> QED BY <1>2, <2>1, <3>1, <3>2
  <2>4. Len(e.arrays[e.slice.array]) = Grown(Len(frames)-1)
    BY <1>3, <1>4, <1>5, <1>6
  <2>5. Grown(Len(frames)-1) = Len(frames)
    <3>1. Grown(1-1) = 1 /\ Grown(2-1) = 2
      BY DEF Grown
    <3> QED BY <2>3, <3>1
  <2>6. e.slice.array # 0
    <3>1. e.slice.len # 0 /\ e.slice.len \in Nat /\ e.slice.len <= CapIn(e.slice, e.arrays)
      BY <1>2, <1>3 DEF IsSliceIn
    <3> QED BY <3>1 DEF CapIn
  <2> QED BY <2>4, <2>5, <2>6 DEF CapIn
<1>7. e.slice.len = Len(frames)
  BY <1>2, <1>3
<1> QED BY <1>3, <1>5, <1>6, <1>7

(* The trade of a route that arrives keeps its pools.                        *)
LEMMA NewTradeKeeps ==
  ASSUME NEW slice, NEW mem, IsMemory(mem), IsSliceIn(slice, mem), slice.len > 0,
         NEW pools, pools = SubSeq(mem[slice.array], 1, slice.len)
  PROVE  KeepsPools(request, TradeOf(slice, pools), mem)
<1>1. slice.len \in Nat /\ pools = ContentsIn(slice, mem)
  BY DEF IsSliceIn, Slice, ContentsIn
<1>2. Len(pools) = slice.len
  BY <1>1, ContentsFacts
<1>3. RouteAmount(pools) = RouteAmountFor(request, ContentsIn(slice, mem))
  BY <1>1, RouteAmountIsFor
<1> QED BY <1>2, <1>3 DEF KeepsPools, TradeOf
-----------------------------------------------------------------------------
(* Every operation keeps the routes' pools.                                  *)
LEMMA RoutesStep ==
  ASSUME RoutesInv, [Next]_vars
  PROVE  RoutesInv'
<1>1. /\ SearchInv /\ AtMostThreeHops /\ RoutesFit(request, frames, arrays, bestTrades)
      /\ request \in Requests /\ IsMemory(arrays) /\ StackFits(frames, arrays)
      /\ status = "searching" => frames # <<>>
  BY DEF RoutesInv, SearchInv
<1>2. SearchInv' /\ AtMostThreeHops'
  BY <1>1, SearchStep DEF AtMostThreeHops
<1>3. ASSUME RoutesFit(request', frames', arrays', bestTrades') PROVE RoutesInv'
  BY <1>2, <1>3 DEF RoutesInv
<1>4. ASSUME NEW e, ReturnError(e) PROVE RoutesInv'
  <2>1. frames' = <<>> /\ bestTrades' = <<>>
    BY <1>4 DEF ReturnError
  <2>2. <<>> \in Seq({}) /\ Len(<<>>) = 0
    BY EmptySeq
  <2>3. RoutesFit(request', <<>>, arrays', <<>>)
    BY <2>2 DEF RoutesFit
  <2> QED BY <1>3, <2>1, <2>3
<1>5. ASSUME NEW fs, NEW n \in Nat, Len(fs) = n, n <= Len(frames),
             \A k \in 1 .. n : fs[k].current = frames[k].current
      PROVE  RoutesFit(request, fs, arrays, bestTrades)
  <2>1. Len(frames) \in Nat
    BY <1>1, StackFacts
  <2>2. \A k \in 1 .. n : k \in 1 .. Len(frames)
    BY <1>5, <2>1
  <2> QED BY <1>1, <1>5, <2>2 DEF RoutesFit
<1>6. ASSUME frames # <<>>, frames' = Advanced(frames),
             UNCHANGED <<request, arrays, bestTrades>>
      PROVE  RoutesInv'
  <2>1. Len(Advanced(frames)) = Len(frames) /\ \A k \in 1 .. Len(frames) : Advanced(frames)[k].current = frames[k].current
    BY <1>1, <1>6, AdvancedFits
  <2>2. Len(frames) \in Nat
    BY <1>1, StackFacts
  <2>3. RoutesFit(request, Advanced(frames), arrays, bestTrades)
    BY <1>5, <2>1, <2>2
  <2> QED BY <1>3, <1>6, <2>3
<1>7. CASE Begin
  <2>1. CASE \E e : ReturnError(e)
    BY <1>4, <2>1
  <2>2. CASE ~\E e : ReturnError(e)
    <3> DEFINE f == Frame(request.pools, Nil, From, request.amount, request.maxHops)
    <3>1. frames' = <<f>> /\ request' = request /\ arrays' = arrays /\ bestTrades' = bestTrades
      BY <1>7, <2>2 DEF Begin
    <3>2. CapIn(f.current, arrays) = 0
      BY DEF Frame, Nil, CapIn
    <3> HIDE DEF f
    <3>3. \A k \in 1 .. Len(<<f>>) : CapIn(<<f>>[k].current, arrays) = k-1
      BY <3>2
    <3>4. RoutesFit(request, <<f>>, arrays, bestTrades)
      BY <1>1, <3>3 DEF RoutesFit
    <3> QED BY <1>3, <3>1, <3>4
  <2> QED BY <2>1, <2>2
<1>8. CASE Skip
  BY <1>1, <1>6, <1>8 DEF Skip, InLoop
<1>9. CASE FailToQuote
  BY <1>4, <1>9 DEF FailToQuote
<1>10. CASE Arrive
  <2> DEFINE e == Extended(Top.current, ThisPool)
             pools == SubSeq(e.arrays[e.slice.array], 1, e.slice.len)
             t == TradeOf(e.slice, pools)
  <2>1. InLoop /\ status = "searching" /\ frames # <<>> /\ arrays' = e.arrays /\ request' = request
    BY <1>1, <1>10 DEF Arrive, Quoted, InLoop
  <2>2. CASE \E x : ReturnError(x)
    BY <1>4, <2>2
  <2>3. CASE ~\E x : ReturnError(x)
    <3>1. /\ frames' = Advanced(frames)
          /\ bestTrades' = sortedInsert(bestTrades, t, request.maxNumResults)
      BY <1>10, <2>3 DEF Arrive
    <3>2. pools = SubSeq(e.arrays[e.slice.array], 1, e.slice.len) /\ t = TradeOf(e.slice, pools)
      OBVIOUS
    <3> HIDE DEF t, pools
    <3>3. e = Extended(Top.current, ThisPool)
      OBVIOUS
    <3> HIDE DEF e
    <3>4. /\ IsMemory(e.arrays) /\ Len(arrays) <= Len(e.arrays)
          /\ IsSliceIn(e.slice, e.arrays) /\ e.slice.len = Len(frames)
          /\ \A i \in 1 .. Len(arrays) : e.arrays[i] = arrays[i]
      BY <2>1, <3>3, ExtendedAllocates
    <3>5. /\ Len(frames) \in Nat /\ Len(frames) > 0
          /\ \A k \in 1 .. Len(frames) : IsSliceIn(frames[k].current, arrays)
      BY <1>1, <2>1, StackFacts, TopFacts
    <3>6. KeepsPools(request, t, e.arrays)
      BY <3>2, <3>4, <3>5, NewTradeKeeps
    <3> DEFINE good == {x \in {bestTrades[k] : k \in 1 .. Len(bestTrades)} \cup {t} : KeepsPools(request, x, e.arrays)}
    <3>7. bestTrades \in Seq(good)
      <4>1. PICK S : bestTrades \in Seq(S)
        BY <1>1 DEF RoutesFit
      <4>2. \A k \in 1 .. Len(bestTrades) : KeepsPools(request, bestTrades[k], e.arrays)
        <5> TAKE k \in 1 .. Len(bestTrades)
        <5>1. KeepsPools(request, bestTrades[k], arrays)
          BY <1>1 DEF RoutesFit
        <5> QED BY <1>1, <3>4, <5>1, TradesStay
      <4>3. \A k \in 1 .. Len(bestTrades) : bestTrades[k] \in good
        BY <4>2
      <4>4. Len(bestTrades) \in Nat /\ bestTrades = [k \in 1 .. Len(bestTrades) |-> bestTrades[k]]
        BY <4>1, LenProperties
      <4> HIDE DEF good
      <4>5. bestTrades \in [1 .. Len(bestTrades) -> good]
        BY <4>3, <4>4
      <4> QED BY <4>4, <4>5, SeqDef
    <3>8. t \in good
      BY <3>6
    <3>9. bestTrades' \in Seq(good)
      <4> HIDE DEF good
      <4> QED BY <3>1, <3>7, <3>8, SortedInsertFacts
    <3>10. \A k \in 1 .. Len(bestTrades') : KeepsPools(request, bestTrades'[k], e.arrays)
      <4> TAKE k \in 1 .. Len(bestTrades')
      <4>1. bestTrades'[k] \in good
        <5> HIDE DEF good
        <5> QED BY <3>9, ElementOfSeq
      <4> QED BY <4>1
    <3> HIDE DEF good
    <3>11. request.exactIn => \A k \in 1 .. Len(frames') : CapIn(frames'[k].current, e.arrays) = k-1
      <4> SUFFICES ASSUME request.exactIn, NEW k \in 1 .. Len(frames')
                   PROVE  CapIn(frames'[k].current, e.arrays) = k-1
        OBVIOUS
      <4>1. k \in 1 .. Len(frames) /\ frames'[k].current = frames[k].current
        BY <1>1, <2>1, <3>1, AdvancedFits
      <4>2. CapIn(frames[k].current, arrays) = k-1
        BY <1>1, <4>1 DEF RoutesFit
      <4>3. CapIn(frames[k].current, e.arrays) = CapIn(frames[k].current, arrays)
        BY <1>1, <3>4, <3>5, <4>1, SlicesStay
      <4> QED BY <4>1, <4>2, <4>3
    <3>12. RoutesFit(request, frames', e.arrays, bestTrades')
      BY <3>9, <3>10, <3>11 DEF RoutesFit
    <3> QED BY <1>3, <2>1, <3>12
  <2> QED BY <2>2, <2>3
<1>11. CASE Descend
  <2> DEFINE e == Extended(Top.current, ThisPool)
             g == Frame(Excluding(Top.pools, Top.i), e.slice, Other(ThisPool, Top.token),
                        Quote(ThisPool, Top.token, Top.amount), Top.maxHops - 1)
  <2>1. /\ InLoop /\ status = "searching" /\ Top.maxHops > 1 /\ g.current = e.slice
        /\ arrays' = e.arrays /\ frames' = Append(frames, g)
        /\ request' = request /\ bestTrades' = bestTrades
    BY <1>11 DEF Descend, Quoted, CanDescend, InLoop, Frame
  <2>2. e = Extended(Top.current, ThisPool)
    OBVIOUS
  <2> HIDE DEF e, g
  <2>3. /\ IsMemory(e.arrays) /\ Len(arrays) <= Len(e.arrays)
        /\ \A i \in 1 .. Len(arrays) : e.arrays[i] = arrays[i]
        /\ request.exactIn => CapIn(e.slice, e.arrays) = Len(frames)
    BY <2>1, <2>2, ExtendedAllocates
  <2>4. Len(frames) \in Nat /\ \A k \in 1 .. Len(frames) : IsSliceIn(frames[k].current, arrays)
    BY <1>1, StackFacts
  <2>5. /\ Len(Append(frames, g)) = Len(frames) + 1
        /\ \A k \in 1 .. Len(frames) : Append(frames, g)[k] = frames[k]
        /\ Append(frames, g)[Len(frames) + 1] = g
    <3>1. PICK A : frames \in Seq(FramesWith(A))
      BY <1>1 DEF StackFits
    <3> DEFINE B == FramesWith(A) \cup {g}
    <3>2. frames \in Seq(B) /\ g \in B
      BY <3>1, SeqMonotonic
    <3> HIDE DEF B
    <3> QED BY <3>2, AppendProperties
  <2>6. request.exactIn => \A k \in 1 .. Len(frames') : CapIn(frames'[k].current, e.arrays) = k-1
    <3> SUFFICES ASSUME request.exactIn, NEW k \in 1 .. Len(frames')
                 PROVE  CapIn(frames'[k].current, e.arrays) = k-1
      OBVIOUS
    <3>1. CASE k = Len(frames) + 1
      BY <2>1, <2>3, <2>4, <2>5, <3>1
    <3>2. CASE k # Len(frames) + 1
      <4>1. k \in 1 .. Len(frames) /\ frames'[k] = frames[k]
        BY <2>1, <2>4, <2>5, <3>2
      <4>2. CapIn(frames[k].current, arrays) = k-1
        BY <1>1, <4>1 DEF RoutesFit
      <4>3. CapIn(frames[k].current, e.arrays) = CapIn(frames[k].current, arrays)
        BY <1>1, <2>3, <2>4, <4>1, SlicesStay
      <4> QED BY <4>1, <4>2, <4>3
    <3> QED BY <3>1, <3>2
  <2>7. \A k \in 1 .. Len(bestTrades) : KeepsPools(request, bestTrades[k], e.arrays)
    <3> TAKE k \in 1 .. Len(bestTrades)
    <3>1. KeepsPools(request, bestTrades[k], arrays)
      BY <1>1 DEF RoutesFit
    <3> QED BY <1>1, <2>3, <3>1, TradesStay
  <2>8. \E S : bestTrades \in Seq(S)
    BY <1>1 DEF RoutesFit
  <2>9. RoutesFit(request, frames', e.arrays, bestTrades)
    BY <2>6, <2>7, <2>8 DEF RoutesFit
  <2> QED BY <1>3, <2>1, <2>9
<1>12. CASE DeadEnd
  BY <1>1, <1>6, <1>12 DEF DeadEnd, Quoted, InLoop
<1>13. CASE Leave
  <2>1. frames # <<>> /\ arrays' = arrays /\ request' = request /\ bestTrades' = bestTrades
    BY <1>1, <1>13 DEF Leave
  <2>2. Len(frames) \in Nat
    BY <1>1, StackFacts
  <2>3. CASE Len(frames) = 1
    <3>1. frames' = <<>> /\ Len(<<>>) = 0
      BY <1>13, <2>3, EmptySeq DEF Leave
    <3>2. RoutesFit(request, <<>>, arrays, bestTrades)
      BY <1>5, <2>2, <3>1
    <3> QED BY <1>3, <2>1, <3>1, <3>2
  <2>4. CASE Len(frames) # 1
    <3> DEFINE fs == Front(frames)
    <3>1. frames' = Advanced(fs)
      BY <1>13, <2>4 DEF Leave
    <3>2. /\ StackFits(fs, arrays) /\ fs # <<>> /\ Len(fs) = Len(frames)-1
          /\ \A k \in 1 .. Len(frames)-1 : fs[k] = frames[k]
      BY <1>1, <2>1, <2>4, FrontFits
    <3> HIDE DEF fs
    <3>3. Len(Advanced(fs)) = Len(fs) /\ \A k \in 1 .. Len(fs) : Advanced(fs)[k].current = fs[k].current
      BY <3>2, AdvancedFits
    <3>4. Len(frames)-1 \in Nat
      <4>1. \E A : fs \in Seq(FramesWith(A))
        BY <3>2 DEF StackFits
      <4> QED BY <3>2, <4>1, LenProperties
    <3>5. \A k \in 1 .. Len(frames)-1 : Advanced(fs)[k].current = frames[k].current
      BY <3>2, <3>3
    <3>6. Len(frames)-1 <= Len(frames) /\ Len(Advanced(fs)) = Len(frames)-1
      BY <2>2, <3>2, <3>3
    <3>7. RoutesFit(request, Advanced(fs), arrays, bestTrades)
      BY <1>5, <3>4, <3>5, <3>6
    <3> QED BY <1>3, <2>1, <3>1, <3>7
  <2> QED BY <2>3, <2>4
<1>14. CASE UNCHANGED vars
  BY <1>1, <1>3, <1>14 DEF vars
<1> QED BY <1>7, <1>8, <1>9, <1>10, <1>11, <1>12, <1>13, <1>14 DEF Next

LEMMA RoutesStart ==
  ASSUME Init, AtMostThreeHops
  PROVE  RoutesInv
<1>1. frames = <<>> /\ bestTrades = <<>>
  BY DEF Init
<1>2. <<>> \in Seq({}) /\ Len(<<>>) = 0
  BY EmptySeq
<1>3. RoutesFit(request, <<>>, arrays, <<>>)
  BY <1>2 DEF RoutesFit
<1> QED BY <1>1, <1>3, SearchStarts DEF RoutesInv

(* With the options' default of at most three hops - and with any number of  *)
(* them from the output back - a trade that was found keeps the pools that   *)
(* give its amounts, whatever routes are extended after it.  MCSharedRoute   *)
(* shows that three is the most for which this is so.                        *)
THEOREM ThreeHopsKeepTheirPools == AtMostThreeHops => (Spec => []RoutesKeepTheirPools)
<1>1. Init /\ AtMostThreeHops => RoutesInv
  BY RoutesStart
<1>2. RoutesInv /\ [Next]_vars => RoutesInv'
  BY RoutesStep
<1>3. RoutesInv => RoutesKeepTheirPools
  <2> SUFFICES ASSUME RoutesInv, NEW k \in DOMAIN bestTrades
               PROVE  LET t == bestTrades[k]
                          given == RouteAmount(Contents(t.route))
                      IN  /\ t.hops = t.route.len + 1
                          /\ IF request.exactIn THEN t.input = request.amount /\ t.output = given
                             ELSE t.output = request.amount /\ t.input = given
    BY DEF RoutesKeepTheirPools
  <2> DEFINE t == bestTrades[k]
  <2>1. RoutesFit(request, frames, arrays, bestTrades)
    BY DEF RoutesInv
  <2>2. k \in 1 .. Len(bestTrades)
    <3>1. PICK S : bestTrades \in Seq(S)
      BY <2>1 DEF RoutesFit
    <3> QED BY <3>1, LenProperties
  <2>3. KeepsPools(request, t, arrays)
    BY <2>1, <2>2 DEF RoutesFit
  <2>4. Contents(t.route) = ContentsIn(t.route, arrays)
    BY DEF Contents, ContentsIn
  <2>5. RouteAmount(Contents(t.route)) = RouteAmountFor(request, ContentsIn(t.route, arrays))
    BY <2>4, RouteAmountIsFor
  <2> QED BY <2>3, <2>5 DEF KeepsPools
<1> QED BY <1>1, <1>2, <1>3, PTL DEF Spec
-----------------------------------------------------------------------------
(* The list of the best trades.  One trade is better than another by more    *)
(* output, then less input, then fewer hops, which is what the comparator    *)
(* says.                                                                     *)
IsTrade(t) == t.input \in Int /\ t.output \in Int /\ t.hops \in Int

LEMMA BeatsFacts ==
  ASSUME NEW a, IsTrade(a), NEW b, IsTrade(b), NEW c, IsTrade(c)
  PROVE  /\ ~Beats(a, a)
         /\ ~Beats(a, b) /\ ~Beats(b, c) => ~Beats(a, c)
         /\ Beats(a, b) /\ ~Beats(c, b) => Beats(a, c)
         /\ Beats(a, b) /\ Beats(b, c) => Beats(a, c)
         /\ tradeComparator(a, b) \in Int
         /\ tradeComparator(a, b) > 0 <=> Beats(b, a)
BY DEF Beats, tradeComparator, IsTrade

(* Of items and new, new has add in the i-th place, where the trades begin   *)
(* that it beats.                                                            *)
PutAt(items, add, i, new) ==
  /\ \A k \in 1 .. Len(new) : new[k] = IF k < i THEN items[k] ELSE IF k = i THEN add ELSE items[k-1]
  /\ \A k \in 1 .. Len(items) : Beats(add, items[k]) <=> k >= i

(* The trade that is added goes before the first that it beats, and the last *)
(* falls out of a list that is full.                                         *)
LEMMA SortedInsertIs ==
  ASSUME NEW S, \A t \in S : IsTrade(t), NEW items \in Seq(S), NEW add \in S,
         NEW maxSize \in Nat, maxSize > 0, Len(items) <= maxSize,
         \A i, j \in 1 .. Len(items) : i < j => ~Beats(items[j], items[i])
  PROVE  LET n == Len(items)
             new == sortedInsert(items, add, maxSize)
             m == IF n = maxSize THEN maxSize ELSE n+1
         IN  /\ new \in Seq(S)
             /\ \/ n = maxSize /\ new = items /\ \A k \in 1 .. n : ~Beats(add, items[k])
                \/ Len(new) = m /\ \E i \in 1 .. n+1 : PutAt(items, add, i, new)
<1> DEFINE n == Len(items)
           new == sortedInsert(items, add, maxSize)
           m == IF n = maxSize THEN maxSize ELSE n+1
           after == {k \in DOMAIN items : tradeComparator(items[k], add) > 0}
           i == CHOOSE k \in after \cup {n+1} : \A x \in after : k <= x
           a == SubSeq(items, 1, i-1)  b == SubSeq(items, i, n)
           longer == Inserted(items, add)
<1>1. n \in Nat /\ DOMAIN items = 1 .. n /\ \A k \in 1 .. n : items[k] \in S /\ IsTrade(items[k])
  BY LenProperties, ElementOfSeq
<1>2. IsTrade(add) /\ new \in Seq(S)
  BY SortedInsertFacts
<1>3. after \subseteq 1 .. n /\ \A k \in 1 .. n : k \in after <=> Beats(add, items[k])
  BY <1>1, <1>2, BeatsFacts
<1>4. i \in after \cup {n+1} /\ \A x \in after : i <= x
  <2>1. after \subseteq 1 .. n /\ n \in Nat
    BY <1>1, <1>3
  <2> HIDE DEF after, n
  <2> QED BY <2>1, InsertionPoint
<1>5. longer = a \o <<add>> \o b
  BY DEF Inserted, InsertAt
<1> HIDE DEF i, longer, after, new
<1>6. i \in 1 .. n+1
  BY <1>1, <1>3, <1>4
<1>7. \A k \in 1 .. n : Beats(add, items[k]) <=> k >= i
  <2> TAKE k \in 1 .. n
  <2>1. CASE k < i
    BY <1>3, <1>4, <1>6, <2>1
  <2>2. CASE k = i
    BY <1>1, <1>3, <1>4, <2>2
  <2>3. CASE k > i
    <3>1. i \in 1 .. n /\ i \in after
      BY <1>1, <1>4, <1>6, <2>3
    <3>2. Beats(add, items[i]) /\ ~Beats(items[k], items[i])
      BY <1>3, <2>3, <3>1
    <3> QED BY <1>1, <1>2, <2>3, <3>1, <3>2, BeatsFacts
  <2> QED BY <1>6, <2>1, <2>2, <2>3
<1>8. a \in Seq(S) /\ Len(a) = i-1 /\ \A k \in 1 .. i-1 : a[k] = items[k]
  <2>1. \A k \in 1 .. i-1 : items[k] \in S
    BY <1>1, <1>6
  <2>2. /\ a \in Seq(S) /\ Len(a) = IF 1 <= i-1 THEN (i-1)-1+1 ELSE 0
        /\ \A k \in 1 .. (i-1)-1+1 : a[k] = items[1+k-1]
    BY <1>1, <1>6, <2>1, SubSeqProperties
  <2> QED BY <1>1, <1>6, <2>2
<1>9. b \in Seq(S) /\ Len(b) = n-i+1 /\ \A k \in 1 .. n-i+1 : b[k] = items[i+k-1]
  <2>1. \A k \in i .. n : items[k] \in S
    BY <1>1, <1>6
  <2>2. /\ b \in Seq(S) /\ Len(b) = IF i <= n THEN n-i+1 ELSE 0
        /\ \A k \in 1 .. n-i+1 : b[k] = items[i+k-1]
    BY <1>1, <1>6, <2>1, SubSeqProperties
  <2> QED BY <1>1, <1>6, <2>2
<1> HIDE DEF a, b
<1>10. /\ longer \in Seq(S) /\ Len(longer) = n+1
       /\ \A k \in 1 .. n+1 : longer[k] = IF k < i THEN items[k] ELSE IF k = i THEN add ELSE items[k-1]
  <2> DEFINE c == a \o <<add>>
  <2>1. <<add>> \in Seq(S) /\ Len(<<add>>) = 1 /\ <<add>>[1] = add
    OBVIOUS
  <2>2. /\ c \in Seq(S) /\ Len(c) = Len(a) + 1
        /\ \A k \in 1 .. Len(a) + 1 : c[k] = IF k <= Len(a) THEN a[k] ELSE <<add>>[k - Len(a)]
    BY <1>8, <2>1, ConcatProperties
  <2>3. Len(c) = i /\ \A k \in 1 .. i : c[k] = IF k < i THEN items[k] ELSE add
    <3>1. Len(a) + 1 = i
      BY <1>6, <1>8
    <3>2. ASSUME NEW k \in 1 .. i PROVE c[k] = IF k < i THEN items[k] ELSE add
      <4>1. CASE k < i
        <5>1. k <= Len(a) /\ k \in 1 .. i-1
          BY <1>6, <1>8, <4>1
        <5> QED BY <1>8, <2>2, <3>1, <4>1, <5>1
      <4>2. CASE ~(k < i)
        <5>1. ~(k <= Len(a)) /\ k - Len(a) = 1
          BY <1>6, <1>8, <4>2
        <5> QED BY <2>1, <2>2, <3>1, <4>2, <5>1
      <4> QED BY <4>1, <4>2
    <3> QED BY <2>2, <3>1, <3>2
  <2>4. longer = c \o b
    BY <1>5
  <2> HIDE DEF c
  <2>5. /\ longer \in Seq(S) /\ Len(longer) = Len(c) + Len(b)
        /\ \A k \in 1 .. Len(c) + Len(b) : longer[k] = IF k <= Len(c) THEN c[k] ELSE b[k - Len(c)]
    BY <1>9, <2>2, <2>4, ConcatProperties
  <2>6. Len(c) + Len(b) = n+1
    BY <1>1, <1>6, <1>9, <2>3
  <2>7. ASSUME NEW k \in 1 .. n+1
        PROVE  longer[k] = IF k < i THEN items[k] ELSE IF k = i THEN add ELSE items[k-1]
    <3>1. CASE k <= i
      <4>1. k \in 1 .. i
        BY <1>6, <3>1
      <4> QED BY <1>6, <2>3, <2>5, <2>6, <3>1, <4>1
    <3>2. CASE ~(k <= i)
      <4>1. k-i \in 1 .. n-i+1 /\ i+(k-i)-1 = k-1 /\ ~(k < i) /\ k # i
        BY <1>1, <1>6, <3>2
      <4>2. longer[k] = b[k-i]
        BY <2>3, <2>5, <2>6, <3>2
      <4> QED BY <1>9, <4>1, <4>2
    <3> QED BY <3>1, <3>2
  <2> QED BY <2>5, <2>6, <2>7
<1>11. m \in Nat /\ m <= n+1 /\ m > 0
  <2>1. CASE n = maxSize
    BY <1>1, <2>1
  <2>2. CASE n # maxSize
    <3>1. m = n+1 /\ n \in Nat
      BY <1>1, <2>2
    <3> QED BY <3>1
  <2> QED BY <2>1, <2>2
<1>12. Len(SubSeq(longer, 1, m)) = m /\ \A k \in 1 .. m : SubSeq(longer, 1, m)[k] = longer[k]
  <2>1. \A k \in 1 .. m : longer[k] \in S
    <3> HIDE DEF m, n
    <3>1. \A k \in 1 .. m : k \in 1 .. Len(longer)
      BY <1>1, <1>10, <1>11
    <3> QED BY <1>10, <3>1, ElementOfSeq
  <2>2. /\ Len(SubSeq(longer, 1, m)) = IF 1 <= m THEN m-1+1 ELSE 0
        /\ \A k \in 1 .. m-1+1 : SubSeq(longer, 1, m)[k] = longer[1+k-1]
    BY <1>11, <2>1, SubSeqProperties
  <2> HIDE DEF m
  <2> QED BY <1>11, <2>2
<1>13. CASE n = maxSize /\ tradeComparator(items[maxSize], add) <= 0
  <2>1. new = items
    BY <1>13 DEF new, sortedInsert
  <2>2. maxSize \in 1 .. n
    BY <1>1, <1>13
  <2>3. ~Beats(add, items[n])
    <3>1. ~(tradeComparator(items[maxSize], add) > 0)
      BY <1>1, <1>2, <1>13, <2>2, BeatsFacts
    <3> QED BY <1>1, <1>2, <1>13, <2>2, <3>1, BeatsFacts
  <2>4. \A k \in 1 .. n : ~Beats(add, items[k])
    <3>1. n \in 1 .. n
      BY <1>13, <2>2
    <3>2. ~(n >= i)
      BY <1>7, <2>3, <3>1
    <3>3. \A k \in 1 .. n : ~(k >= i)
      BY <1>1, <1>6, <3>2
    <3> QED BY <1>7, <3>3
  <2> QED BY <1>2, <1>13, <2>1, <2>4 DEF new
<1>14. CASE ~(n = maxSize /\ tradeComparator(items[maxSize], add) <= 0)
  <2>1. new = SubSeq(longer, 1, m)
    BY <1>14 DEF new, sortedInsert, longer
  <2>2. \A k \in 1 .. m : k \in 1 .. n+1
    <3> HIDE DEF m, n
    <3> QED BY <1>1, <1>11
  <2>3. Len(new) = m /\ \A k \in 1 .. m : new[k] = IF k < i THEN items[k] ELSE IF k = i THEN add ELSE items[k-1]
    BY <1>10, <1>12, <2>1, <2>2
  <2> HIDE DEF m
  <2>4. Len(new) = m /\ PutAt(items, add, i, new)
    BY <1>7, <2>3 DEF PutAt
  <2> QED BY <1>2, <1>6, <2>4 DEF new, m
<1> QED BY <1>13, <1>14
-----------------------------------------------------------------------------
(* The answer for a set of routes: in order, as many as there are or are     *)
(* wanted, each with fewer better ones than its place and no fewer as good.  *)
Offer(s) == TradeOf(Nil, RouteOf(s))
Wanted == IF request.maxNumResults > 0 THEN request.maxNumResults ELSE 0
Better(C, x) == {s \in C : Beats(Offer(s), x)}
AsGood(C, x) == {s \in C : ~Beats(x, Offer(s))}

InOrder(trades) ==
  /\ trades \in Seq({t \in {trades[k] : k \in 1 .. Len(trades)} : IsTrade(t)})
  /\ \A j, k \in 1 .. Len(trades) : j < k => ~Beats(trades[k], trades[j])

Answers(C, trades) ==
  /\ IsFiniteSet(C) /\ \A s \in C : IsTrade(Offer(s))
  /\ InOrder(trades)
  /\ Len(trades) = IF Cardinality(C) < Wanted THEN Cardinality(C) ELSE Wanted
  /\ \A k \in 1 .. Len(trades) :
       Cardinality(Better(C, trades[k])) < k /\ Cardinality(AsGood(C, trades[k])) >= k

(* One route more counts as better, or as good, if it is.                    *)
LEMMA OneRouteMore ==
  ASSUME NEW C, IsFiniteSet(C), NEW s, s \notin C, NEW x
  PROVE  LET D == C \cup {s}
         IN  /\ IsFiniteSet(D) /\ Cardinality(C) \in Nat /\ Cardinality(D) = Cardinality(C) + 1
             /\ Cardinality(Better(C, x)) \in Nat /\ Cardinality(Better(C, x)) <= Cardinality(C)
             /\ Cardinality(AsGood(C, x)) \in Nat
             /\ Cardinality(Better(D, x)) = Cardinality(Better(C, x)) + (IF Beats(Offer(s), x) THEN 1 ELSE 0)
             /\ Cardinality(AsGood(D, x)) = Cardinality(AsGood(C, x)) + (IF Beats(x, Offer(s)) THEN 0 ELSE 1)
<1> DEFINE D == C \cup {s}
<1>1. IsFiniteSet(D) /\ Cardinality(C) \in Nat /\ Cardinality(D) = Cardinality(C) + 1
  BY FS_AddElement, FS_CardinalityType
<1>2. ASSUME NEW B, B \subseteq C
      PROVE  /\ Cardinality(B) \in Nat /\ Cardinality(B) <= Cardinality(C)
             /\ Cardinality(B \cup {s}) = Cardinality(B) + 1
  <2>1. IsFiniteSet(B) /\ s \notin B /\ Cardinality(B) <= Cardinality(C)
    BY <1>2, FS_Subset
  <2> QED BY <2>1, FS_AddElement, FS_CardinalityType
<1>3. /\ Better(C, x) \subseteq C /\ AsGood(C, x) \subseteq C
      /\ Better(D, x) = IF Beats(Offer(s), x) THEN Better(C, x) \cup {s} ELSE Better(C, x)
      /\ AsGood(D, x) = IF Beats(x, Offer(s)) THEN AsGood(C, x) ELSE AsGood(C, x) \cup {s}
  BY DEF Better, AsGood
<1> HIDE DEF D
<1>4. /\ Cardinality(Better(C, x)) \in Nat /\ Cardinality(Better(C, x)) <= Cardinality(C)
      /\ Cardinality(AsGood(C, x)) \in Nat
      /\ Cardinality(Better(C, x) \cup {s}) = Cardinality(Better(C, x)) + 1
      /\ Cardinality(AsGood(C, x) \cup {s}) = Cardinality(AsGood(C, x)) + 1
  BY <1>2, <1>3
<1>5. Cardinality(Better(D, x)) = Cardinality(Better(C, x)) + (IF Beats(Offer(s), x) THEN 1 ELSE 0)
  BY <1>3, <1>4
<1>6. Cardinality(AsGood(D, x)) = Cardinality(AsGood(C, x)) + (IF Beats(x, Offer(s)) THEN 0 ELSE 1)
  BY <1>3, <1>4
<1> QED BY <1>1, <1>4, <1>5, <1>6 DEF D

(* A trade that is no worse is among more that are as good, and one that is  *)
(* no better among fewer that are better.                                    *)
LEMMA BetterAndAsGood ==
  ASSUME NEW C, IsFiniteSet(C), \A s \in C : IsTrade(Offer(s)),
         NEW a, IsTrade(a), NEW b, IsTrade(b), ~Beats(b, a)
  PROVE  /\ Cardinality(Better(C, a)) <= Cardinality(Better(C, b))
         /\ Cardinality(AsGood(C, a)) <= Cardinality(AsGood(C, b))
<1>1. Better(C, a) \subseteq Better(C, b)
  <2> SUFFICES ASSUME NEW s \in C, Beats(Offer(s), a) PROVE Beats(Offer(s), b)
    BY DEF Better
  <2> DEFINE o == Offer(s)
  <2>1. IsTrade(o) /\ Beats(o, a)
    OBVIOUS
  <2> HIDE DEF o
  <2>2. Beats(o, b)
    BY <2>1, BeatsFacts
  <2> QED BY <2>2 DEF o
<1>2. AsGood(C, a) \subseteq AsGood(C, b)
  <2> SUFFICES ASSUME NEW s \in C, ~Beats(a, Offer(s)) PROVE ~Beats(b, Offer(s))
    BY DEF AsGood
  <2> DEFINE o == Offer(s)
  <2>1. IsTrade(o) /\ ~Beats(a, o)
    OBVIOUS
  <2> HIDE DEF o
  <2>2. ~Beats(b, o)
    BY <2>1, BeatsFacts
  <2> QED BY <2>2 DEF o
<1>3. IsFiniteSet(Better(C, b)) /\ IsFiniteSet(AsGood(C, b))
  <2>1. Better(C, b) \subseteq C /\ AsGood(C, b) \subseteq C
    BY DEF Better, AsGood
  <2> QED BY <2>1, FS_Subset
<1> QED BY <1>1, <1>2, <1>3, FS_Subset

(* Adding the trade of one more route makes the answer for one route more.   *)
LEMMA AddedAnswers ==
  ASSUME NEW C, NEW trades, Answers(C, trades), Wanted > 0, Wanted \in Nat,
         NEW s, s \notin C, NEW t, IsTrade(t),
         t.input = Offer(s).input, t.output = Offer(s).output, t.hops = Offer(s).hops
  PROVE  Answers(C \cup {s}, sortedInsert(trades, t, Wanted))
<1> DEFINE D == C \cup {s}  n == Len(trades)  w == Wanted  c == Cardinality(C)  o == Offer(s)
           new == sortedInsert(trades, t, w)  m == IF n = w THEN w ELSE n+1
           S == {x \in {trades[k] : k \in 1 .. n} \cup {t} : IsTrade(x)}
<1>1. /\ n \in Nat /\ c \in Nat /\ w \in Nat /\ w > 0 /\ n = (IF c < w THEN c ELSE w)
      /\ IsFiniteSet(C) /\ IsFiniteSet(D) /\ Cardinality(D) = c + 1
      /\ \A k \in 1 .. n : IsTrade(trades[k])
      /\ trades \in Seq(S) /\ t \in S /\ \A x \in S : IsTrade(x)
      /\ \A j, k \in 1 .. n : j < k => ~Beats(trades[k], trades[j])
  <2>1. /\ trades \in Seq({x \in {trades[k] : k \in 1 .. n} : IsTrade(x)})
        /\ \A j, k \in 1 .. n : j < k => ~Beats(trades[k], trades[j])
    BY DEF Answers, InOrder
  <2>2. n \in Nat /\ \A k \in 1 .. n : IsTrade(trades[k])
    BY <2>1, ElementOfSeq, LenProperties
  <2>3. trades \in Seq(S)
    <3>1. {x \in {trades[k] : k \in 1 .. n} : IsTrade(x)} \subseteq S
      OBVIOUS
    <3> HIDE DEF S
    <3> QED BY <2>1, <3>1, SeqMonotonic
  <2>4. t \in S /\ \A x \in S : IsTrade(x)
    OBVIOUS
  <2>5. IsFiniteSet(C) /\ n = IF c < w THEN c ELSE w
    BY DEF Answers
  <2>6. c \in Nat /\ IsFiniteSet(D) /\ Cardinality(D) = c + 1
    BY <2>5, OneRouteMore
  <2> HIDE DEF S, n, c, D
  <2> QED BY <2>1, <2>2, <2>3, <2>4, <2>5, <2>6
<1>2. /\ IsTrade(o) /\ \A x \in D : IsTrade(Offer(x))
      /\ \A x : (Beats(o, x) <=> Beats(t, x)) /\ (Beats(x, o) <=> Beats(x, t))
  <2>1. IsTrade(o)
    BY DEF IsTrade
  <2>2. \A x \in C : IsTrade(Offer(x))
    BY DEF Answers
  <2>3. \A x : (Beats(o, x) <=> Beats(t, x)) /\ (Beats(x, o) <=> Beats(x, t))
    BY DEF Beats
  <2> QED BY <2>1, <2>2, <2>3
<1>3. \A x : /\ Cardinality(Better(C, x)) \in Nat /\ Cardinality(Better(C, x)) <= c
             /\ Cardinality(AsGood(C, x)) \in Nat
             /\ Cardinality(Better(D, x)) = Cardinality(Better(C, x)) + (IF Beats(t, x) THEN 1 ELSE 0)
             /\ Cardinality(AsGood(D, x)) = Cardinality(AsGood(C, x)) + (IF Beats(x, t) THEN 0 ELSE 1)
  BY <1>1, <1>2, OneRouteMore
<1>4. \A k \in 1 .. n : Cardinality(Better(C, trades[k])) < k /\ Cardinality(AsGood(C, trades[k])) >= k
  BY DEF Answers
<1>5. /\ new \in Seq(S)
      /\ \/ n = w /\ new = trades /\ \A k \in 1 .. n : ~Beats(t, trades[k])
         \/ Len(new) = m /\ \E i \in 1 .. n+1 : PutAt(trades, t, i, new)
  <2>1. /\ trades \in Seq(S) /\ t \in S /\ \A x \in S : IsTrade(x)
        /\ w \in Nat /\ w > 0 /\ Len(trades) <= w
        /\ \A j, k \in 1 .. Len(trades) : j < k => ~Beats(trades[k], trades[j])
    <3> HIDE DEF S, w
    <3> QED BY <1>1
  <2> HIDE DEF S, w
  <2> QED BY <2>1, SortedInsertIs
<1>6. ~Beats(t, t)
  BY BeatsFacts
<1>7. ASSUME NEW x, IsTrade(x) PROVE Beats(t, x) => ~Beats(x, t)
  BY <1>7, BeatsFacts
<1> HIDE DEF D, S, new, n, w, c, o
<1>8. ASSUME Len(new) = (IF c + 1 < w THEN c + 1 ELSE w),
             \A j, k \in 1 .. Len(new) : j < k => ~Beats(new[k], new[j]),
             \A k \in 1 .. Len(new) :
               Cardinality(Better(D, new[k])) < k /\ Cardinality(AsGood(D, new[k])) >= k
      PROVE  Answers(D, new)
  <2>1. new \in Seq({x \in {new[k] : k \in 1 .. Len(new)} : IsTrade(x)})
    <3>1. \A k \in 1 .. Len(new) : IsTrade(new[k])
      BY <1>1, <1>5, ElementOfSeq
    <3> DEFINE R == {x \in {new[k] : k \in 1 .. Len(new)} : IsTrade(x)}
    <3>2. \A k \in 1 .. Len(new) : new[k] \in R
      BY <3>1
    <3>3. Len(new) \in Nat /\ new = [k \in 1 .. Len(new) |-> new[k]]
      BY <1>5, LenProperties
    <3> HIDE DEF R
    <3>4. new \in [1 .. Len(new) -> R]
      BY <3>2, <3>3
    <3> QED BY <3>3, <3>4, SeqDef DEF R
  <2> QED BY <1>1, <1>2, <1>8, <2>1 DEF Answers, InOrder, w
<1>9. ASSUME n = w, new = trades, \A k \in 1 .. n : ~Beats(t, trades[k])
      PROVE  Answers(D, new)
  <2>1. Len(new) = n
    BY <1>9 DEF n
  <2>2. Len(new) = IF c + 1 < w THEN c + 1 ELSE w
    BY <1>1, <1>9, <2>1
  <2>3. \A k \in 1 .. n : Cardinality(Better(D, new[k])) < k /\ Cardinality(AsGood(D, new[k])) >= k
    <3> TAKE k \in 1 .. n
    <3>1. /\ Cardinality(Better(D, trades[k])) = Cardinality(Better(C, trades[k])) + 0
          /\ Cardinality(AsGood(D, trades[k])) >= Cardinality(AsGood(C, trades[k]))
      BY <1>3, <1>9
    <3> QED BY <1>3, <1>4, <1>9, <3>1
  <2> QED BY <1>1, <1>8, <1>9, <2>1, <2>2, <2>3
<1>10. ASSUME Len(new) = m, NEW i \in 1 .. n+1, PutAt(trades, t, i, new)
       PROVE  Answers(D, new)
  <2>1. /\ Len(new) = m
        /\ \A k \in 1 .. m : new[k] = IF k < i THEN trades[k] ELSE IF k = i THEN t ELSE trades[k-1]
        /\ \A k \in 1 .. n : Beats(t, trades[k]) <=> k >= i
    BY <1>10 DEF PutAt, n
  <2>2. m \in Nat /\ m <= n+1 /\ m = (IF c + 1 < w THEN c + 1 ELSE w)
    BY <1>1
  <2>3. m = n+1 => n < w /\ n = c
    BY <1>1
  <2> HIDE DEF m
  <2>4. ASSUME NEW k \in 1 .. m, k < i
        PROVE  k \in 1 .. n /\ new[k] = trades[k] /\ ~Beats(t, new[k])
    BY <1>1, <2>1, <2>2, <2>4
  <2>5. ASSUME NEW k \in 1 .. m, k > i
        PROVE  k-1 \in 1 .. n /\ new[k] = trades[k-1] /\ Beats(t, new[k]) /\ k-1 >= i
    BY <1>1, <2>1, <2>2, <2>5
  <2>6. i \in 1 .. m => new[i] = t
    BY <2>1
  <2>7. ASSUME NEW k \in 1 .. m
        PROVE  Cardinality(Better(D, new[k])) < k /\ Cardinality(AsGood(D, new[k])) >= k
    <3>1. CASE k < i
      <4>1. /\ Cardinality(Better(D, new[k])) = Cardinality(Better(C, trades[k])) + 0
            /\ Cardinality(AsGood(D, new[k])) >= Cardinality(AsGood(C, trades[k]))
        BY <1>3, <2>4, <3>1
      <4> QED BY <1>3, <1>4, <2>4, <3>1, <4>1
    <3>2. CASE k > i
      <4>1. k-1 \in 1 .. n /\ new[k] = trades[k-1] /\ Beats(t, new[k])
        BY <2>5, <3>2
      <4>2. ~Beats(new[k], t)
        BY <1>1, <1>7, <4>1
      <4>3. /\ Cardinality(Better(D, new[k])) = Cardinality(Better(C, trades[k-1])) + 1
            /\ Cardinality(AsGood(D, new[k])) = Cardinality(AsGood(C, trades[k-1])) + 1
        BY <1>3, <4>1, <4>2
      <4>4. Cardinality(Better(C, trades[k-1])) < k-1 /\ Cardinality(AsGood(C, trades[k-1])) >= k-1
        BY <1>4, <4>1
      <4>5. Cardinality(Better(C, trades[k-1])) \in Nat /\ Cardinality(AsGood(C, trades[k-1])) \in Nat
        BY <1>3
      <4> QED BY <2>2, <4>3, <4>4, <4>5
    <3>3. CASE k = i
      <4>1. new[k] = t
        BY <2>6, <3>3
      <4>2. /\ Cardinality(Better(D, t)) = Cardinality(Better(C, t)) + 0
            /\ Cardinality(AsGood(D, t)) = Cardinality(AsGood(C, t)) + 1
        BY <1>3, <1>6
      <4>3. Cardinality(Better(C, t)) < k
        <5>1. CASE i \in 1 .. n
          <6>1. Beats(t, trades[i]) /\ ~Beats(trades[i], t) /\ IsTrade(trades[i])
            BY <1>1, <1>7, <2>1, <5>1
          <6>2. Cardinality(Better(C, t)) <= Cardinality(Better(C, trades[i]))
            BY <1>1, <6>1, BetterAndAsGood DEF Answers
          <6> QED BY <1>3, <1>4, <3>3, <5>1, <6>2
        <5>2. CASE i \notin 1 .. n
          <6>1. i = n+1 /\ m = n+1
            BY <1>1, <2>2, <3>3, <5>2
          <6> QED BY <1>1, <1>3, <2>3, <3>3, <6>1
        <5> QED BY <5>1, <5>2
      <4>4. Cardinality(AsGood(C, t)) >= k-1
        <5>1. CASE i = 1
          BY <1>3, <3>3, <5>1
        <5>2. CASE i # 1
          <6>1. i-1 \in 1 .. n /\ ~(i-1 >= i)
            BY <1>1, <5>2
          <6>2. ~Beats(t, trades[i-1]) /\ IsTrade(trades[i-1])
            BY <1>1, <2>1, <6>1
          <6>3. Cardinality(AsGood(C, trades[i-1])) <= Cardinality(AsGood(C, t))
            BY <1>1, <6>2, BetterAndAsGood DEF Answers
          <6> QED BY <1>3, <1>4, <3>3, <6>1, <6>3
        <5> QED BY <5>1, <5>2
      <4> QED BY <1>3, <2>2, <4>1, <4>2, <4>3, <4>4
    <3> QED BY <2>2, <3>1, <3>2, <3>3
  <2>8. ASSUME NEW j \in 1 .. m, NEW k \in 1 .. m, j < k
        PROVE  ~Beats(new[k], new[j])
    <3>1. CASE k < i
      <4>1. j < i
        BY <2>2, <2>8, <3>1
      <4> QED BY <1>1, <2>4, <2>8, <3>1, <4>1
    <3>2. CASE k = i
      BY <2>4, <2>6, <2>8, <3>2
    <3>3. CASE k > i
      <4>1. k-1 \in 1 .. n /\ new[k] = trades[k-1] /\ Beats(t, new[k]) /\ IsTrade(new[k])
        BY <1>1, <2>5, <3>3
      <4>2. CASE j < i
        <5>1. j \in 1 .. n /\ new[j] = trades[j] /\ j < k-1
          BY <2>4, <2>5, <3>3, <4>2
        <5> QED BY <1>1, <4>1, <5>1
      <4>3. CASE j = i
        <5>1. new[j] = t
          BY <2>6, <4>3
        <5> QED BY <1>7, <4>1, <5>1
      <4>4. CASE j > i
        <5>1. j-1 \in 1 .. n /\ new[j] = trades[j-1] /\ j-1 < k-1
          BY <2>5, <2>8, <4>4
        <5> QED BY <1>1, <4>1, <5>1
      <4> QED BY <2>2, <4>2, <4>3, <4>4
    <3> QED BY <2>2, <3>1, <3>2, <3>3
  <2>9. Len(new) = m
    BY <2>1
  <2> QED BY <1>8, <2>2, <2>7, <2>8, <2>9
<1>11. Answers(D, new)
  BY <1>5, <1>9, <1>10
<1> QED BY <1>11 DEF D, new, w
-----------------------------------------------------------------------------
(* The tokens of a walk, one after the other.                                *)
LEMMA TokensFollow ==
  ASSUME NEW s, Len(s) \in Nat
  PROVE  /\ TokenAfter(s)[0] = From
         /\ \A k \in 1 .. Len(s) : TokenAfter(s)[k] = Other(request.pools[s[k]], TokenAfter(s)[k-1])
<1> DEFINE IsTokens(g, n) ==
             g = [k \in 0 .. n |-> IF k = 0 THEN From ELSE Other(request.pools[s[k]], g[k-1])]
           T == {n \in Nat : \E g : IsTokens(g, n)}
           at == CHOOSE g : IsTokens(g, Len(s))
<1>1. 0 \in T
  <2> DEFINE g == [k \in 0 .. 0 |-> From]
  <2>1. \A k \in 0 .. 0 : k = 0
    OBVIOUS
  <2>2. g = [k \in 0 .. 0 |-> IF k = 0 THEN From ELSE Other(request.pools[s[k]], g[k-1])]
    BY <2>1
  <2> HIDE DEF g
  <2> QED BY <2>2
<1>2. ASSUME NEW n \in Nat, n \in T PROVE n+1 \in T
  <2>1. PICK g : IsTokens(g, n)
    BY <1>2
  <2> DEFINE h == [k \in 0 .. n+1 |-> IF k = n+1 THEN Other(request.pools[s[n+1]], g[n]) ELSE g[k]]
             v == [k \in 0 .. n+1 |-> IF k = 0 THEN From ELSE Other(request.pools[s[k]], h[k-1])]
  <2>2. \A k \in 0 .. n : g[k] = IF k = 0 THEN From ELSE Other(request.pools[s[k]], g[k-1])
    BY <2>1
  <2>3. \A k \in 0 .. n : h[k] = g[k]
    OBVIOUS
  <2>4. h[n+1] = Other(request.pools[s[n+1]], g[n])
    OBVIOUS
  <2>5. /\ DOMAIN h = 0 .. n+1 /\ h = [k \in 0 .. n+1 |-> h[k]]
        /\ \A k \in 0 .. n+1 : v[k] = IF k = 0 THEN From ELSE Other(request.pools[s[k]], h[k-1])
        /\ v = [k \in 0 .. n+1 |-> v[k]]
    OBVIOUS
  <2> HIDE DEF h, v
  <2>6. ASSUME NEW k \in 0 .. n+1 PROVE h[k] = v[k]
    <3>1. CASE k = n+1
      <4>1. k # 0 /\ k-1 = n /\ n \in 0 .. n
        BY <3>1
      <4>2. h[n] = g[n]
        BY <2>3, <4>1
      <4>3. v[k] = Other(request.pools[s[k]], h[n])
        BY <2>5, <4>1
      <4> QED BY <2>4, <3>1, <4>2, <4>3
    <3>2. CASE k = 0
      BY <2>2, <2>3, <2>5, <3>2
    <3>3. CASE k # n+1 /\ k # 0
      <4>1. k \in 0 .. n /\ k-1 \in 0 .. n
        BY <3>3
      <4> QED BY <2>2, <2>3, <2>5, <3>3, <4>1
    <3> QED BY <3>1, <3>2, <3>3
  <2>7. h = v
    BY <2>5, <2>6
  <2>8. IsTokens(h, n+1)
    BY <2>7 DEF v
  <2> HIDE DEF IsTokens
  <2> QED BY <2>8
<1>3. Len(s) \in T
  <2> HIDE DEF T
  <2>1. Nat \subseteq T
    BY <1>1, <1>2, InductionOnNat
  <2> QED BY <2>1
<1>4. IsTokens(at, Len(s))
  <2>1. \E g : IsTokens(g, Len(s))
    BY <1>3
  <2> HIDE DEF IsTokens
  <2> QED BY <2>1
<1>5. TokenAfter(s) = at
  BY DEF TokenAfter
<1> HIDE DEF at
<1>6. /\ 0 \in 0 .. Len(s)
      /\ \A k \in 1 .. Len(s) : k \in 0 .. Len(s) /\ k # 0
  OBVIOUS
<1>7. at[0] = From /\ \A k \in 1 .. Len(s) : at[k] = Other(request.pools[s[k]], at[k-1])
  BY <1>4, <1>6
<1> QED BY <1>5, <1>7

(* A walk is a sequence of different places, as long as the hops allow.      *)
LEMMA WalkFacts ==
  ASSUME SearchInv, NEW s
  PROVE  s \in Walks <=> /\ s \in Seq(1 .. Len(request.pools))
                         /\ Len(s) > 0 /\ Len(s) <= request.maxHops
                         /\ \A j, k \in 1 .. Len(s) : s[j] = s[k] => j = k
                         /\ Follows(s)
<1> DEFINE D == 1 .. Len(request.pools)
<1>1. request.pools \in Seq(Pool) /\ request.maxHops \in Int /\ DOMAIN request.pools = D
  BY StackFacts, LenProperties
<1>2. ASSUME s \in Walks
      PROVE  /\ s \in Seq(D) /\ Len(s) > 0 /\ Len(s) <= request.maxHops
             /\ \A j, k \in 1 .. Len(s) : s[j] = s[k] => j = k
             /\ Follows(s)
  <2>1. PICK n \in 1 .. request.maxHops : s \in [1 .. n -> D] /\ IsInjective(s) /\ Follows(s)
    BY <1>1, <1>2 DEF Walks, Walk
  <2>2. n \in Nat /\ n > 0 /\ n <= request.maxHops
    BY <1>1
  <2>3. s \in Seq(D) /\ Len(s) = n /\ DOMAIN s = 1 .. n
    BY <2>1, <2>2, SeqDef
  <2> QED BY <2>1, <2>2, <2>3 DEF IsInjective
<1>3. ASSUME s \in Seq(D), Len(s) > 0, Len(s) <= request.maxHops,
             \A j, k \in 1 .. Len(s) : s[j] = s[k] => j = k, Follows(s)
      PROVE  s \in Walks
  <2>1. Len(s) \in Nat /\ DOMAIN s = 1 .. Len(s) /\ s \in [1 .. Len(s) -> D]
    BY <1>3, LenProperties
  <2>2. Len(s) \in 1 .. request.maxHops
    BY <1>1, <1>3, <2>1
  <2>3. s \in Walk(Len(s))
    BY <1>1, <1>3, <2>1 DEF Walk, IsInjective
  <2> QED BY <1>3, <2>2, <2>3 DEF Walks
<1> QED BY <1>2, <1>3
-----------------------------------------------------------------------------
(* Where the search is in the walks: the places of the pools in the lists of *)
(* the calls.  A call has the places its callers have not taken.             *)
Place(P, fs, k) == P[k][fs[k].i]

HasPlaces(P, fs, k) ==
  LET f == fs[k]
  IN  /\ f.i \in 1 .. Len(f.pools)+1
      /\ \A j \in 1 .. Len(f.pools) :
           P[k][j] \in 1 .. Len(request.pools) /\ f.pools[j] = request.pools[P[k][j]]
      /\ \A j, l \in 1 .. Len(f.pools) : P[k][j] = P[k][l] => j = l
      /\ \A x \in 1 .. Len(request.pools) :
           (\E j \in 1 .. Len(f.pools) : P[k][j] = x) <=> (\A m \in 1 .. k-1 : x # Place(P, fs, m))
      /\ f.maxHops >= 1

(* A call that has called another has taken a pool that it could quote.      *)
WentOn(fs, k) ==
  LET p == fs[k].pools[fs[k].i]
  IN  InvolvesToken(p, fs[k].token) /\ p \notin Failing /\ fs[k+1].token # To

PlacesFit(P, fs) ==
  /\ \A k \in 1 .. Len(fs) : HasPlaces(P, fs, k)
  /\ \A k \in 1 .. Len(fs)-1 : WentOn(fs, k)

(* The walks the search has passed: those it has come along, and those that  *)
(* leave this way for a place that a call has gone past.                     *)
Along(P, fs, s, n) == \A m \in 1 .. n : s[m] = Place(P, fs, m)
GonePast(P, fs, s, k) ==
  k <= Len(s) /\ Along(P, fs, s, k-1) /\ \E j \in 1 .. fs[k].i - 1 : s[k] = P[k][j]
Passed(P, fs, s) ==
  \/ Len(s) < Len(fs) /\ Along(P, fs, s, Len(s))
  \/ \E k \in 1 .. Len(fs) : GonePast(P, fs, s, k)
Seen(P, fs) == {s \in Walks : Passed(P, fs, s)}

(* The call m of fs has gone on to its next pool, the calls it has made have *)
(* returned.                                                                 *)
GoesOn(fs, m, new) ==
  /\ Len(new) = m
  /\ \A k \in 1 .. m-1 : new[k] = fs[k]
  /\ new[m].i = fs[m].i + 1
  /\ new[m].pools = fs[m].pools /\ new[m].token = fs[m].token /\ new[m].maxHops = fs[m].maxHops

LEMMA AdvancedGoesOn ==
  ASSUME NEW fs, NEW mem, StackFits(fs, mem), fs # <<>>
  PROVE  GoesOn(fs, Len(fs), Advanced(fs))
<1>1. PICK A : fs \in Seq(FramesWith(A))
  BY DEF StackFits
<1> DEFINE n == Len(fs)  f == fs[n]  g == [f EXCEPT !.i = @ + 1]  new == Advanced(fs)
<1>2. n \in Nat /\ n > 0 /\ n \in 1 .. n /\ f \in FramesWith(A)
  BY <1>1, EmptySeq, ElementOfSeq, LenProperties
<1>3. /\ g \in FramesWith(A) /\ g.pools = f.pools /\ g.i = f.i + 1 /\ g.token = f.token
      /\ g.maxHops = f.maxHops
  BY <1>2 DEF FramesWith
<1>4. new = [fs EXCEPT ![n] = g]
  BY DEF Advanced
<1> HIDE DEF n, f, g, new
<1>5. /\ new \in Seq(FramesWith(A)) /\ Len(new) = n
      /\ \A k \in 1 .. n : new[k] = IF k = n THEN g ELSE fs[k]
  BY <1>1, <1>2, <1>3, <1>4, ExceptSeq DEF n
<1>6. /\ \A k \in 1 .. n-1 : new[k] = fs[k]
      /\ new[n] = g
  BY <1>2, <1>5
<1> QED BY <1>3, <1>5, <1>6 DEF GoesOn, n, f, new

(* When the innermost call returns, its caller goes on.                      *)
LEMMA ReturnedGoesOn ==
  ASSUME NEW fs, NEW mem, StackFits(fs, mem), fs # <<>>, Len(fs) # 1
  PROVE  GoesOn(fs, Len(fs)-1, Advanced(Front(fs)))
<1> DEFINE before == Front(fs)
<1>1. /\ StackFits(before, mem) /\ before # <<>> /\ Len(before) = Len(fs)-1
      /\ \A k \in 1 .. Len(fs)-1 : before[k] = fs[k]
  BY FrontFits
<1>2. Len(fs)-1 \in 1 .. Len(fs)-1
  <2>1. \E A : before \in Seq(FramesWith(A))
    BY <1>1 DEF StackFits
  <2> HIDE DEF before
  <2>2. Len(before) \in Nat /\ Len(before) > 0
    BY <1>1, <2>1, EmptySeq, LenProperties
  <2>3. Len(before) \in 1 .. Len(before)
    BY <2>2
  <2> QED BY <1>1, <2>3
<1> HIDE DEF before
<1>3. GoesOn(before, Len(fs)-1, Advanced(before))
  BY <1>1, AdvancedGoesOn
<1> QED BY <1>1, <1>2, <1>3 DEF GoesOn, before

(* It has the same places.                                                   *)
LEMMA PlacesGoOn ==
  ASSUME NEW fs, NEW P, Len(fs) \in Nat, PlacesFit(P, fs), NEW m \in 1 .. Len(fs),
         fs[m].i <= Len(fs[m].pools), Len(fs[m].pools) \in Nat, NEW new, GoesOn(fs, m, new)
  PROVE  PlacesFit(P, new)
<1>1. /\ Len(new) = m /\ m \in Nat
      /\ \A k \in 1 .. m-1 : k \in 1 .. Len(fs) /\ k \in 1 .. Len(fs)-1 /\ new[k] = fs[k]
      /\ new[m].i = fs[m].i + 1
      /\ new[m].pools = fs[m].pools /\ new[m].token = fs[m].token /\ new[m].maxHops = fs[m].maxHops
  BY DEF GoesOn
<1>2. \A k \in 1 .. m-1 : Place(P, new, k) = Place(P, fs, k)
  BY <1>1 DEF Place
<1>3. ASSUME NEW k \in 1 .. m PROVE HasPlaces(P, new, k)
  <2>1. k \in 1 .. Len(fs) /\ \A l \in 1 .. k-1 : l \in 1 .. m-1
    OBVIOUS
  <2>2. HasPlaces(P, fs, k)
    BY <2>1 DEF PlacesFit
  <2>3. new[k].pools = fs[k].pools /\ new[k].maxHops = fs[k].maxHops /\ new[k].i \in 1 .. Len(fs[k].pools)+1
    <3>1. CASE k = m
      <4>1. fs[m].i \in 1 .. Len(fs[m].pools)+1
        BY <2>2, <3>1 DEF HasPlaces
      <4> QED BY <1>1, <3>1, <4>1
    <3>2. CASE k # m
      <4>1. k \in 1 .. m-1
        BY <3>2
      <4> QED BY <1>1, <2>2, <4>1 DEF HasPlaces
    <3> QED BY <3>1, <3>2
  <2> QED BY <1>2, <2>1, <2>2, <2>3 DEF HasPlaces
<1>4. ASSUME NEW k \in 1 .. m-1 PROVE WentOn(new, k)
  <2>1. WentOn(fs, k) /\ new[k] = fs[k]
    BY <1>1 DEF PlacesFit
  <2>2. new[k+1].token = fs[k+1].token
    <3>1. CASE k+1 = m
      BY <1>1, <3>1
    <3>2. CASE k+1 # m
      <4>1. k+1 \in 1 .. m-1
        BY <1>1, <3>2
      <4> QED BY <1>1, <4>1
    <3> QED BY <3>1, <3>2
  <2> QED BY <2>1, <2>2 DEF WentOn
<1> QED BY <1>1, <1>3, <1>4 DEF PlacesFit
-----------------------------------------------------------------------------
(* The way is the same for the calls that are the same.                      *)
LEMMA SameWay ==
  ASSUME NEW m \in Nat, NEW fs, NEW P, NEW new, NEW Q,
         \A k \in 1 .. m : new[k] = fs[k] /\ Q[k] = P[k], NEW s
  PROVE  /\ \A n \in 0 .. m : Along(Q, new, s, n) <=> Along(P, fs, s, n)
         /\ \A k \in 1 .. m : /\ Place(Q, new, k) = Place(P, fs, k)
                              /\ GonePast(Q, new, s, k) <=> GonePast(P, fs, s, k)
<1>1. \A k \in 1 .. m : Place(Q, new, k) = Place(P, fs, k)
  BY DEF Place
<1>2. ASSUME NEW n \in 0 .. m PROVE Along(Q, new, s, n) <=> Along(P, fs, s, n)
  <2>1. \A k \in 1 .. n : k \in 1 .. m
    OBVIOUS
  <2> QED BY <1>1, <2>1 DEF Along
<1>3. ASSUME NEW k \in 1 .. m PROVE GonePast(Q, new, s, k) <=> GonePast(P, fs, s, k)
  <2>1. k-1 \in 0 .. m
    OBVIOUS
  <2>2. Along(Q, new, s, k-1) <=> Along(P, fs, s, k-1)
    BY <1>2, <2>1
  <2> QED BY <2>2 DEF GonePast
<1> QED BY <1>1, <1>2, <1>3

(* A call that goes on with its next pool has gone past the last one.        *)
LEMMA PastGoesOn ==
  ASSUME NEW fs, NEW P, NEW m \in Nat, m > 0, fs[m].i \in Nat, fs[m].i > 0,
         NEW new, GoesOn(fs, m, new), NEW s, Len(s) \in Nat
  PROVE  /\ \A k \in 1 .. m-1 : GonePast(P, new, s, k) <=> GonePast(P, fs, s, k)
         /\ \A n \in 0 .. m-1 : Along(P, new, s, n) <=> Along(P, fs, s, n)
         /\ GonePast(P, new, s, m) <=> GonePast(P, fs, s, m) \/ (m <= Len(s) /\ Along(P, fs, s, m))
<1>1. /\ \A n \in 0 .. m-1 : Along(P, new, s, n) <=> Along(P, fs, s, n)
      /\ \A k \in 1 .. m-1 : GonePast(P, new, s, k) <=> GonePast(P, fs, s, k)
  <2>1. m-1 \in Nat /\ \A k \in 1 .. m-1 : new[k] = fs[k]
    BY DEF GoesOn
  <2> QED BY <2>1, SameWay
<1>2. Along(P, fs, s, m) <=> Along(P, fs, s, m-1) /\ s[m] = P[m][fs[m].i]
  <2>1. m \in 1 .. m /\ \A k \in 1 .. m : k = m \/ k \in 1 .. m-1
    OBVIOUS
  <2>2. \A k \in 1 .. m-1 : k \in 1 .. m
    OBVIOUS
  <2> QED BY <2>1, <2>2 DEF Along, Place
<1>3. GonePast(P, new, s, m) <=> GonePast(P, fs, s, m) \/ (m <= Len(s) /\ Along(P, fs, s, m))
  <2>1. m-1 \in 0 .. m-1
    OBVIOUS
  <2>2. Along(P, new, s, m-1) <=> Along(P, fs, s, m-1)
    BY <1>1, <2>1
  <2>3. 1 .. new[m].i - 1 = (1 .. fs[m].i - 1) \cup {fs[m].i}
    <3>1. new[m].i = fs[m].i + 1
      BY DEF GoesOn
    <3> QED BY <3>1
  <2> QED BY <1>2, <2>2, <2>3 DEF GonePast
<1> QED BY <1>1, <1>3

(* The innermost call goes on: all walks that begin with the way to its last *)
(* pool have been passed.                                                    *)
LEMMA PassedFurther ==
  ASSUME NEW fs, NEW P, NEW K \in Nat, K > 0, K = Len(fs), fs[K].i \in Nat, fs[K].i > 0,
         NEW new, GoesOn(fs, K, new), NEW s, Len(s) \in Nat
  PROVE  Passed(P, new, s) <=> Passed(P, fs, s) \/ (K <= Len(s) /\ Along(P, fs, s, K))
<1>1. /\ \A k \in 1 .. K-1 : GonePast(P, new, s, k) <=> GonePast(P, fs, s, k)
      /\ \A n \in 0 .. K-1 : Along(P, new, s, n) <=> Along(P, fs, s, n)
      /\ GonePast(P, new, s, K) <=> GonePast(P, fs, s, K) \/ (K <= Len(s) /\ Along(P, fs, s, K))
  BY PastGoesOn
<1>2. Len(new) = K
  BY DEF GoesOn
<1>3. Len(s) < K => Len(s) \in 0 .. K-1
  OBVIOUS
<1>4. K \in 1 .. K /\ \A k \in 1 .. K : k = K \/ k \in 1 .. K-1
  OBVIOUS
<1>5. \A k \in 1 .. K-1 : k \in 1 .. K
  OBVIOUS
<1> QED BY <1>1, <1>2, <1>3, <1>4, <1>5 DEF Passed

(* A walk that begins with the way to a call goes on in the list of the call.*)
LEMMA NextPlace ==
  ASSUME SearchInv, NEW P, NEW fs, PlacesFit(P, fs), NEW s \in Walks,
         NEW n \in 1 .. Len(fs), n <= Len(s), Along(P, fs, s, n-1)
  PROVE  \E j \in 1 .. Len(fs[n].pools) : s[n] = P[n][j]
<1>1. /\ s \in Seq(1 .. Len(request.pools)) /\ Len(s) \in Nat
      /\ \A j, k \in 1 .. Len(s) : s[j] = s[k] => j = k
  BY WalkFacts, LenProperties
<1>2. n \in 1 .. Len(s) /\ \A m \in 1 .. n-1 : m \in 1 .. Len(s) /\ m # n
  BY <1>1
<1>3. s[n] \in 1 .. Len(request.pools)
  BY <1>1, <1>2, ElementOfSeq
<1>4. \A m \in 1 .. n-1 : s[n] # Place(P, fs, m)
  BY <1>1, <1>2 DEF Along
<1>5. HasPlaces(P, fs, n)
  BY DEF PlacesFit
<1> QED BY <1>3, <1>4, <1>5 DEF HasPlaces

(* A call that is through its list returns to a call that has gone past as   *)
(* much as before.                                                           *)
LEMMA PassedReturns ==
  ASSUME SearchInv, NEW P, NEW fs, NEW K \in Nat, K > 1, K = Len(fs), PlacesFit(P, fs),
         Len(fs[K].pools) \in Nat, fs[K].i > Len(fs[K].pools), Len(fs[K-1].pools) \in Nat,
         NEW new, GoesOn(fs, K-1, new), NEW s \in Walks
  PROVE  Passed(P, new, s) <=> Passed(P, fs, s)
<1>1. Len(s) \in Nat /\ K-1 \in Nat /\ K-1 > 0 /\ K-1 \in 1 .. Len(fs) /\ K \in 1 .. Len(fs)
  BY WalkFacts, LenProperties
<1>2. fs[K-1].i \in Nat /\ fs[K-1].i > 0 /\ fs[K].i = Len(fs[K].pools) + 1
  <2>1. HasPlaces(P, fs, K-1) /\ HasPlaces(P, fs, K)
    BY <1>1 DEF PlacesFit
  <2> QED BY <2>1 DEF HasPlaces
<1>3. /\ \A k \in 1 .. (K-1)-1 : GonePast(P, new, s, k) <=> GonePast(P, fs, s, k)
      /\ \A n \in 0 .. (K-1)-1 : Along(P, new, s, n) <=> Along(P, fs, s, n)
      /\ GonePast(P, new, s, K-1)
           <=> GonePast(P, fs, s, K-1) \/ (K-1 <= Len(s) /\ Along(P, fs, s, K-1))
  BY <1>1, <1>2, PastGoesOn
<1>4. GonePast(P, fs, s, K) <=> K <= Len(s) /\ Along(P, fs, s, K-1)
  <2>1. 1 .. fs[K].i - 1 = 1 .. Len(fs[K].pools)
    BY <1>2
  <2>2. ASSUME K <= Len(s), Along(P, fs, s, K-1) PROVE \E j \in 1 .. Len(fs[K].pools) : s[K] = P[K][j]
    BY <1>1, <2>2, NextPlace
  <2> QED BY <2>1, <2>2 DEF GonePast
<1>5. Len(new) = K-1
  BY DEF GoesOn
<1>6. /\ Len(s) < K-1 => Len(s) \in 0 .. (K-1)-1 /\ Len(s) < K
      /\ ~(Len(s) < K-1) => K-1 <= Len(s)
      /\ Len(s) < K /\ K-1 <= Len(s) => Len(s) = K-1
      /\ ~(Len(s) < K) => K <= Len(s)
  BY <1>1
<1>7. ASSUME Passed(P, new, s) PROVE Passed(P, fs, s)
  <2>1. CASE Len(s) < K-1 /\ Along(P, new, s, Len(s))
    BY <1>3, <1>6, <2>1 DEF Passed
  <2>2. CASE \E k \in 1 .. K-1 : GonePast(P, new, s, k)
    <3>1. PICK k \in 1 .. K-1 : GonePast(P, new, s, k)
      BY <2>2
    <3>2. k \in 1 .. K /\ (k = K-1 \/ k \in 1 .. (K-1)-1)
      OBVIOUS
    <3>3. CASE GonePast(P, fs, s, k)
      BY <3>2, <3>3 DEF Passed
    <3>4. CASE K-1 <= Len(s) /\ Along(P, fs, s, K-1)
      BY <1>1, <1>4, <1>6, <3>4 DEF Passed
    <3> QED BY <1>3, <3>1, <3>2, <3>3, <3>4
  <2> QED BY <1>5, <1>7, <2>1, <2>2 DEF Passed
<1>8. ASSUME Passed(P, fs, s) PROVE Passed(P, new, s)
  <2>1. CASE Len(s) < K /\ Along(P, fs, s, Len(s))
    <3>1. CASE Len(s) < K-1
      BY <1>3, <1>5, <1>6, <2>1, <3>1 DEF Passed
    <3>2. CASE ~(Len(s) < K-1)
      <4>1. GonePast(P, new, s, K-1) /\ K-1 \in 1 .. K-1
        BY <1>1, <1>3, <1>6, <2>1, <3>2
      <4> QED BY <1>5, <4>1 DEF Passed
    <3> QED BY <3>1, <3>2
  <2>2. CASE \E k \in 1 .. K : GonePast(P, fs, s, k)
    <3>1. PICK k \in 1 .. K : GonePast(P, fs, s, k)
      BY <2>2
    <3>2. CASE k = K
      <4>1. K-1 <= Len(s) /\ Along(P, fs, s, K-1)
        BY <1>1, <1>4, <3>1, <3>2
      <4>2. GonePast(P, new, s, K-1) /\ K-1 \in 1 .. K-1
        BY <1>1, <1>3, <4>1
      <4> QED BY <1>5, <4>2 DEF Passed
    <3>3. CASE k # K
      <4>1. k \in 1 .. K-1 /\ (k = K-1 \/ k \in 1 .. (K-1)-1)
        BY <3>3
      <4>2. GonePast(P, new, s, k)
        BY <1>3, <3>1, <4>1
      <4> QED BY <1>5, <4>1, <4>2 DEF Passed
    <3> QED BY <3>2, <3>3
  <2> QED BY <1>8, <2>1, <2>2 DEF Passed
<1> QED BY <1>7, <1>8

(* When the first call is through, all walks have been passed.               *)
LEMMA AllPassed ==
  ASSUME SearchInv, NEW P, NEW fs, Len(fs) = 1, PlacesFit(P, fs),
         Len(fs[1].pools) \in Nat, fs[1].i > Len(fs[1].pools), NEW s \in Walks
  PROVE  Passed(P, fs, s)
<1>1. Len(s) \in Nat /\ 1 <= Len(s) /\ 1 \in 1 .. Len(fs)
  BY WalkFacts, LenProperties
<1>2. Along(P, fs, s, 1-1)
  BY DEF Along
<1>3. \E j \in 1 .. Len(fs[1].pools) : s[1] = P[1][j]
  <2>1. PICK n \in 1 .. Len(fs) : n = 1
    BY <1>1
  <2>2. n <= Len(s) /\ Along(P, fs, s, n-1)
    BY <1>1, <1>2, <2>1
  <2>3. \E j \in 1 .. Len(fs[n].pools) : s[n] = P[n][j]
    BY <2>2, NextPlace
  <2> QED BY <2>1, <2>3
<1>4. fs[1].i = Len(fs[1].pools) + 1
  <2>1. HasPlaces(P, fs, 1)
    BY <1>1 DEF PlacesFit
  <2> QED BY <2>1 DEF HasPlaces
<1>5. 1 .. fs[1].i - 1 = 1 .. Len(fs[1].pools)
  BY <1>4
<1>6. GonePast(P, fs, s, 1)
  BY <1>1, <1>2, <1>3, <1>5 DEF GonePast
<1> QED BY <1>1, <1>6 DEF Passed

(* A call that is made: the way to it has been passed, and nothing beyond.   *)
LEMMA PassedDescends ==
  ASSUME NEW fs, NEW P, NEW K \in Nat, K = Len(fs),
         NEW new, NEW Q, Len(new) = K+1, \A k \in 1 .. K : new[k] = fs[k] /\ Q[k] = P[k],
         new[K+1].i = 1, NEW s, Len(s) \in Nat
  PROVE  Passed(Q, new, s) <=> Passed(P, fs, s) \/ (Len(s) = K /\ Along(P, fs, s, K))
<1>1. /\ \A n \in 0 .. K : Along(Q, new, s, n) <=> Along(P, fs, s, n)
      /\ \A k \in 1 .. K : GonePast(Q, new, s, k) <=> GonePast(P, fs, s, k)
  BY SameWay
<1>2. ~GonePast(Q, new, s, K+1)
  <2>1. 1 .. new[K+1].i - 1 = {}
    OBVIOUS
  <2> QED BY <2>1 DEF GonePast
<1>3. \A k : k \in 1 .. K+1 <=> k \in 1 .. K \/ k = K+1
  OBVIOUS
<1>4. /\ Len(s) < K+1 <=> Len(s) < K \/ Len(s) = K
      /\ Len(s) < K+1 => Len(s) \in 0 .. K
  OBVIOUS
<1> QED BY <1>1, <1>2, <1>3, <1>4 DEF Passed
-----------------------------------------------------------------------------
(* What the innermost call is at: its number, its frame, the places of its   *)
(* list.                                                                     *)
LEMMA TopPlaces ==
  ASSUME SearchInv, InLoop, NEW P, PlacesFit(P, frames)
  PROVE  /\ Len(frames) \in Nat /\ Len(frames) > 0 /\ Len(frames) \in 1 .. Len(frames)
         /\ Top = frames[Len(frames)] /\ ThisPool \in Pool /\ Top.pools \in Seq(Pool)
         /\ Top.i \in 1 .. Len(Top.pools) /\ Len(Top.pools) \in Nat
         /\ \A k \in 1 .. Len(frames) :
              /\ frames[k].i \in 1 .. Len(frames[k].pools) /\ frames[k].pools \in Seq(Pool)
              /\ Place(P, frames, k) \in 1 .. Len(request.pools)
              /\ request.pools[Place(P, frames, k)] = frames[k].pools[frames[k].i]
              /\ \A m \in 1 .. k-1 : Place(P, frames, k) # Place(P, frames, m)
         /\ Top.maxHops = request.maxHops - (Len(frames)-1) /\ Top.maxHops >= 1
         /\ request.maxHops \in Int
<1> DEFINE K == Len(frames)
<1>1. /\ K \in Nat /\ K > 0 /\ K \in 1 .. K
      /\ Top \in FramesWith({Top.amount}) /\ Top.i \in 1 .. Len(Top.pools) /\ ThisPool \in Pool
  BY TopFacts DEF InLoop
<1>2. Top = frames[K]
  BY DEF Top, Last
<1>3. Top.pools \in Seq(Pool) /\ Len(Top.pools) \in Nat
  BY <1>1, LenProperties DEF FramesWith
<1>4. ASSUME NEW k \in 1 .. K
      PROVE  /\ frames[k].i \in 1 .. Len(frames[k].pools) /\ frames[k].pools \in Seq(Pool)
             /\ Place(P, frames, k) \in 1 .. Len(request.pools)
             /\ request.pools[Place(P, frames, k)] = frames[k].pools[frames[k].i]
             /\ \A m \in 1 .. k-1 : Place(P, frames, k) # Place(P, frames, m)
  <2>1. frames[k].i \in 1 .. Len(frames[k].pools) /\ frames[k].pools \in Seq(Pool)
    <3>1. CASE k = K
      BY <1>1, <1>2, <1>3, <3>1
    <3>2. CASE k # K
      <4>1. k \in 1 .. K-1
        BY <1>1, <3>2
      <4>2. HandsOn(frames[k], frames[k+1], arrays) /\ frames[k].pools \in Seq(Pool)
        BY <4>1, StackFacts
      <4> QED BY <4>2 DEF HandsOn
    <3> QED BY <3>1, <3>2
  <2>2. HasPlaces(P, frames, k)
    BY DEF PlacesFit
  <2>3. /\ Place(P, frames, k) \in 1 .. Len(request.pools)
        /\ request.pools[Place(P, frames, k)] = frames[k].pools[frames[k].i]
    BY <2>1, <2>2 DEF HasPlaces, Place
  <2>4. \A m \in 1 .. k-1 : Place(P, frames, k) # Place(P, frames, m)
    <3> DEFINE x == Place(P, frames, k)
    <3>1. x \in 1 .. Len(request.pools) /\ \E j \in 1 .. Len(frames[k].pools) : P[k][j] = x
      BY <2>1, <2>3 DEF Place
    <3> HIDE DEF x
    <3>2. \A m \in 1 .. k-1 : x # Place(P, frames, m)
      BY <2>2, <3>1 DEF HasPlaces
    <3> QED BY <3>2 DEF x
  <2> QED BY <2>1, <2>3, <2>4
<1>5. Top.maxHops = request.maxHops - (K-1) /\ request.maxHops \in Int
  BY <1>1, <1>2, ListIsWhatIsLeft, StackFacts
<1>6. Top.maxHops >= 1
  BY <1>1, <1>2 DEF PlacesFit, HasPlaces
<1> QED BY <1>1, <1>2, <1>3, <1>4, <1>5, <1>6

(* A walk along the way of the search has the tokens of the calls.           *)
LEMMA TokensAlong ==
  ASSUME SearchInv, NEW P, PlacesFit(P, frames), NEW s, Len(s) \in Nat,
         NEW n \in 1 .. Len(frames), n-1 <= Len(s), Along(P, frames, s, n-1)
  PROVE  TokenAfter(s)[n-1] = frames[n].token
<1> DEFINE N == Len(frames)
           T == {m \in Nat : m+1 <= n => TokenAfter(s)[m] = frames[m+1].token}
<1>1. N \in Nat /\ n \in Nat /\ n <= N /\ N > 0
  BY StackFacts
<1>2. 0 \in T
  <2>1. StartsSearch(frames[1])
    BY <1>1, StackFacts
  <2>2. TokenAfter(s)[0] = From
    BY TokensFollow
  <2> QED BY <2>1, <2>2 DEF StartsSearch
<1>3. ASSUME NEW m \in Nat, m \in T PROVE m+1 \in T
  <2> SUFFICES ASSUME (m+1)+1 <= n PROVE TokenAfter(s)[m+1] = frames[(m+1)+1].token
    OBVIOUS
  <2> DEFINE j == m+1  p == frames[j].pools[frames[j].i]
  <2>1. j \in 1 .. N-1 /\ j \in 1 .. N /\ j \in 1 .. Len(s) /\ j \in 1 .. n-1 /\ j-1 = m
    BY <1>1
  <2>2. TokenAfter(s)[j-1] = frames[j].token
    BY <1>3, <2>1
  <2>3. HandsOn(frames[j], frames[j+1], arrays)
    BY <2>1, StackFacts
  <2>4. frames[j+1].token = Other(p, frames[j].token)
    BY <2>3 DEF HandsOn, QuotedAt
  <2>5. s[j] = Place(P, frames, j)
    BY <2>1 DEF Along
  <2>6. p = request.pools[Place(P, frames, j)]
    <3>1. HasPlaces(P, frames, j) /\ frames[j].i \in 1 .. Len(frames[j].pools)
      BY <2>1, <2>3 DEF PlacesFit, HandsOn
    <3> QED BY <3>1 DEF HasPlaces, Place
  <2>7. TokenAfter(s)[j] = Other(request.pools[s[j]], TokenAfter(s)[j-1])
    BY <2>1, TokensFollow
  <2> QED BY <2>2, <2>4, <2>5, <2>6, <2>7
<1>4. Nat \subseteq T
  <2> HIDE DEF T
  <2> QED BY <1>2, <1>3, InductionOnNat
<1>5. n-1 \in T /\ (n-1)+1 = n
  BY <1>1, <1>4
<1> QED BY <1>1, <1>5

(* The way here, with the pool that the innermost call is at.                *)
Here(P, fs) == [m \in 1 .. Len(fs) |-> Place(P, fs, m)]

LEMMA HereFacts ==
  ASSUME SearchInv, InLoop, NEW P, PlacesFit(P, frames)
  PROVE  LET h == Here(P, frames)
             K == Len(frames)
         IN  /\ h \in Seq(1 .. Len(request.pools)) /\ Len(h) = K /\ Along(P, frames, h, K)
             /\ request.pools[h[K]] = ThisPool
             /\ TokenAfter(h)[K] = Other(ThisPool, Top.token)
             /\ InvolvesToken(ThisPool, Top.token) => h \in Walks
             /\ ~Passed(P, frames, h)
             /\ PoolsOf(h) = Append(WayTo(K), ThisPool)
<1> DEFINE h == Here(P, frames)  K == Len(frames)  N == Len(request.pools)
<1>1. /\ K \in Nat /\ K > 0 /\ K \in 1 .. K
      /\ Top = frames[K] /\ ThisPool \in Pool
      /\ \A k \in 1 .. K :
           /\ frames[k].i \in 1 .. Len(frames[k].pools)
           /\ Place(P, frames, k) \in 1 .. N
           /\ request.pools[Place(P, frames, k)] = frames[k].pools[frames[k].i]
           /\ \A m \in 1 .. k-1 : Place(P, frames, k) # Place(P, frames, m)
      /\ Top.maxHops = request.maxHops - (K-1) /\ Top.maxHops >= 1
      /\ request.maxHops \in Int
  BY TopPlaces
<1>2. h \in Seq(1 .. N) /\ Len(h) = K /\ \A m \in 1 .. K : h[m] = Place(P, frames, m)
  <2>1. h \in [1 .. K -> 1 .. N]
    BY <1>1 DEF Here
  <2>2. DOMAIN h = 1 .. K /\ \A m \in 1 .. K : h[m] = Place(P, frames, m)
    BY DEF Here
  <2> HIDE DEF h
  <2> QED BY <1>1, <2>1, <2>2, SeqDef, LenProperties
<1> HIDE DEF h, K, N
<1>3. \A n \in 0 .. K : Along(P, frames, h, n)
  BY <1>2 DEF Along
<1>4. frames[K].pools[frames[K].i] = ThisPool
  BY <1>1 DEF ThisPool
<1>5. request.pools[h[K]] = ThisPool
  BY <1>1, <1>2, <1>4
<1>6. \A n \in 1 .. K : TokenAfter(h)[n-1] = frames[n].token
  <2> TAKE n \in 1 .. K
  <2>1. n-1 \in 0 .. K /\ n-1 <= Len(h) /\ Len(h) \in Nat
    BY <1>1, <1>2
  <2>2. Along(P, frames, h, n-1) /\ n \in 1 .. Len(frames)
    BY <1>3, <2>1 DEF K
  <2> QED BY <2>1, <2>2, TokensAlong
<1>7. /\ TokenAfter(h)[K-1] = Top.token
      /\ TokenAfter(h)[K] = Other(ThisPool, Top.token)
  <2>1. TokenAfter(h)[K] = Other(request.pools[h[K]], TokenAfter(h)[K-1])
    BY <1>1, <1>2, TokensFollow
  <2> QED BY <1>1, <1>5, <1>6, <2>1
<1>8. ASSUME InvolvesToken(ThisPool, Top.token) PROVE h \in Walks
  <2>1. ASSUME NEW j \in 1 .. K, NEW k \in 1 .. K, h[j] = h[k] PROVE j = k
    <3>1. CASE j < k
      <4>1. j \in 1 .. k-1
        BY <3>1
      <4>2. Place(P, frames, k) # Place(P, frames, j)
        BY <1>1, <4>1
      <4> QED BY <1>2, <2>1, <4>2
    <3>2. CASE j > k
      <4>1. k \in 1 .. j-1
        BY <3>2
      <4>2. Place(P, frames, j) # Place(P, frames, k)
        BY <1>1, <4>1
      <4> QED BY <1>2, <2>1, <4>2
    <3> QED BY <3>1, <3>2
  <2>2. ASSUME NEW k \in 1 .. K
        PROVE  /\ InvolvesToken(request.pools[h[k]], TokenAfter(h)[k-1])
               /\ k < K => TokenAfter(h)[k] # To
    <3>1. CASE k = K
      BY <1>5, <1>7, <1>8, <3>1
    <3>2. CASE k # K
      <4>1. k \in 1 .. K-1 /\ k+1 \in 1 .. K /\ (k+1)-1 = k
        BY <1>1, <3>2
      <4>2. WentOn(frames, k)
        BY <4>1 DEF PlacesFit, K
      <4>3. request.pools[h[k]] = frames[k].pools[frames[k].i]
        BY <1>1, <1>2
      <4>4. TokenAfter(h)[k-1] = frames[k].token
        BY <1>6
      <4>5. TokenAfter(h)[k] = frames[k+1].token
        BY <1>6, <4>1
      <4> QED BY <4>2, <4>3, <4>4, <4>5 DEF WentOn
    <3> QED BY <3>1, <3>2
  <2>3. Follows(h)
    BY <1>2, <2>2 DEF Follows
  <2>4. K <= request.maxHops
    BY <1>1
  <2>5. /\ h \in Seq(1 .. Len(request.pools)) /\ Len(h) > 0 /\ Len(h) <= request.maxHops
        /\ \A j, k \in 1 .. Len(h) : h[j] = h[k] => j = k
    BY <1>1, <1>2, <2>1, <2>4 DEF N
  <2> QED BY <2>3, <2>5, WalkFacts
<1>9. ~Passed(P, frames, h)
  <2>1. ASSUME NEW k \in 1 .. K PROVE ~GonePast(P, frames, h, k)
    <3> SUFFICES ASSUME NEW j \in 1 .. frames[k].i - 1, h[k] = P[k][j] PROVE FALSE
      BY DEF GonePast
    <3>1. frames[k].i \in 1 .. Len(frames[k].pools) /\ HasPlaces(P, frames, k)
      BY <1>1 DEF PlacesFit, K
    <3>2. j \in 1 .. Len(frames[k].pools) /\ j # frames[k].i
      BY <3>1
    <3>3. P[k][j] = P[k][frames[k].i]
      BY <1>2 DEF Place
    <3> QED BY <3>1, <3>2, <3>3 DEF HasPlaces
  <2>2. ~(Len(h) < Len(frames))
    BY <1>1, <1>2 DEF K
  <2> QED BY <2>1, <2>2 DEF Passed, K
<1>10. PoolsOf(h) = Append(WayTo(K), ThisPool)
  <2> DEFINE w == WayTo(K)  a == Append(w, ThisPool)  q == PoolsOf(h)
  <2>1. w \in Seq(Pool) /\ Len(w) = K-1
    BY <1>1, WayFacts DEF K
  <2>2. \A m \in 1 .. K-1 : w[m] = frames[m].pools[frames[m].i]
    BY DEF WayTo
  <2>3. q = [m \in 1 .. K |-> request.pools[h[m]]]
    BY <1>2 DEF PoolsOf
  <2> HIDE DEF w, q
  <2>4. /\ a \in Seq(Pool) /\ Len(a) = Len(w)+1
        /\ \A m \in 1 .. Len(w) : a[m] = w[m]
        /\ a[Len(w)+1] = ThisPool
    BY <1>1, <2>1, AppendProperties
  <2> HIDE DEF a
  <2>5. Len(w)+1 = K
    BY <1>1, <2>1
  <2>6. \A m \in 1 .. K : q[m] = a[m]
    <3> TAKE m \in 1 .. K
    <3>1. q[m] = frames[m].pools[frames[m].i]
      BY <1>1, <1>2, <2>3
    <3>2. CASE m = K
      BY <1>4, <2>4, <2>5, <3>1, <3>2
    <3>3. CASE m # K
      <4>1. m \in 1 .. K-1 /\ m \in 1 .. Len(w)
        BY <1>1, <2>5, <3>3
      <4> QED BY <2>2, <2>4, <3>1, <4>1
    <3> QED BY <3>2, <3>3
  <2>7. DOMAIN a = 1 .. K /\ a = [m \in 1 .. K |-> a[m]]
    BY <2>4, <2>5, LenProperties
  <2>8. q = a
    BY <2>3, <2>6, <2>7
  <2> QED BY <2>8 DEF q, a, w
<1>11. Along(P, frames, h, K)
  BY <1>1, <1>3
<1>12. /\ h \in Seq(1 .. N) /\ Len(h) = K /\ Along(P, frames, h, K)
       /\ request.pools[h[K]] = ThisPool
       /\ TokenAfter(h)[K] = Other(ThisPool, Top.token)
       /\ InvolvesToken(ThisPool, Top.token) => h \in Walks
       /\ ~Passed(P, frames, h)
       /\ PoolsOf(h) = Append(WayTo(K), ThisPool)
  BY <1>2, <1>5, <1>7, <1>8, <1>9, <1>10, <1>11
<1> QED BY <1>12 DEF h, K, N

(* A walk that begins with the way here: it can quote this pool, and if the  *)
(* search does not go on from here, neither does the walk.                   *)
LEMMA BeginsHere ==
  ASSUME SearchInv, InLoop, NEW P, PlacesFit(P, frames), NEW s \in Walks,
         Len(frames) <= Len(s), Along(P, frames, s, Len(frames))
  PROVE  /\ InvolvesToken(ThisPool, Top.token)
         /\ Arriving \/ ~CanDescend => Len(s) = Len(frames)
         /\ Len(s) = Len(frames) => s = Here(P, frames)
<1> DEFINE K == Len(frames)  N == Len(request.pools)
<1>1. /\ K \in Nat /\ K > 0 /\ K \in 1 .. K
      /\ Top = frames[K] /\ ThisPool \in Pool
      /\ Top.i \in 1 .. Len(Top.pools) /\ Len(Top.pools) \in Nat
      /\ \A k \in 1 .. K : request.pools[Place(P, frames, k)] = frames[k].pools[frames[k].i]
      /\ Top.maxHops = request.maxHops - (K-1) /\ request.maxHops \in Int
  BY TopPlaces
<1>2. /\ s \in Seq(1 .. N) /\ Len(s) \in Nat /\ Len(s) <= request.maxHops /\ Follows(s)
      /\ \A j, k \in 1 .. Len(s) : s[j] = s[k] => j = k
  BY WalkFacts, LenProperties
<1>3. K <= Len(s) /\ \A m \in 1 .. K : s[m] = Place(P, frames, m)
  BY DEF Along
<1>4. TokenAfter(s)[K-1] = Top.token
  <2>1. K-1 <= Len(s) /\ Along(P, frames, s, K-1)
    <3>1. \A m \in 1 .. K-1 : m \in 1 .. K
      BY <1>1
    <3> QED BY <1>1, <1>2, <1>3, <3>1 DEF Along
  <2> QED BY <1>1, <1>2, <2>1, TokensAlong
<1>5. request.pools[s[K]] = ThisPool
  BY <1>1, <1>3 DEF ThisPool
<1> HIDE DEF K, N
<1>6. K \in 1 .. Len(s)
  BY <1>1, <1>2, <1>3
<1>7. InvolvesToken(ThisPool, Top.token)
  BY <1>2, <1>4, <1>5, <1>6 DEF Follows
<1>8. ASSUME Arriving PROVE Len(s) = K
  <2>1. TokenAfter(s)[K] = To
    BY <1>2, <1>4, <1>5, <1>6, <1>8, TokensFollow DEF Arriving
  <2>2. ~(K < Len(s))
    BY <1>2, <1>6, <2>1 DEF Follows
  <2> QED BY <1>1, <1>2, <1>3, <2>2
<1>9. ASSUME Top.maxHops <= 1 PROVE Len(s) = K
  BY <1>1, <1>2, <1>3, <1>9
<1>10. ASSUME Len(Top.pools) <= 1, Len(s) # K PROVE FALSE
  <2>1. K+1 \in 1 .. Len(s) /\ \A m \in 1 .. K : m \in 1 .. Len(s) /\ m # K+1
    BY <1>1, <1>2, <1>3, <1>10
  <2>2. s[K+1] \in 1 .. N
    BY <1>2, <2>1, ElementOfSeq
  <2>3. \A m \in 1 .. K : s[K+1] # Place(P, frames, m)
    BY <1>2, <1>3, <2>1
  <2>4. HasPlaces(P, frames, K)
    BY <1>1 DEF PlacesFit, K
  <2>5. \A m \in 1 .. K-1 : s[K+1] # Place(P, frames, m)
    BY <1>1, <2>3
  <2>6. PICK j \in 1 .. Len(Top.pools) : P[K][j] = s[K+1]
    BY <1>1, <2>2, <2>4, <2>5 DEF HasPlaces, N
  <2>7. j = Top.i
    BY <1>1, <1>10
  <2> QED BY <1>1, <2>3, <2>6, <2>7 DEF Place
<1>11. ~CanDescend => Top.maxHops <= 1 \/ Len(Top.pools) <= 1
  BY <1>1 DEF CanDescend
<1>12. ASSUME Len(s) = K PROVE s = Here(P, frames)
  <2>1. DOMAIN s = 1 .. K /\ s = [m \in 1 .. K |-> s[m]]
    BY <1>2, <1>12, LenProperties
  <2> QED BY <1>3, <2>1 DEF Here, K
<1> QED BY <1>7, <1>8, <1>9, <1>10, <1>11, <1>12 DEF K
-----------------------------------------------------------------------------
(* newTrade finds that a route goes through a pool twice, whichever way it   *)
(* is read.                                                                  *)
LEMMA DuplicatesFacts ==
  ASSUME NEW q \in Seq(Pool)
  PROVE  /\ HasDuplicates(q) <=> ~IsInjective(q)
         /\ HasDuplicates(Reverse(q)) <=> HasDuplicates(q)
<1> DEFINE n == Len(q)  D == 1 .. n  r == Reverse(q)
<1>1. /\ n \in Nat /\ DOMAIN q = D /\ q = [i \in D |-> q[i]]
      /\ IsFiniteSet(D) /\ Cardinality(D) = n
  <2>1. n \in Nat /\ DOMAIN q = D /\ q = [i \in D |-> q[i]]
    BY LenProperties
  <2>2. \A a, b \in Int : IsFiniteSet(a .. b) /\ Cardinality(a .. b) = IF a > b THEN 0 ELSE b-a+1
    BY FS_Interval
  <2> HIDE DEF n
  <2>3. n \in Int /\ 1 \in Int
    BY <2>1
  <2>4. IsFiniteSet(1 .. n) /\ Cardinality(1 .. n) = IF 1 > n THEN 0 ELSE n-1+1
    BY <2>2, <2>3
  <2>5. (IF 1 > n THEN 0 ELSE n-1+1) = n
    BY <2>1
  <2> QED BY <2>1, <2>4, <2>5
<1>2. HasDuplicates(q) <=> ~IsInjective(q)
  <2> DEFINE R == Range(q)
  <2>1. q \in [D -> R] /\ \A t \in R : \E i \in D : q[i] = t
    BY <1>1 DEF Range
  <2> HIDE DEF R, D, n
  <2>2. q \in Surjection(D, R)
    BY <2>1, Fun_IsSurj
  <2>3. Cardinality(R) = Cardinality(D) <=> q \in Injection(D, R)
    BY <1>1, <2>2, FS_Surjection
  <2>4. q \in Injection(D, R) <=> IsInjective(q)
    BY <1>1, <2>1 DEF Injection, IsInjective
  <2> QED BY <1>1, <2>3, <2>4 DEF HasDuplicates, R, n
<1>3. HasDuplicates(r) <=> HasDuplicates(q)
  <2>1. r \in Seq(Pool) /\ Len(r) = n /\ \A i \in 1 .. n : r[i] = q[n - i + 1]
    BY ReverseFacts
  <2>2. DOMAIN r = D
    BY <2>1, LenProperties
  <2>3. \A i \in D : n - i + 1 \in D /\ n - (n - i + 1) + 1 = i
    BY <1>1
  <2> HIDE DEF r
  <2>4. \A i \in D : r[i] = q[n - i + 1] /\ q[i] = r[n - i + 1]
    BY <2>1, <2>3
  <2> HIDE DEF D, n
  <2>5. Range(r) = Range(q)
    <3>1. \A i \in D : \E j \in D : r[i] = q[j]
      BY <2>3, <2>4
    <3>2. \A i \in D : \E j \in D : q[i] = r[j]
      BY <2>3, <2>4
    <3>3. Range(r) = {r[i] : i \in D} /\ Range(q) = {q[i] : i \in D}
      BY <1>1, <2>2 DEF Range
    <3> QED BY <3>1, <3>2, <3>3
  <2> QED BY <2>1, <2>5 DEF HasDuplicates, n
<1> QED BY <1>2, <1>3

(* A call that is made has the places that are left.                         *)
LEMMA PlacesDescend ==
  ASSUME SearchInv, Quoted, ~Arriving, CanDescend, NEW P, PlacesFit(P, frames),
         NEW new, Len(new) = Len(frames) + 1, \A k \in 1 .. Len(frames) : new[k] = frames[k],
         NEW g, new[Len(frames) + 1] = g, g.pools = Excluding(Top.pools, Top.i), g.i = 1,
         g.token = Other(ThisPool, Top.token), g.maxHops = Top.maxHops - 1
  PROVE  \E Q : PlacesFit(Q, new) /\ \A k \in 1 .. Len(frames) : Q[k] = P[k]
<1> DEFINE K == Len(frames)  N == Len(request.pools)  l == Len(Top.pools)  i == Top.i
           left == [j \in 1 .. l-1 |-> P[K][IF j < i THEN j ELSE j+1]]
           Q == [k \in 1 .. K+1 |-> IF k = K+1 THEN left ELSE P[k]]
<1>1. /\ K \in Nat /\ K > 0 /\ K \in 1 .. K /\ InLoop
      /\ Top = frames[K] /\ ThisPool \in Pool /\ Top.pools \in Seq(Pool)
      /\ i \in 1 .. l /\ l \in Nat
      /\ Top.maxHops = request.maxHops - (K-1) /\ Top.maxHops >= 1 /\ request.maxHops \in Int
  BY TopPlaces DEF Quoted
<1>2. HasPlaces(P, frames, K)
  BY <1>1 DEF PlacesFit
<1>3. /\ \A j \in 1 .. l : P[K][j] \in 1 .. N /\ Top.pools[j] = request.pools[P[K][j]]
      /\ \A j, m \in 1 .. l : P[K][j] = P[K][m] => j = m
      /\ \A x \in 1 .. N : (\E j \in 1 .. l : P[K][j] = x) <=> (\A m \in 1 .. K-1 : x # Place(P, frames, m))
      /\ Place(P, frames, K) = P[K][i]
  BY <1>1, <1>2 DEF HasPlaces, Place
<1>4. /\ Len(g.pools) = l-1
      /\ \A j \in 1 .. l-1 : g.pools[j] = Top.pools[IF j < i THEN j ELSE j+1]
  <2> HIDE DEF i, l
  <2>1. /\ Len(Excluding(Top.pools, i)) = l-1
        /\ \A j \in 1 .. l-1 : Excluding(Top.pools, i)[j] = Top.pools[IF j < i THEN j ELSE j+1]
    BY <1>1, ExcludingFacts DEF l
  <2> QED BY <2>1 DEF i
<1>5. /\ \A k \in 1 .. K : Q[k] = P[k]
      /\ Q[K+1] = left
      /\ \A j \in 1 .. l-1 : left[j] = P[K][IF j < i THEN j ELSE j+1]
  BY <1>1
<1> HIDE DEF Q, left
<1>6. \A j \in 1 .. l-1 : (IF j < i THEN j ELSE j+1) \in 1 .. l /\ (IF j < i THEN j ELSE j+1) # i
  BY <1>1
<1> HIDE DEF K, N, i, l
<1>7. \A k \in 1 .. K : Place(Q, new, k) = Place(P, frames, k)
  BY <1>5 DEF Place, K
<1>8. ASSUME NEW k \in 1 .. K PROVE HasPlaces(Q, new, k)
  <2>1. HasPlaces(P, frames, k) /\ new[k] = frames[k] /\ Q[k] = P[k]
    BY <1>5 DEF PlacesFit, K
  <2>2. \A m \in 1 .. k-1 : Place(Q, new, m) = Place(P, frames, m)
    <3>1. \A m \in 1 .. k-1 : m \in 1 .. K
      BY <1>1
    <3> QED BY <1>7, <3>1
  <2> QED BY <2>1, <2>2 DEF HasPlaces
<1>9. HasPlaces(Q, new, K+1)
  <2>1. \A j \in 1 .. l-1 : left[j] \in 1 .. N /\ g.pools[j] = request.pools[left[j]]
    BY <1>3, <1>4, <1>5, <1>6
  <2>2. ASSUME NEW j \in 1 .. l-1, NEW m \in 1 .. l-1, left[j] = left[m] PROVE j = m
    <3>1. (IF j < i THEN j ELSE j+1) = (IF m < i THEN m ELSE m+1)
      BY <1>3, <1>5, <1>6, <2>2
    <3> QED BY <1>1, <3>1
  <2>3. ASSUME NEW x \in 1 .. N
        PROVE  (\E j \in 1 .. l-1 : left[j] = x) <=> (\A m \in 1 .. K : x # Place(Q, new, m))
    <3>1. (\A m \in 1 .. K : x # Place(Q, new, m))
            <=> (\A m \in 1 .. K-1 : x # Place(P, frames, m)) /\ x # P[K][i]
      <4>1. \A m \in 1 .. K : m = K \/ m \in 1 .. K-1
        BY <1>1
      <4>2. \A m \in 1 .. K-1 : m \in 1 .. K
        BY <1>1
      <4> QED BY <1>1, <1>3, <1>7, <4>1, <4>2
    <3>2. ASSUME NEW j \in 1 .. l-1, left[j] = x
          PROVE  (\E m \in 1 .. l : P[K][m] = x) /\ x # P[K][i]
      <4> DEFINE m == IF j < i THEN j ELSE j+1
      <4>1. m \in 1 .. l /\ m # i
        BY <1>6
      <4>2. P[K][m] = x
        BY <1>5, <3>2
      <4> HIDE DEF m
      <4> QED BY <1>1, <1>3, <4>1, <4>2
    <3>3. ASSUME NEW m \in 1 .. l, P[K][m] = x, x # P[K][i]
          PROVE  \E j \in 1 .. l-1 : left[j] = x
      <4>1. m # i
        BY <3>3
      <4>2. CASE m < i
        <5>1. m \in 1 .. l-1
          BY <1>1, <4>2
        <5> QED BY <1>5, <3>3, <4>2, <5>1
      <4>3. CASE m > i
        <5>1. m-1 \in 1 .. l-1 /\ ~(m-1 < i) /\ (m-1)+1 = m
          BY <1>1, <4>3
        <5>2. left[m-1] = P[K][(m-1)+1]
          BY <1>5, <5>1
        <5>3. left[m-1] = x
          BY <3>3, <5>1, <5>2
        <5> QED BY <5>1, <5>3
      <4> QED BY <1>1, <4>1, <4>2, <4>3
    <3> QED BY <1>3, <3>1, <3>2, <3>3
  <2>4. g.maxHops >= 1
    BY <1>1 DEF CanDescend
  <2>5. g.i \in 1 .. Len(g.pools)+1
    BY <1>1, <1>4
  <2>6. (K+1)-1 = K
    BY <1>1
  <2>7. /\ \A j \in 1 .. Len(g.pools) : left[j] \in 1 .. Len(request.pools) /\ g.pools[j] = request.pools[left[j]]
        /\ \A j, m \in 1 .. Len(g.pools) : left[j] = left[m] => j = m
        /\ \A x \in 1 .. Len(request.pools) :
             (\E j \in 1 .. Len(g.pools) : left[j] = x) <=> (\A m \in 1 .. (K+1)-1 : x # Place(Q, new, m))
    BY <1>4, <2>1, <2>2, <2>3, <2>6 DEF N
  <2>8. new[K+1] = g /\ Q[K+1] = left
    BY <1>5 DEF K
  <2> QED BY <2>4, <2>5, <2>7, <2>8 DEF HasPlaces
<1>10. ASSUME NEW k \in 1 .. K PROVE WentOn(new, k)
  <2>1. CASE k = K
    <3>1. new[k] = Top /\ new[k+1] = g
      BY <1>1, <2>1 DEF K
    <3> QED BY <3>1 DEF WentOn, Quoted, Arriving, ThisPool
  <2>2. CASE k # K
    <3>1. k \in 1 .. K-1 /\ k+1 \in 1 .. K
      BY <1>1, <2>2
    <3>2. WentOn(frames, k)
      BY <3>1 DEF PlacesFit, K
    <3>3. new[k] = frames[k] /\ new[k+1] = frames[k+1]
      BY <3>1 DEF K
    <3> QED BY <3>2, <3>3 DEF WentOn
  <2> QED BY <2>1, <2>2
<1>11. Len(new) = K+1 /\ (K+1)-1 = K /\ \A k \in 1 .. K+1 : k = K+1 \/ k \in 1 .. K
  BY <1>1 DEF K
<1>12. PlacesFit(Q, new)
  BY <1>8, <1>9, <1>10, <1>11 DEF PlacesFit
<1> QED BY <1>5, <1>12 DEF K
-----------------------------------------------------------------------------
(* Amounts, when what the pools quote for amounts are amounts.               *)
QuotesAreAmounts ==
  \A p \in Pool, t \in Token, a \in Int : OutputAmount(p, t, a) \in Int /\ InputAmount(p, t, a) \in Int

(* Then the amounts that the calls have before them are amounts,             *)
LEMMA AmountsAreIntegers ==
  ASSUME SearchInv, QuotesAreAmounts, NEW k \in 1 .. Len(frames)
  PROVE  frames[k].amount \in Int /\ frames[k].token \in Token
<1> DEFINE N == Len(frames)
           T == {m \in Nat : m+1 <= N => frames[m+1].amount \in Int}
<1>1. N \in Nat /\ k \in 1 .. N
  BY StackFacts
<1>2. \A m \in 1 .. N : frames[m].token \in Token
  <2>1. PICK A : frames \in Seq(FramesWith(A))
    BY DEF SearchInv, StackFits
  <2>2. \A m \in 1 .. N : frames[m] \in FramesWith(A)
    BY <2>1, ElementOfSeq
  <2> QED BY <2>2 DEF FramesWith
<1>3. 0 \in T
  <2>1. StartsSearch(frames[1])
    BY <1>1, StackFacts
  <2>2. request.amount \in Nat
    BY PoolAssumption DEF SearchInv, Request
  <2> QED BY <2>1, <2>2 DEF StartsSearch
<1>4. ASSUME NEW m \in Nat, m \in T PROVE m+1 \in T
  <2> SUFFICES ASSUME (m+1)+1 <= N PROVE frames[(m+1)+1].amount \in Int
    OBVIOUS
  <2> DEFINE j == m+1  p == frames[j].pools[frames[j].i]
  <2>1. j \in 1 .. N-1 /\ j \in 1 .. N /\ frames[j].amount \in Int
    BY <1>1, <1>4
  <2>2. HandsOn(frames[j], frames[j+1], arrays) /\ p \in Pool
    BY <2>1, StackFacts
  <2>3. frames[j+1].amount = Quote(p, frames[j].token, frames[j].amount)
    BY <2>2 DEF HandsOn, QuotedAt
  <2>4. Quote(p, frames[j].token, frames[j].amount) \in Int
    <3>1. frames[j].token \in Token
      BY <1>2, <2>1
    <3> HIDE DEF p, j
    <3> QED BY <2>1, <2>2, <3>1 DEF QuotesAreAmounts, Quote
  <2> QED BY <2>3, <2>4
<1>5. Nat \subseteq T
  <2> HIDE DEF T
  <2> QED BY <1>3, <1>4, InductionOnNat
<1>6. k-1 \in T /\ (k-1)+1 = k
  BY <1>1, <1>5
<1> QED BY <1>1, <1>2, <1>6

(* and so is what the route quotes that the search arrives with,             *)
LEMMA NewAmount ==
  ASSUME SearchInv, InLoop, NEW P, PlacesFit(P, frames), QuotesAreAmounts,
         NEW pools, NEW way, way = Append(WayTo(Len(frames)), ThisPool),
         (IF request.exactIn THEN pools ELSE Reverse(pools)) = way
  PROVE  RouteAmount(pools) \in Int
<1> DEFINE K == Len(frames)  w == WayTo(K)  p == ThisPool
           here == [token |-> Top.token, amount |-> Top.amount]
           state == [m \in 1 .. K+1 |-> IF m = K+1 THEN QuotedAt(here, p)
                                        ELSE [token |-> frames[m].token, amount |-> frames[m].amount]]
<1>1. K \in Nat /\ K > 0 /\ K \in 1 .. K /\ Top = frames[K] /\ p \in Pool
  BY TopPlaces
<1>2. way \in Seq(Pool) /\ Len(way) = K /\ way[K] = p /\ \A m \in 1 .. K-1 : way[m] = w[m]
  <2>1. w \in Seq(Pool) /\ Len(w) = K-1
    BY <1>1, WayFacts
  <2>2. way = Append(w, p)
    OBVIOUS
  <2> HIDE DEF w, K, p
  <2>3. /\ way \in Seq(Pool) /\ Len(way) = Len(w)+1 /\ way[Len(w)+1] = p
        /\ \A m \in 1 .. Len(w) : way[m] = w[m]
    BY <1>1, <2>1, <2>2, AppendProperties
  <2>4. Len(w)+1 = K
    BY <1>1, <2>1
  <2> QED BY <2>1, <2>3, <2>4
<1>3. state[1] = StartState
  <2>1. StartsSearch(frames[1])
    BY <1>1, StackFacts
  <2> QED BY <1>1, <2>1 DEF StartsSearch, StartState
<1>4. state[K+1] = QuotedAt(here, p) /\ state[K] = here
  BY <1>1
<1>5. ASSUME NEW m \in 1 .. Len(way) PROVE state[m+1] = QuotedAt(state[m], way[m])
  <2>1. m \in 1 .. K
    BY <1>2
  <2>2. CASE m = K
    BY <1>2, <1>4, <2>2
  <2>3. CASE m # K
    <3>1. m \in 1 .. K-1 /\ m+1 \in 1 .. K /\ m # K+1 /\ m+1 # K+1 /\ m \in 1 .. K+1 /\ m+1 \in 1 .. K+1
      BY <1>1, <2>1, <2>3
    <3>2. HandsOn(frames[m], frames[m+1], arrays)
      BY <3>1, StackFacts
    <3>3. way[m] = frames[m].pools[frames[m].i]
      BY <1>2, <3>1 DEF WayTo
    <3>4. /\ state[m] = [token |-> frames[m].token, amount |-> frames[m].amount]
          /\ state[m+1] = [token |-> frames[m+1].token, amount |-> frames[m+1].amount]
      BY <3>1
    <3> QED BY <3>2, <3>3, <3>4 DEF HandsOn
  <2> QED BY <2>2, <2>3
<1> HIDE DEF state, here, p, K
<1>6. RouteAmount(pools) = state[Len(way)+1].amount
  BY <1>2, <1>3, <1>5, RouteAmountFollows
<1>7. RouteAmount(pools) = Quote(p, Top.token, Top.amount)
  BY <1>2, <1>4, <1>6 DEF QuotedAt, here
<1>8. Top.amount \in Int /\ Top.token \in Token
  BY <1>1, AmountsAreIntegers DEF K
<1> QED BY <1>1, <1>7, <1>8 DEF QuotesAreAmounts, Quote

(* and its trade can be compared.                                            *)
LEMMA TradeIsTrade ==
  ASSUME request \in Requests, NEW slice, NEW pools, RouteAmount(pools) \in Int, Len(pools) \in Int
  PROVE  IsTrade(TradeOf(slice, pools))
<1>1. request.amount \in Int
  BY PoolAssumption DEF Request
<1> QED BY <1>1 DEF TradeOf, IsTrade

(* The trade that is made of the way here is that of the walk here.          *)
LEMMA NewTradeFacts ==
  ASSUME SearchInv, InLoop, NEW P, PlacesFit(P, frames),
         NEW e, e = Extended(Top.current, ThisPool),
         NEW pools, pools = SubSeq(e.arrays[e.slice.array], 1, e.slice.len)
  PROVE  LET h == Here(P, frames)
             t == TradeOf(e.slice, pools)
         IN  /\ pools = RouteOf(h)
             /\ HasDuplicates(pools) <=> ~IsInjective(PoolsOf(h))
             /\ t.input = Offer(h).input /\ t.output = Offer(h).output /\ t.hops = Offer(h).hops
             /\ QuotesAreAmounts => IsTrade(t)
<1> DEFINE K == Len(frames)  h == Here(P, frames)  w == WayTo(K)  p == ThisPool  way == Append(w, p)
           t == TradeOf(e.slice, pools)
<1>1. /\ K \in Nat /\ K > 0 /\ K \in 1 .. K /\ Top = frames[K] /\ p \in Pool
      /\ IsMemory(arrays) /\ IsSliceIn(Top.current, arrays) /\ Top.current.len = K-1
      /\ request \in Requests
  BY TopPlaces, TopFacts DEF InLoop, SearchInv
<1>2. w \in Seq(Pool) /\ Len(w) = K-1 /\ way \in Seq(Pool) /\ Len(way) = K /\ way[K] = p
      /\ \A m \in 1 .. K-1 : way[m] = w[m]
  <2>1. w \in Seq(Pool) /\ Len(w) = K-1
    BY <1>1, WayFacts
  <2> HIDE DEF w, K
  <2>2. /\ way \in Seq(Pool) /\ Len(way) = Len(w)+1 /\ way[Len(w)+1] = p
        /\ \A m \in 1 .. Len(w) : way[m] = w[m]
    BY <1>1, <2>1, AppendProperties
  <2>3. Len(w)+1 = K
    BY <1>1, <2>1
  <2> HIDE DEF way
  <2> QED BY <2>1, <2>2, <2>3
<1>3. PoolsOf(h) = way
  BY HereFacts
<1>4. pools = IF request.exactIn THEN way ELSE Reverse(way)
  <2>1. /\ IsSliceIn(e.slice, e.arrays) /\ e.slice.len = Top.current.len + 1
        /\ ContentsIn(e.slice, e.arrays) = WithPool(ContentsIn(Top.current, arrays), p)
    BY <1>1, ExtendedFacts
  <2>2. pools = ContentsIn(e.slice, e.arrays)
    <3>1. e.slice.len # 0
      BY <1>1, <2>1
    <3> QED BY <3>1 DEF ContentsIn
  <2>3. ContentsIn(Top.current, arrays) = PathTo(K)
    BY <1>1, ContentsAreTheWay
  <2>4. Reverse(way) = <<p>> \o Reverse(w)
    BY <1>1, <1>2, ReverseAppend
  <2> QED BY <2>1, <2>2, <2>3, <2>4 DEF WithPool, PathTo
<1>5. pools = RouteOf(h)
  BY <1>3, <1>4 DEF RouteOf
<1>6. HasDuplicates(pools) <=> ~IsInjective(PoolsOf(h))
  BY <1>2, <1>3, <1>4, DuplicatesFacts
<1>7. t.input = Offer(h).input /\ t.output = Offer(h).output /\ t.hops = Offer(h).hops
  BY <1>5 DEF Offer, TradeOf
<1>8. ASSUME QuotesAreAmounts PROVE IsTrade(t)
  <2>1. (IF request.exactIn THEN pools ELSE Reverse(pools)) = way
    BY <1>2, <1>4, ReverseTwice
  <2>2. RouteAmount(pools) \in Int
    BY <1>8, <2>1, NewAmount
  <2>3. Len(pools) \in Int
    <3>1. way \in Seq(Pool) /\ Len(way) \in Int
      BY <1>1, <1>2
    <3> QED BY <1>4, <3>1, ReverseFacts
  <2> QED BY <1>1, <2>2, <2>3, TradeIsTrade
<1> QED BY <1>5, <1>6, <1>7, <1>8
-----------------------------------------------------------------------------
(* What makes a search fail: a walk whose last pool cannot be quoted, or     *)
(* that is a route with a pool twice or a route nobody can be given.         *)
Void == request.pools = <<>> \/ request.maxHops <= 0
Bad(s) ==
  \/ request.pools[s[Len(s)]] \in Failing
  \/ Complete(s) /\ (request.maxNumResults <= 0 \/ ~IsInjective(PoolsOf(s)))

(* What has been found in a set of walks: none that is bad, and the answer.  *)
Found(W, trades) ==
  /\ \A s \in W : ~Bad(s)
  /\ QuotesAreAmounts => Answers({s \in W : Complete(s)}, trades)

FoundInv ==
  /\ SearchInv
  /\ status \in {"start", "searching", "returned"}
  /\ status = "start" => bestTrades = <<>> /\ err = "nil"
  /\ status = "searching" =>
       /\ err = "nil" /\ ~Void
       /\ \E P : PlacesFit(P, frames) /\ Found(Seen(P, frames), bestTrades)
  /\ status = "returned" /\ err = "nil" => ~Void /\ Found(Walks, bestTrades)
  /\ status = "returned" /\ err # "nil" => Void \/ \E s \in Walks : Bad(s)

(* The request stays, and with it the walks, what is bad and what answers.   *)
TokensFor(r, s) ==
  LET at[k \in 0 .. Len(s)] == IF k = 0 THEN (IF r.exactIn THEN r.input ELSE r.output)
                               ELSE Other(r.pools[s[k]], at[k-1])
  IN  at

LEMMA SameWalks ==
  ASSUME request' = request
  PROVE  /\ Walks' = Walks /\ (Void' <=> Void)
         /\ \A s : Complete(s)' <=> Complete(s)
         /\ \A s : Bad(s)' <=> Bad(s)
<1>1. From' = From /\ To' = To
  BY DEF From, To
<1>2. \A s : TokenAfter(s)' = TokenAfter(s)
  <2> TAKE s
  <2>1. TokenAfter(s) = TokensFor(request, s)
    BY DEF TokenAfter, TokensFor, From
  <2>2. TokenAfter(s)' = TokensFor(request', s)
    BY DEF TokenAfter, TokensFor, From
  <2> QED BY <2>1, <2>2
<1>3. \A s : Complete(s)' <=> Complete(s)
  BY <1>1, <1>2 DEF Complete
<1>4. \A s : Follows(s)' <=> Follows(s)
  BY <1>1, <1>2 DEF Follows
<1>5. \A n : Walk(n)' = Walk(n)
  BY DEF Walk
<1>6. Walks' = Walks
  BY <1>4, <1>5 DEF Walks
<1>7. Void' <=> Void
  BY DEF Void
<1>8. \A s : PoolsOf(s)' = PoolsOf(s)
  BY DEF PoolsOf
<1>9. \A s : Bad(s)' <=> Bad(s)
  BY <1>3, <1>8 DEF Bad
<1> QED BY <1>3, <1>6, <1>7, <1>9

(* What has been found is found in the next state as well.                   *)
LEMMA SameFound ==
  ASSUME request' = request
  PROVE  \A W, trades : Found(W, trades)' <=> Found(W, trades)
<1>1. \A pools : RouteAmount(pools)' = RouteAmount(pools)
  <2> TAKE pools
  <2>1. RouteAmount(pools) = RouteAmountFor(request, pools)
    BY RouteAmountIsFor
  <2>2. RouteAmount(pools)' = RouteAmountFor(request', pools)
    BY DEF RouteAmount, RouteAmountFor, From, Quote, FoldLeft, MapThenFoldSet
  <2> QED BY <2>1, <2>2
<1>2. \A s : PoolsOf(s)' = PoolsOf(s)
  BY DEF PoolsOf
<1>3. \A s : RouteOf(s)' = RouteOf(s)
  BY <1>2 DEF RouteOf
<1>4. \A s, pools : TradeOf(s, pools)' = TradeOf(s, pools)
  BY <1>1 DEF TradeOf
<1>5. \A s : Offer(s)' = Offer(s)
  BY <1>3, <1>4 DEF Offer
<1>6. Wanted' = Wanted
  BY DEF Wanted
<1>7. \A C, x : Better(C, x)' = Better(C, x) /\ AsGood(C, x)' = AsGood(C, x)
  BY <1>5 DEF Better, AsGood
<1>8. \A C, trades : Answers(C, trades)' <=> Answers(C, trades)
  BY <1>5, <1>6, <1>7 DEF Answers
<1>9. /\ \A s : Complete(s)' <=> Complete(s)
      /\ \A s : Bad(s)' <=> Bad(s)
  BY SameWalks
<1> QED BY <1>8, <1>9 DEF Found

(* The places that fit fit in the next state as well.                        *)
LEMMA SamePlaces ==
  ASSUME request' = request
  PROVE  \A P, fs : PlacesFit(P, fs)' <=> PlacesFit(P, fs)
<1>1. To' = To
  BY DEF To
<1>2. \A P, fs, k : HasPlaces(P, fs, k)' <=> HasPlaces(P, fs, k)
  BY DEF HasPlaces
<1>3. \A fs, k : WentOn(fs, k)' <=> WentOn(fs, k)
  BY <1>1 DEF WentOn
<1> QED BY <1>2, <1>3 DEF PlacesFit

(* The next state of a search that goes on: places for its calls, and what   *)
(* is found in the walks they have passed.                                   *)
LEMMA StillSearching ==
  ASSUME request' = request, SearchInv', status' = "searching", err' = "nil", ~Void,
         NEW P, PlacesFit(P, frames'), Found(Seen(P, frames'), bestTrades')
  PROVE  FoundInv'
<1>1. Walks' = Walks /\ ~Void'
  BY SameWalks
<1>2. Seen(P, frames)' = Seen(P, frames')
  BY <1>1 DEF Seen
<1>3. PlacesFit(P, frames)'
  BY SamePlaces
<1>4. Found(Seen(P, frames), bestTrades)'
  BY <1>2, SameFound
<1> QED BY <1>1, <1>3, <1>4 DEF FoundInv

(* The next state of a search that returns its answer.                       *)
LEMMA SearchAnswers ==
  ASSUME request' = request, SearchInv', status' = "returned", err' = "nil", ~Void,
         Found(Walks, bestTrades')
  PROVE  FoundInv'
<1>1. Walks' = Walks /\ ~Void'
  BY SameWalks
<1>2. Found(Walks, bestTrades)'
  BY <1>1, SameFound
<1> QED BY <1>1, <1>2 DEF FoundInv

(* The next state of a search that fails.                                    *)
LEMMA SearchFails ==
  ASSUME request' = request, SearchInv', status' = "returned", err' # "nil",
         Void \/ \E s \in Walks : Bad(s)
  PROVE  FoundInv'
<1>1. Walks' = Walks /\ (Void' <=> Void) /\ \A s : Bad(s)' <=> Bad(s)
  BY SameWalks
<1> QED BY <1>1 DEF FoundInv
-----------------------------------------------------------------------------
(* Walks that are no routes and not bad change nothing.                      *)
LEMMA FoundMore ==
  ASSUME NEW W, NEW trades, Found(W, trades), NEW V, W \subseteq V,
         \A s \in V : s \in W \/ (~Bad(s) /\ ~Complete(s))
  PROVE  Found(V, trades)
<1>1. {s \in V : Complete(s)} = {s \in W : Complete(s)}
  OBVIOUS
<1>2. \A s \in V : ~Bad(s)
  BY DEF Found
<1> QED BY <1>1, <1>2 DEF Found

(* A route more is found by adding its trade.                                *)
LEMMA FoundOneMore ==
  ASSUME NEW W, NEW trades, Found(W, trades), NEW s, s \notin W, Complete(s), ~Bad(s),
         request.maxNumResults \in Int, request.maxNumResults > 0, NEW t,
         t.input = Offer(s).input, t.output = Offer(s).output, t.hops = Offer(s).hops,
         QuotesAreAmounts => IsTrade(t)
  PROVE  Found(W \cup {s}, sortedInsert(trades, t, request.maxNumResults))
<1> DEFINE C == {x \in W : Complete(x)}  D == {x \in W \cup {s} : Complete(x)}
<1>1. D = C \cup {s} /\ s \notin C
  OBVIOUS
<1>2. \A x \in W \cup {s} : ~Bad(x)
  BY DEF Found
<1>3. Wanted = request.maxNumResults /\ Wanted \in Nat /\ Wanted > 0
  BY DEF Wanted
<1>4. ASSUME QuotesAreAmounts PROVE Answers(D, sortedInsert(trades, t, request.maxNumResults))
  <2>1. Answers(C, trades) /\ IsTrade(t)
    BY <1>4 DEF Found
  <2> HIDE DEF C, D
  <2> QED BY <1>1, <1>3, <2>1, AddedAnswers
<1> QED BY <1>2, <1>4 DEF Found

(* The search begins with the places of all pools, and has passed no walk.   *)
LEMMA BeginsWithNothing ==
  ASSUME SearchInv, NEW fs, fs = <<Frame(request.pools, Nil, From, request.amount, request.maxHops)>>,
         request.maxHops > 0
  PROVE  \E P : PlacesFit(P, fs) /\ Found(Seen(P, fs), <<>>)
<1> DEFINE N == Len(request.pools)  P == [k \in 1 .. 1 |-> [j \in 1 .. N |-> j]]
<1>1. request.pools \in Seq(Pool) /\ N \in Nat /\ request.maxHops \in Int
  BY StackFacts, LenProperties
<1>2. request.maxNumResults \in Int
  BY PoolAssumption DEF SearchInv, Request
<1>3. /\ Len(fs) = 1 /\ fs[1].pools = request.pools /\ fs[1].i = 1
      /\ fs[1].maxHops = request.maxHops
  BY DEF Frame
<1>4. \A j \in 1 .. N : P[1][j] = j
  OBVIOUS
<1> HIDE DEF P, N
<1>5. HasPlaces(P, fs, 1)
  <2>1. fs[1].i \in 1 .. N+1 /\ request.maxHops >= 1
    BY <1>1, <1>3
  <2>2. \A x \in 1 .. N : \E j \in 1 .. N : P[1][j] = x
    BY <1>4
  <2>3. \A m \in 1 .. 1-1 : FALSE
    OBVIOUS
  <2> QED BY <1>3, <1>4, <2>1, <2>2, <2>3 DEF HasPlaces, N
<1>6. PlacesFit(P, fs)
  BY <1>3, <1>5 DEF PlacesFit
<1>7. ASSUME NEW s \in Walks PROVE ~Passed(P, fs, s)
  <2>1. Len(s) \in Nat /\ Len(s) > 0
    BY WalkFacts, LenProperties
  <2>2. ~GonePast(P, fs, s, 1)
    BY <1>3 DEF GonePast
  <2> QED BY <1>3, <2>1, <2>2 DEF Passed
<1>8. Seen(P, fs) = {}
  BY <1>7 DEF Seen
<1>9. Answers({}, <<>>)
  <2>1. IsFiniteSet({}) /\ Cardinality({}) = 0
    BY FS_EmptySet
  <2>2. InOrder(<<>>)
    BY EmptySeq DEF InOrder
  <2>3. Len(<<>>) = IF 0 < Wanted THEN 0 ELSE Wanted
    BY <1>2 DEF Wanted
  <2> QED BY <2>1, <2>2, <2>3 DEF Answers
<1>10. {s \in {} : Complete(s)} = {}
  OBVIOUS
<1>11. Found({}, <<>>)
  BY <1>9, <1>10 DEF Found
<1> QED BY <1>6, <1>8, <1>11

(* The walk here: what it ends with, and that it is new.                     *)
LEMMA HereIsNew ==
  ASSUME SearchInv, InLoop, InvolvesToken(ThisPool, Top.token), NEW P, PlacesFit(P, frames)
  PROVE  LET h == Here(P, frames)
         IN  /\ h \in Walks /\ h \notin Seen(P, frames)
             /\ Complete(h) <=> Arriving
             /\ request.pools[h[Len(h)]] = ThisPool
<1> DEFINE h == Here(P, frames)
<1>1. /\ Len(h) = Len(frames) /\ request.pools[h[Len(frames)]] = ThisPool
      /\ TokenAfter(h)[Len(frames)] = Other(ThisPool, Top.token)
      /\ h \in Walks /\ ~Passed(P, frames, h)
  BY HereFacts
<1> HIDE DEF h
<1>2. Complete(h) <=> Arriving
  BY <1>1 DEF Complete, Arriving
<1>3. h \notin Seen(P, frames)
  BY <1>1 DEF Seen
<1> QED BY <1>1, <1>2, <1>3 DEF h

(* When the innermost call goes on without a call of its own, it has passed  *)
(* the walk here, if it could be quoted, and no other.                       *)
LEMMA SeenGoesOn ==
  ASSUME SearchInv, InLoop, NEW P, PlacesFit(P, frames),
         InvolvesToken(ThisPool, Top.token) => Arriving \/ ~CanDescend
  PROVE  /\ PlacesFit(P, Advanced(frames))
         /\ InvolvesToken(ThisPool, Top.token) =>
              Seen(P, Advanced(frames)) = Seen(P, frames) \cup {Here(P, frames)}
         /\ ~InvolvesToken(ThisPool, Top.token) => Seen(P, Advanced(frames)) = Seen(P, frames)
<1> DEFINE K == Len(frames)  new == Advanced(frames)  h == Here(P, frames)
<1>1. /\ K \in Nat /\ K > 0 /\ K \in 1 .. K /\ Top = frames[K]
      /\ frames[K].i \in 1 .. Len(frames[K].pools) /\ frames[K].i \in Nat /\ frames[K].i > 0
      /\ Len(frames[K].pools) \in Nat /\ frames[K].i <= Len(frames[K].pools)
  BY TopPlaces
<1>2. StackFits(frames, arrays) /\ frames # <<>>
  BY DEF SearchInv, InLoop
<1>3. GoesOn(frames, K, new)
  BY <1>2, AdvancedGoesOn
<1> HIDE DEF new, h, K
<1>4. PlacesFit(P, new)
  <2>1. Len(frames) \in Nat /\ K \in 1 .. Len(frames)
    BY <1>1 DEF K
  <2> QED BY <1>1, <1>3, <2>1, PlacesGoOn
<1>5. ASSUME NEW s \in Walks
      PROVE  Passed(P, new, s) <=> Passed(P, frames, s) \/ (K <= Len(s) /\ Along(P, frames, s, K))
  <2>1. Len(s) \in Nat
    BY WalkFacts, LenProperties
  <2> QED BY <1>1, <1>3, <2>1, PassedFurther DEF K
<1>6. ASSUME NEW s \in Walks, K <= Len(s), Along(P, frames, s, K)
      PROVE  InvolvesToken(ThisPool, Top.token) /\ s = h
  <2>1. /\ InvolvesToken(ThisPool, Top.token)
        /\ Arriving \/ ~CanDescend => Len(s) = K
        /\ Len(s) = K => s = h
    BY <1>6, BeginsHere DEF K, h
  <2> QED BY <2>1
<1>7. ASSUME ~InvolvesToken(ThisPool, Top.token) PROVE Seen(P, new) = Seen(P, frames)
  BY <1>5, <1>6, <1>7 DEF Seen
<1>8. ASSUME InvolvesToken(ThisPool, Top.token) PROVE Seen(P, new) = Seen(P, frames) \cup {h}
  <2>1. h \in Walks /\ Len(h) = K /\ Along(P, frames, h, K)
    BY <1>8, HereFacts DEF h, K
  <2>2. K <= Len(h)
    BY <1>1, <2>1
  <2> QED BY <1>5, <1>6, <2>1, <2>2 DEF Seen
<1> QED BY <1>4, <1>7, <1>8 DEF new, h
-----------------------------------------------------------------------------
(* A call is made: the walk here is passed, if that is one, and no other.    *)
LEMMA SeenDescends ==
  ASSUME SearchInv, Quoted, ~Arriving, CanDescend, NEW P, PlacesFit(P, frames),
         NEW g, g.pools = Excluding(Top.pools, Top.i), g.i = 1,
         g.token = Other(ThisPool, Top.token), g.maxHops = Top.maxHops - 1
  PROVE  \E Q : /\ PlacesFit(Q, Append(frames, g))
                /\ Seen(Q, Append(frames, g)) = Seen(P, frames) \cup {Here(P, frames)}
<1> DEFINE K == Len(frames)  new == Append(frames, g)  h == Here(P, frames)
<1>1. K \in Nat /\ InLoop /\ InvolvesToken(ThisPool, Top.token)
  BY TopPlaces DEF Quoted
<1>2. Len(new) = K+1 /\ new[K+1] = g /\ \A k \in 1 .. K : new[k] = frames[k]
  <2>1. PICK A : frames \in Seq(FramesWith(A))
    BY DEF SearchInv, StackFits
  <2>2. frames \in Seq(FramesWith(A) \cup {g}) /\ g \in FramesWith(A) \cup {g}
    <3>1. \A k \in 1 .. K : frames[k] \in FramesWith(A) \cup {g}
      BY <2>1, ElementOfSeq
    <3>2. frames = [k \in 1 .. K |-> frames[k]]
      BY <2>1, LenProperties
    <3> QED BY <1>1, <3>1, <3>2, SeqDef
  <2> QED BY <2>2, AppendProperties
<1> HIDE DEF new, h, K
<1>3. PICK Q : PlacesFit(Q, new) /\ \A k \in 1 .. K : Q[k] = P[k]
  BY <1>2, PlacesDescend DEF K
<1>4. h \in Walks /\ Len(h) = K /\ Along(P, frames, h, K)
  BY <1>1, HereFacts DEF h, K
<1>5. ASSUME NEW s \in Walks
      PROVE  Passed(Q, new, s) <=> Passed(P, frames, s) \/ s = h
  <2>1. Len(s) \in Nat
    BY WalkFacts, LenProperties
  <2>2. Passed(Q, new, s) <=> Passed(P, frames, s) \/ (Len(s) = K /\ Along(P, frames, s, K))
    <3>1. /\ K \in Nat /\ K = Len(frames) /\ Len(new) = K+1 /\ new[K+1].i = 1
          /\ \A k \in 1 .. K : new[k] = frames[k] /\ Q[k] = P[k]
      BY <1>1, <1>2, <1>3 DEF K
    <3> QED BY <2>1, <3>1, PassedDescends
  <2>3. ASSUME Len(s) = K, Along(P, frames, s, K) PROVE s = h
    <3>1. Len(frames) <= Len(s) /\ Along(P, frames, s, Len(frames))
      BY <1>1, <2>3 DEF K
    <3> QED BY <1>1, <2>3, <3>1, BeginsHere DEF h, K
  <2> QED BY <1>4, <2>2, <2>3
<1>6. Seen(Q, new) = Seen(P, frames) \cup {h}
  BY <1>4, <1>5 DEF Seen
<1> QED BY <1>3, <1>6 DEF new, h

(* A call returns: no walk is passed by that.  When the first returns, all   *)
(* have been passed.                                                         *)
LEMMA SeenReturns ==
  ASSUME SearchInv, status = "searching", Top.i > Len(Top.pools), NEW P, PlacesFit(P, frames)
  PROVE  /\ Len(frames) = 1 => Seen(P, frames) = Walks
         /\ Len(frames) # 1 => /\ PlacesFit(P, Advanced(Front(frames)))
                               /\ Seen(P, Advanced(Front(frames))) = Seen(P, frames)
<1> DEFINE K == Len(frames)  new == Advanced(Front(frames))
<1>1. /\ K \in Nat /\ K > 0 /\ frames # <<>> /\ StackFits(frames, arrays)
      /\ Top = frames[K]
  BY TopFacts DEF SearchInv, Top, Last
<1>2. \A k \in 1 .. K : Len(frames[k].pools) \in Nat
  BY StackFacts, LenProperties
<1>3. frames[K].i > Len(frames[K].pools) /\ K \in 1 .. K
  BY <1>1
<1>4. ASSUME K = 1 PROVE Seen(P, frames) = Walks
  <2>1. Len(frames) = 1 /\ Len(frames[1].pools) \in Nat /\ frames[1].i > Len(frames[1].pools)
    BY <1>2, <1>3, <1>4
  <2>2. \A s \in Walks : Passed(P, frames, s)
    BY <2>1, AllPassed
  <2> QED BY <2>2 DEF Seen
<1>5. ASSUME K # 1
      PROVE  PlacesFit(P, new) /\ Seen(P, new) = Seen(P, frames)
  <2>1. GoesOn(frames, K-1, new)
    BY <1>1, <1>5, ReturnedGoesOn
  <2> HIDE DEF new, K
  <2>2. K-1 \in 1 .. K /\ K-1 \in 1 .. K-1 /\ K > 1
    BY <1>1, <1>5
  <2>3. frames[K-1].i <= Len(frames[K-1].pools)
    <3>1. HandsOn(frames[K-1], frames[(K-1)+1], arrays)
      BY <2>2, StackFacts DEF K
    <3>2. (K-1)+1 = K
      BY <1>1
    <3> QED BY <3>1, <3>2 DEF HandsOn
  <2>4. PlacesFit(P, new)
    <3>1. K-1 \in 1 .. Len(frames) /\ Len(frames) \in Nat /\ Len(frames[K-1].pools) \in Nat
      BY <1>1, <1>2, <2>2 DEF K
    <3> QED BY <2>1, <2>3, <3>1, PlacesGoOn
  <2>5. ASSUME NEW s \in Walks PROVE Passed(P, new, s) <=> Passed(P, frames, s)
    <3>1. K = Len(frames) /\ Len(frames[K].pools) \in Nat /\ Len(frames[K-1].pools) \in Nat
      BY <1>2, <1>3, <2>2 DEF K
    <3> QED BY <1>1, <1>3, <2>2, <2>1, <3>1, PassedReturns
  <2>6. Seen(P, new) = Seen(P, frames)
    BY <2>5 DEF Seen
  <2> QED BY <2>4, <2>6
<1> QED BY <1>4, <1>5
-----------------------------------------------------------------------------
(* Every step keeps what the search has found and passed.  Only the steps that*)
(* leave a pool behind pass a walk, and they pass one.                       *)
LEMMA FoundStep ==
  ASSUME FoundInv, [Next]_vars
  PROVE  FoundInv'
<1>1. SearchInv /\ SearchInv'
  BY SearchStep DEF FoundInv
<1>2. request.maxNumResults \in Int /\ request.maxHops \in Int
  BY <1>1, PoolAssumption DEF SearchInv, Request
<1>3. ASSUME status = "searching"
      PROVE  /\ err = "nil" /\ ~Void
             /\ \E P : PlacesFit(P, frames) /\ Found(Seen(P, frames), bestTrades)
  BY <1>3 DEF FoundInv
<1>4. CASE Begin
  <2>1. status = "start" /\ request' = request /\ bestTrades = <<>> /\ err = "nil"
    BY <1>4 DEF Begin, FoundInv
  <2>2. CASE Void
    <3>1. status' = "returned" /\ err' # "nil"
      BY <1>2, <1>4, <2>2 DEF Begin, ReturnError, Void
    <3> QED BY <1>1, <2>1, <2>2, <3>1, SearchFails
  <2>3. CASE ~Void
    <3>1. /\ frames' = <<Frame(request.pools, Nil, From, request.amount, request.maxHops)>>
          /\ status' = "searching" /\ bestTrades' = bestTrades /\ err' = err
      BY <1>4, <2>3 DEF Begin, Void
    <3>2. request.maxHops > 0
      BY <1>2, <2>3 DEF Void
    <3>3. PICK P : PlacesFit(P, frames') /\ Found(Seen(P, frames'), <<>>)
      BY <1>1, <3>1, <3>2, BeginsWithNothing
    <3>4. Found(Seen(P, frames'), bestTrades')
      BY <2>1, <3>1, <3>3
    <3> QED BY <1>1, <2>1, <2>3, <3>1, <3>3, <3>4, StillSearching
  <2> QED BY <2>2, <2>3
<1>5. CASE Skip
  <2>1. /\ status = "searching" /\ InLoop /\ ~InvolvesToken(ThisPool, Top.token)
        /\ frames' = Advanced(frames) /\ request' = request /\ bestTrades' = bestTrades
        /\ status' = status /\ err' = err
    BY <1>5 DEF Skip, InLoop
  <2>2. PICK P : PlacesFit(P, frames) /\ Found(Seen(P, frames), bestTrades)
    BY <1>3, <2>1
  <2>3. PlacesFit(P, frames') /\ Seen(P, frames') = Seen(P, frames)
    BY <1>1, <2>1, <2>2, SeenGoesOn
  <2>4. Found(Seen(P, frames'), bestTrades')
    BY <2>1, <2>2, <2>3
  <2>5. status' = "searching" /\ err' = "nil" /\ ~Void
    BY <1>3, <2>1
  <2> QED BY <1>1, <2>1, <2>3, <2>4, <2>5, StillSearching
<1>6. CASE FailToQuote
  <2>1. /\ status = "searching" /\ InLoop /\ InvolvesToken(ThisPool, Top.token)
        /\ ThisPool \in Failing /\ request' = request /\ status' = "returned" /\ err' # "nil"
    BY <1>6 DEF FailToQuote, InLoop, ReturnError
  <2>2. PICK P : PlacesFit(P, frames)
    BY <1>3, <2>1
  <2>3. Here(P, frames) \in Walks /\ Bad(Here(P, frames))
    BY <1>1, <2>1, <2>2, HereIsNew DEF Bad
  <2> QED BY <1>1, <2>1, <2>3, SearchFails
<1>7. CASE Arrive
  <2> DEFINE e == Extended(Top.current, ThisPool)
             pools == SubSeq(e.arrays[e.slice.array], 1, e.slice.len)
             t == TradeOf(e.slice, pools)
  <2>1. /\ status = "searching" /\ InLoop /\ InvolvesToken(ThisPool, Top.token)
        /\ ThisPool \notin Failing /\ Arriving /\ request' = request
    BY <1>7 DEF Arrive, Quoted, InLoop
  <2>2. PICK P : PlacesFit(P, frames) /\ Found(Seen(P, frames), bestTrades)
    BY <1>3, <2>1
  <2> DEFINE h == Here(P, frames)
  <2>3. /\ HasDuplicates(pools) <=> ~IsInjective(PoolsOf(h))
        /\ t.input = Offer(h).input /\ t.output = Offer(h).output /\ t.hops = Offer(h).hops
        /\ QuotesAreAmounts => IsTrade(t)
    <3>1. SearchInv /\ InLoop /\ PlacesFit(P, frames) /\ e = Extended(Top.current, ThisPool)
      BY <1>1, <2>1, <2>2
    <3>2. pools = SubSeq(e.arrays[e.slice.array], 1, e.slice.len)
      OBVIOUS
    <3> HIDE DEF e, pools
    <3> QED BY <3>1, <3>2, NewTradeFacts
  <2>4. /\ h \in Walks /\ h \notin Seen(P, frames) /\ Complete(h)
        /\ request.pools[h[Len(h)]] = ThisPool
    BY <1>1, <2>1, <2>2, HereIsNew
  <2>5. \/ HasDuplicates(pools) /\ status' = "returned" /\ err' # "nil"
        \/ ~HasDuplicates(pools) /\ request.maxNumResults <= 0 /\ status' = "returned" /\ err' # "nil"
        \/ /\ ~HasDuplicates(pools) /\ request.maxNumResults > 0
           /\ bestTrades' = sortedInsert(bestTrades, t, request.maxNumResults)
           /\ frames' = Advanced(frames) /\ status' = status /\ err' = err
    BY <1>7 DEF Arrive, ReturnError
  <2> HIDE DEF e, pools, t, h
  <2>6. CASE HasDuplicates(pools) \/ request.maxNumResults <= 0
    <3>1. Bad(h)
      BY <2>3, <2>4, <2>6 DEF Bad
    <3>2. status' = "returned" /\ err' # "nil"
      BY <1>2, <2>5, <2>6
    <3> QED BY <1>1, <2>1, <2>4, <3>1, <3>2, SearchFails
  <2>7. CASE ~HasDuplicates(pools) /\ ~(request.maxNumResults <= 0)
    <3>1. /\ request.maxNumResults > 0
          /\ bestTrades' = sortedInsert(bestTrades, t, request.maxNumResults)
          /\ frames' = Advanced(frames) /\ status' = status /\ err' = err
      BY <1>2, <2>5, <2>7
    <3>2. ~Bad(h)
      BY <2>1, <2>3, <2>4, <2>7 DEF Bad
    <3>3. PlacesFit(P, frames') /\ Seen(P, frames') = Seen(P, frames) \cup {h}
      BY <1>1, <2>1, <2>2, <3>1, SeenGoesOn DEF h
    <3>4. Found(Seen(P, frames) \cup {h}, sortedInsert(bestTrades, t, request.maxNumResults))
      BY <1>2, <2>2, <2>3, <2>4, <3>1, <3>2, FoundOneMore
    <3>5. Found(Seen(P, frames'), bestTrades')
      BY <3>1, <3>3, <3>4
    <3>6. status' = "searching" /\ err' = "nil" /\ ~Void
      BY <1>3, <2>1, <3>1
    <3> QED BY <1>1, <2>1, <3>3, <3>5, <3>6, StillSearching
  <2> QED BY <2>6, <2>7
<1>8. CASE Descend
  <2> DEFINE e == Extended(Top.current, ThisPool)
             g == Frame(Excluding(Top.pools, Top.i), e.slice, Other(ThisPool, Top.token),
                        Quote(ThisPool, Top.token, Top.amount), Top.maxHops - 1)
  <2>1. /\ status = "searching" /\ Quoted /\ InLoop /\ InvolvesToken(ThisPool, Top.token)
        /\ ThisPool \notin Failing /\ ~Arriving /\ CanDescend
        /\ frames' = Append(frames, g) /\ request' = request /\ bestTrades' = bestTrades
        /\ status' = status /\ err' = err
    BY <1>8 DEF Descend, Quoted, InLoop
  <2>2. PICK P : PlacesFit(P, frames) /\ Found(Seen(P, frames), bestTrades)
    BY <1>3, <2>1
  <2>3. /\ g.pools = Excluding(Top.pools, Top.i) /\ g.i = 1
        /\ g.token = Other(ThisPool, Top.token) /\ g.maxHops = Top.maxHops - 1
    BY DEF Frame
  <2> HIDE DEF e, g
  <2>4. PICK Q : /\ PlacesFit(Q, Append(frames, g))
                 /\ Seen(Q, Append(frames, g)) = Seen(P, frames) \cup {Here(P, frames)}
    BY <1>1, <2>1, <2>2, <2>3, SeenDescends
  <2>5. ~Bad(Here(P, frames)) /\ ~Complete(Here(P, frames))
    BY <1>1, <2>1, <2>2, HereIsNew DEF Bad
  <2>6. Found(Seen(P, frames) \cup {Here(P, frames)}, bestTrades)
    BY <2>2, <2>5, FoundMore
  <2>7. PlacesFit(Q, frames') /\ Found(Seen(Q, frames'), bestTrades')
    BY <2>1, <2>4, <2>6
  <2>8. status' = "searching" /\ err' = "nil" /\ ~Void
    BY <1>3, <2>1
  <2> QED BY <1>1, <2>1, <2>7, <2>8, StillSearching
<1>9. CASE DeadEnd
  <2>1. /\ status = "searching" /\ InLoop /\ InvolvesToken(ThisPool, Top.token)
        /\ ThisPool \notin Failing /\ ~Arriving /\ ~CanDescend
        /\ frames' = Advanced(frames) /\ request' = request /\ bestTrades' = bestTrades
        /\ status' = status /\ err' = err
    BY <1>9 DEF DeadEnd, Quoted, InLoop
  <2>2. PICK P : PlacesFit(P, frames) /\ Found(Seen(P, frames), bestTrades)
    BY <1>3, <2>1
  <2>3. PlacesFit(P, frames') /\ Seen(P, frames') = Seen(P, frames) \cup {Here(P, frames)}
    BY <1>1, <2>1, <2>2, SeenGoesOn
  <2>4. ~Bad(Here(P, frames)) /\ ~Complete(Here(P, frames))
    BY <1>1, <2>1, <2>2, HereIsNew DEF Bad
  <2>5. Found(Seen(P, frames) \cup {Here(P, frames)}, bestTrades)
    BY <2>2, <2>4, FoundMore
  <2>6. Found(Seen(P, frames'), bestTrades')
    BY <2>1, <2>3, <2>5
  <2>7. status' = "searching" /\ err' = "nil" /\ ~Void
    BY <1>3, <2>1
  <2> QED BY <1>1, <2>1, <2>3, <2>6, <2>7, StillSearching
<1>10. CASE Leave
  <2>1. /\ status = "searching" /\ Top.i > Len(Top.pools) /\ request' = request
        /\ bestTrades' = bestTrades /\ err' = err
    BY <1>10 DEF Leave
  <2>2. PICK P : PlacesFit(P, frames) /\ Found(Seen(P, frames), bestTrades)
    BY <1>3, <2>1
  <2>3. err' = "nil" /\ ~Void
    BY <1>3, <2>1
  <2>4. CASE Len(frames) = 1
    <3>1. status' = "returned"
      BY <1>10, <2>4 DEF Leave
    <3>2. Seen(P, frames) = Walks
      BY <1>1, <2>1, <2>2, <2>4, SeenReturns
    <3>3. Found(Walks, bestTrades')
      BY <2>1, <2>2, <3>2
    <3> QED BY <1>1, <2>1, <2>3, <3>1, <3>3, SearchAnswers
  <2>5. CASE Len(frames) # 1
    <3>1. frames' = Advanced(Front(frames)) /\ status' = "searching"
      BY <1>10, <2>1, <2>5 DEF Leave
    <3>2. PlacesFit(P, frames') /\ Seen(P, frames') = Seen(P, frames)
      BY <1>1, <2>1, <2>2, <2>5, <3>1, SeenReturns
    <3>3. Found(Seen(P, frames'), bestTrades')
      BY <2>1, <2>2, <3>2
    <3> QED BY <1>1, <2>1, <2>3, <3>1, <3>2, <3>3, StillSearching
  <2> QED BY <2>4, <2>5
<1>11. CASE UNCHANGED vars
  <2>1. /\ request' = request /\ frames' = frames /\ bestTrades' = bestTrades
        /\ status' = status /\ err' = err
    BY <1>11 DEF vars
  <2>2. CASE status = "searching"
    <3>1. PICK P : PlacesFit(P, frames) /\ Found(Seen(P, frames), bestTrades)
      BY <1>3, <2>2
    <3>2. PlacesFit(P, frames') /\ Found(Seen(P, frames'), bestTrades')
      BY <2>1, <3>1
    <3> QED BY <1>1, <1>3, <2>1, <2>2, <3>2, StillSearching
  <2>3. CASE status = "returned" /\ err = "nil"
    <3>1. ~Void /\ Found(Walks, bestTrades')
      BY <2>1, <2>3 DEF FoundInv
    <3> QED BY <1>1, <2>1, <2>3, <3>1, SearchAnswers
  <2>4. CASE status = "returned" /\ err # "nil"
    <3>1. Void \/ \E s \in Walks : Bad(s)
      BY <2>4 DEF FoundInv
    <3> QED BY <1>1, <2>1, <2>4, <3>1, SearchFails
  <2>5. CASE status = "start"
    BY <1>1, <2>1, <2>5 DEF FoundInv
  <2> QED BY <2>2, <2>3, <2>4, <2>5 DEF FoundInv
<1> QED BY <1>4, <1>5, <1>6, <1>7, <1>8, <1>9, <1>10, <1>11 DEF Next

(* Before it begins a search has neither found nor failed.                   *)
LEMMA FoundStarts ==
  ASSUME Init
  PROVE  FoundInv
BY SearchStarts DEF Init, FoundInv

(* A search that returns has failed exactly for one of these reasons: the    *)
(* request is void, or some walk is bad, which is to say a pool that it can  *)
(* reach cannot be quoted, or a route has a pool twice, or may not be given. *)
THEOREM FailuresHaveReasons == Spec => []FailsForAReason
<1>1. Init => FoundInv
  BY FoundStarts
<1>2. FoundInv /\ [Next]_vars => FoundInv'
  BY FoundStep
<1>3. ASSUME FoundInv PROVE FailsForAReason
  <2>1. status = "returned" /\ err = "nil" => ~Void /\ \A s \in Walks : ~Bad(s)
    BY <1>3 DEF FoundInv, Found
  <2>2. status = "returned" /\ err # "nil" => Void \/ \E s \in Walks : Bad(s)
    BY <1>3 DEF FoundInv
  <2> QED BY <2>1, <2>2 DEF FailsForAReason, Void, Bad
<1> QED BY <1>1, <1>2, <1>3, PTL DEF Spec

(* A search that does not fail answers with the best trades there are: as    *)
(* many as there are routes, or as are wanted, and each with fewer better    *)
(* ones than its place says and no fewer as good; for every list of pools,   *)
(* every request, and every amount that the pools quote.                     *)
THEOREM BestTradesAreBest == QuotesAreAmounts => (Spec => []BestAreBest)
<1> DEFINE I == FoundInv /\ QuotesAreAmounts
<1>1. Init /\ QuotesAreAmounts => I
  BY FoundStarts
<1>2. I /\ [Next]_vars => I'
  BY FoundStep DEF QuotesAreAmounts
<1>3. ASSUME I PROVE BestAreBest
  <2> SUFFICES ASSUME status = "returned", err = "nil"
               PROVE  LET routes == {s \in Walks : Complete(s)}
                          offers == [s \in routes |-> TradeOf(Nil, RouteOf(s))]
                          n == IF request.maxNumResults > 0 THEN request.maxNumResults ELSE 0
                      IN  /\ Len(bestTrades) = IF Cardinality(routes) < n THEN Cardinality(routes) ELSE n
                          /\ \A k \in DOMAIN bestTrades :
                               /\ Cardinality({s \in routes : Beats(offers[s], bestTrades[k])}) < k
                               /\ Cardinality({s \in routes : ~Beats(bestTrades[k], offers[s])}) >= k
    BY DEF BestAreBest
  <2> DEFINE routes == {s \in Walks : Complete(s)}
             offers == [s \in routes |-> TradeOf(Nil, RouteOf(s))]
  <2>1. Answers(routes, bestTrades)
    BY <1>3 DEF FoundInv, Found
  <2>2. \A s \in routes : offers[s] = Offer(s)
    BY DEF Offer
  <2> HIDE DEF routes, offers
  <2>3. \A x : /\ Better(routes, x) = {s \in routes : Beats(offers[s], x)}
               /\ AsGood(routes, x) = {s \in routes : ~Beats(x, offers[s])}
    BY <2>2 DEF Better, AsGood
  <2>4. DOMAIN bestTrades = 1 .. Len(bestTrades)
    BY <2>1, LenProperties DEF Answers, InOrder
  <2>5. Len(bestTrades) = IF Cardinality(routes) < Wanted THEN Cardinality(routes) ELSE Wanted
    BY <2>1 DEF Answers
  <2>6. \A k \in DOMAIN bestTrades :
          /\ Cardinality({s \in routes : Beats(offers[s], bestTrades[k])}) < k
          /\ Cardinality({s \in routes : ~Beats(bestTrades[k], offers[s])}) >= k
    BY <2>1, <2>3, <2>4 DEF Answers
  <2> QED BY <2>5, <2>6 DEF Wanted, routes, offers
<1> QED BY <1>1, <1>2, <1>3, PTL DEF Spec
=============================================================================
