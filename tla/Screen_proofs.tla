---------------------------- MODULE Screen_proofs ----------------------------
(***************************************************************************)
(* What holds of Screen for any displays, huts and layer surfaces.         *)
(***************************************************************************)
EXTENDS Screen, FiniteSetTheorems, TLAPS

-----------------------------------------------------------------------------
(* Sums of zones.  Taken is a function defined by recursion; that there is *)
(* one, and that it is the only one, is an induction over the naturals     *)
(* derived here from the order of finite sets.                             *)

\* A set with 0 and the successors of its members has every natural number.
LEMMA NatSetInduction ==
    ASSUME NEW S, 0 \in S, \A n \in Nat : n \in S => n + 1 \in S
    PROVE  Nat \subseteq S
<1> SUFFICES ASSUME NEW n \in Nat, n \notin S PROVE FALSE
  OBVIOUS
<1> DEFINE T == {0..k : k \in {i \in 0..n : i \notin S}}
           R == StrictSubsetOrdering(0..n)
<1>1. IsWellFoundedOn(R, FiniteSubsetsOf(0..n))
  BY FS_StrictSubsetOrderingWellFounded
<1>2. T \subseteq FiniteSubsetsOf(0..n)
  <2> SUFFICES ASSUME NEW k \in 0..n PROVE 0..k \in FiniteSubsetsOf(0..n)
    OBVIOUS
  <2>1. IsFiniteSet(0..k)
    BY FS_Interval
  <2> QED BY <2>1 DEF FiniteSubsetsOf
<1>3. 0..n \in T
  OBVIOUS
<1>4. PICK x \in T : \A y \in T : <<y, x>> \notin R
  <2> HIDE DEF T, R
  <2> QED BY <1>1, <1>2, <1>3, WFMin
<1>5. PICK k \in 0..n : k \notin S /\ x = 0..k
  OBVIOUS
<1>6. k # 0 /\ k - 1 \in 0..n /\ k - 1 \notin S
  BY <1>5
<1>7. 0..(k - 1) \in T
  BY <1>6
<1>8. <<0..(k - 1), x>> \in R
  <2>1. 0..(k - 1) \subseteq 0..n /\ x \subseteq 0..n /\ 0..(k - 1) \subseteq x
    BY <1>5, <1>6
  <2>2. k \in x /\ k \notin 0..(k - 1)
    BY <1>5, <1>6
  <2> QED BY <2>1, <2>2 DEF StrictSubsetOrdering
<1> QED BY <1>4, <1>7, <1>8

\* The defining equation of Taken.
Sums(z, f) == f[0] = 0 /\ \A k \in 1..Len(z) : f[k] = f[k - 1] + z[k]

\* There is a function of that kind, up to any length.
LEMMA SumsExist ==
    ASSUME NEW z \in Seq(Nat)
    PROVE  \E f \in [0..Len(z) -> Nat] : Sums(z, f)
<1> DEFINE Good(n) == \E f \in [0..n -> Nat] :
                          f[0] = 0 /\ \A k \in 1..n : f[k] = f[k - 1] + z[k]
           S == {n \in Nat : n <= Len(z) => Good(n)}
<1>0. Len(z) \in Nat /\ \A k \in 1..Len(z) : z[k] \in Nat
  OBVIOUS
<1>1. Good(0)
  <2>1. [i \in 0..0 |-> 0] \in [0..0 -> Nat] /\ [i \in 0..0 |-> 0][0] = 0 /\ 1..0 = {}
    OBVIOUS
  <2> QED BY <2>1
<1>2. ASSUME NEW n \in Nat, n + 1 <= Len(z), Good(n) PROVE Good(n + 1)
  <2>1. PICK f \in [0..n -> Nat] : f[0] = 0 /\ \A k \in 1..n : f[k] = f[k - 1] + z[k]
    BY <1>2
  <2> DEFINE g == [i \in 0..(n + 1) |-> IF i <= n THEN f[i] ELSE f[n] + z[n + 1]]
  <2>2. n + 1 \in 1..Len(z) /\ z[n + 1] \in Nat /\ f[n] \in Nat
    BY <1>0, <1>2
  <2>3. g \in [0..(n + 1) -> Nat]
    BY <2>2
  <2>4. ASSUME NEW k \in 1..(n + 1) PROVE g[k] = g[k - 1] + z[k]
    <3>1. CASE k <= n
      BY <3>1, <2>1
    <3>2. CASE k = n + 1
      BY <3>2
    <3> QED BY <3>1, <3>2
  <2>5. g[0] = 0
    BY <2>1
  <2> HIDE DEF g
  <2> QED BY <2>3, <2>4, <2>5
<1> HIDE DEF Good
<1>3. 0 \in S /\ \A n \in Nat : n \in S => n + 1 \in S
  BY <1>0, <1>1, <1>2
<1> HIDE DEF S
<1>4. Nat \subseteq S
  BY <1>3, NatSetInduction
<1>5. Good(Len(z))
  BY <1>0, <1>4 DEF S
<1> QED BY <1>5 DEF Good, Sums

\* Taken is one.
LEMMA TakenFacts ==
    ASSUME NEW z \in Seq(Nat)
    PROVE  Taken(z) \in [0..Len(z) -> Nat] /\ Sums(z, Taken(z))
<1> DEFINE N == Len(z)
           Def(g) == [n \in 0..N |-> IF n = 0 THEN 0 ELSE g[n - 1] + z[n]]
           h == CHOOSE g : g = Def(g)
<1>0. N \in Nat /\ \A k \in 1..N : z[k] \in Nat
  OBVIOUS
<1>1. Taken(z) = h
  BY DEF Taken
<1>2. PICK f \in [0..N -> Nat] : Sums(z, f)
  BY SumsExist
<1>3. f = Def(f)
  BY <1>0, <1>2 DEF Sums
<1> HIDE DEF h
<1>4. h = Def(h)
  <2> HIDE DEF Def
  <2> QED BY <1>3 DEF h
<1>5. h[0] = 0 /\ \A k \in 1..N : h[k] = h[k - 1] + z[k]
  <2>1. \A k \in 0..N : Def(h)[k] = IF k = 0 THEN 0 ELSE h[k - 1] + z[k]
    OBVIOUS
  <2>2. \A k \in 0..N : h[k] = IF k = 0 THEN 0 ELSE h[k - 1] + z[k]
    <3> HIDE DEF Def
    <3> QED BY <1>4, <2>1
  <2> QED BY <1>0, <2>2
<1>6. h \in [0..N -> Nat]
  <2> DEFINE S == {k \in Nat : k \in 0..N => h[k] \in Nat}
  <2>1. 0 \in S
    BY <1>5
  <2>2. ASSUME NEW k \in Nat, k \in S PROVE k + 1 \in S
    <3> SUFFICES ASSUME k + 1 \in 0..N PROVE h[k + 1] \in Nat
      OBVIOUS
    <3>1. h[k] \in Nat /\ k + 1 \in 1..N /\ (k + 1) - 1 = k
      BY <2>2, <1>0
    <3>2. h[k + 1] = h[k] + z[k + 1]
      BY <1>5, <3>1
    <3> QED BY <3>1, <3>2, <1>0
  <2> HIDE DEF S
  <2>3. Nat \subseteq S
    BY <2>1, <2>2, NatSetInduction
  <2>4. \A k \in 0..N : h[k] \in Nat
    BY <2>3, <1>0 DEF S
  <2>5. h = [k \in 0..N |-> h[k]]
    BY <1>4
  <2> QED BY <2>4, <2>5
<1> QED BY <1>1, <1>5, <1>6 DEF Sums

\* One more zone of nothing takes no more rows.
LEMMA TakenAppend ==
    ASSUME NEW z \in Seq(Nat), NEW y, y = Append(z, 0)
    PROVE  Taken(y)[Len(y)] = Taken(z)[Len(z)]
<1> DEFINE N == Len(z)
           f == Taken(z)
           g == Taken(y)
<1>1. /\ N \in Nat /\ y \in Seq(Nat) /\ Len(y) = N + 1 /\ y[N + 1] = 0
      /\ \A k \in 1..N : y[k] = z[k]
  OBVIOUS
<1>2. /\ f \in [0..N -> Nat] /\ f[0] = 0 /\ \A k \in 1..N : f[k] = f[k - 1] + z[k]
  BY TakenFacts DEF Sums
<1>3. /\ g \in [0..(N + 1) -> Nat] /\ g[0] = 0 /\ \A k \in 1..(N + 1) : g[k] = g[k - 1] + y[k]
  BY <1>1, TakenFacts DEF Sums
<1> DEFINE S == {k \in Nat : k <= N => g[k] = f[k]}
<1> HIDE DEF f, g, N
<1>4. 0 \in S
  BY <1>2, <1>3
<1>5. ASSUME NEW k \in Nat, k \in S PROVE k + 1 \in S
  <2> SUFFICES ASSUME k + 1 <= N PROVE g[k + 1] = f[k + 1]
    OBVIOUS
  <2>1. g[k] = f[k] /\ k + 1 \in 1..N /\ k + 1 \in 1..(N + 1) /\ (k + 1) - 1 = k
    BY <1>1, <1>5
  <2>2. g[k + 1] = g[k] + y[k + 1] /\ f[k + 1] = f[k] + z[k + 1] /\ y[k + 1] = z[k + 1]
    BY <1>1, <1>2, <1>3, <2>1
  <2> QED BY <2>1, <2>2
<1> HIDE DEF S
<1>6. Nat \subseteq S
  BY <1>4, <1>5, NatSetInduction
<1>7. g[N] = f[N]
  BY <1>1, <1>6 DEF S
<1>8. g[N + 1] = g[N] + 0 /\ g[N] \in Nat
  BY <1>1, <1>3
<1> QED BY <1>1, <1>7, <1>8 DEF f, g, N

-----------------------------------------------------------------------------
(* The first of some candidates.                                           *)

\* FirstOf picks the first that is not None.
LEMMA FirstFacts ==
    ASSUME NEW c, NEW n \in Nat, DOMAIN c = 1..n
    PROVE  /\ \A i \in 1..n : c[i] # None /\ (\A j \in 1..(i - 1) : c[j] = None) =>
                                FirstOf(c) = c[i]
           /\ (\A i \in 1..n : c[i] = None) => FirstOf(c) = None
<1> DEFINE hits == {i \in 1..n : c[i] # None}
<1>1. FirstOf(c) = IF hits = {} THEN None ELSE c[CHOOSE i \in hits : \A j \in hits : i <= j]
  BY DEF FirstOf
<1>2. ASSUME NEW i \in 1..n, c[i] # None, \A j \in 1..(i - 1) : c[j] = None
      PROVE  FirstOf(c) = c[i]
  <2>1. i \in hits /\ \A j \in hits : i <= j
    BY <1>2
  <2>2. \A k \in hits : (\A j \in hits : k <= j) => k = i
    BY <2>1
  <2>3. (CHOOSE k \in hits : \A j \in hits : k <= j) = i
    <3> HIDE DEF hits
    <3> QED BY <2>1, <2>2
  <2> HIDE DEF hits
  <2> QED BY <1>1, <2>1, <2>3
<1>3. ASSUME \A i \in 1..n : c[i] = None PROVE FirstOf(c) = None
  BY <1>1, <1>3
<1> QED BY <1>2, <1>3

\* ... of two.
LEMMA FirstOf2 == \A a, b : FirstOf(<<a, b>>) = IF a # None THEN a ELSE b
<1> SUFFICES ASSUME NEW a, NEW b PROVE FirstOf(<<a, b>>) = IF a # None THEN a ELSE b
  OBVIOUS
<1> DEFINE c == <<a, b>>
<1>1. DOMAIN c = 1..2 /\ c[1] = a /\ c[2] = b
  OBVIOUS
<1> HIDE DEF c
<1>2. /\ \A i \in 1..2 : c[i] # None /\ (\A j \in 1..(i - 1) : c[j] = None) => FirstOf(c) = c[i]
      /\ (\A i \in 1..2 : c[i] = None) => FirstOf(c) = None
  BY ONLY <1>1, FirstFacts, Zenon
<1>3. FirstOf(c) = IF c[1] # None THEN c[1] ELSE c[2]
  BY <1>2
<1> QED BY <1>1, <1>3 DEF c

\* ... of three.
LEMMA FirstOf3 ==
    \A a, b, c : FirstOf(<<a, b, c>>) = IF a # None THEN a ELSE IF b # None THEN b ELSE c
<1> SUFFICES ASSUME NEW a, NEW b, NEW c
             PROVE  FirstOf(<<a, b, c>>) = IF a # None THEN a ELSE IF b # None THEN b ELSE c
  OBVIOUS
<1> DEFINE t == <<a, b, c>>
<1>1. DOMAIN t = 1..3 /\ t[1] = a /\ t[2] = b /\ t[3] = c
  OBVIOUS
<1> HIDE DEF t
<1>2. /\ \A i \in 1..3 : t[i] # None /\ (\A j \in 1..(i - 1) : t[j] = None) => FirstOf(t) = t[i]
      /\ (\A i \in 1..3 : t[i] = None) => FirstOf(t) = None
  BY ONLY <1>1, FirstFacts, Zenon
<1>3. FirstOf(t) = IF t[1] # None THEN t[1] ELSE IF t[2] # None THEN t[2] ELSE t[3]
  BY <1>2
<1> QED BY <1>1, <1>3 DEF t

\* ... of four.
LEMMA FirstOf4 ==
    \A a, b, c, d : FirstOf(<<a, b, c, d>>) =
        IF a # None THEN a ELSE IF b # None THEN b ELSE
        IF c # None THEN c ELSE d
<1> SUFFICES ASSUME NEW a, NEW b, NEW c, NEW d
             PROVE  FirstOf(<<a, b, c, d>>) =
                        IF a # None THEN a ELSE IF b # None THEN b ELSE
                        IF c # None THEN c ELSE d
  OBVIOUS
<1> DEFINE t == <<a, b, c, d>>
<1>1. DOMAIN t = 1..4 /\ t[1] = a /\ t[2] = b /\ t[3] = c /\ t[4] = d
  OBVIOUS
<1> HIDE DEF t
<1>2. /\ \A i \in 1..4 : t[i] # None /\ (\A j \in 1..(i - 1) : t[j] = None) => FirstOf(t) = t[i]
      /\ (\A i \in 1..4 : t[i] = None) => FirstOf(t) = None
  BY ONLY <1>1, FirstFacts, Zenon
<1>3. FirstOf(t) = IF t[1] # None THEN t[1] ELSE IF t[2] # None THEN t[2] ELSE
                   IF t[3] # None THEN t[3] ELSE t[4]
  BY <1>2
<1> QED BY <1>1, <1>3 DEF t

\* ... of five.
LEMMA FirstOf5 ==
    \A a, b, c, d, e : FirstOf(<<a, b, c, d, e>>) =
        IF a # None THEN a ELSE IF b # None THEN b ELSE
        IF c # None THEN c ELSE IF d # None THEN d ELSE e
<1> SUFFICES ASSUME NEW a, NEW b, NEW c, NEW d, NEW e
             PROVE  FirstOf(<<a, b, c, d, e>>) =
                        IF a # None THEN a ELSE IF b # None THEN b ELSE
                        IF c # None THEN c ELSE IF d # None THEN d ELSE e
  OBVIOUS
<1> DEFINE t == <<a, b, c, d, e>>
<1>1. DOMAIN t = 1..5 /\ t[1] = a /\ t[2] = b /\ t[3] = c /\ t[4] = d /\ t[5] = e
  OBVIOUS
<1> HIDE DEF t
<1>2. /\ \A i \in 1..5 : t[i] # None /\ (\A j \in 1..(i - 1) : t[j] = None) => FirstOf(t) = t[i]
      /\ (\A i \in 1..5 : t[i] = None) => FirstOf(t) = None
  BY ONLY <1>1, FirstFacts, Zenon
<1>3. FirstOf(t) = IF t[1] # None THEN t[1] ELSE IF t[2] # None THEN t[2] ELSE
                   IF t[3] # None THEN t[3] ELSE IF t[4] # None THEN t[4] ELSE t[5]
  BY <1>2
<1> QED BY <1>1, <1>3 DEF t

-----------------------------------------------------------------------------
(* The invariant.                                                          *)

\* A hut is in the stack of a display that has a slot, and has a window only
\* while it is in one; each display shows an entry of its own stack; both panes
\* of the tile are in one stack; an unplugged last display is the only one.
HomesInv ==
    /\ \A h \in Huts : home[h] \in live \cup {None}
    /\ \A h \in window : home[h] # None
    /\ dark => \E d \in Displays : live = {d}
    /\ \A d \in live : front[d] # "tile" => home[front[d]] = d
    /\ \A d \in live : front[d] = "tile" => tile # << >> /\ home[tile[1]] = d
    /\ tile # << >> => home[tile[1]] # None /\ home[tile[2]] = home[tile[1]]

\* A layer surface is in one LayerMap at most, and in none before it is created.
LayersInv ==
    /\ \A d, e \in Displays : d # e => ToSet(mapped[d]) \cap ToSet(mapped[e]) = {}
    /\ \A l \in Layers : layer[l] = Unborn => \A d \in Displays : l \notin ToSet(mapped[d])

\* A window a space has mapped is there, and its hut does not show its terminal.
AtInv == \A h \in Huts : at[h] # None => h \in window /\ ~terminal[h]

IInv == TypeOK /\ HomesInv /\ LayersInv /\ AtInv /\ WindowsFit

-----------------------------------------------------------------------------
(* Leaves and origins.                                                     *)

\* The types, by what a step tends to change together.
StackTypes ==
    /\ live \subseteq Displays /\ focus \in live /\ dark \in BOOLEAN
    /\ home \in [Huts -> Displays \cup {None}]
    /\ front \in [Displays -> Entries]
    /\ tile \in {<< >>} \cup (Huts \X Huts) /\ pane \in Columns
WindowTypes ==
    /\ window \subseteq Huts /\ replaced \subseteq Huts
    /\ terminal \in [Huts -> BOOLEAN] /\ size \in [Huts -> Nat]
AtType    == at \in [Huts -> Nat \cup {None}]
LayerTypes ==
    /\ mapped \in [Displays -> Seq(Layers)]
    /\ layer \in [Layers -> [step : {"unborn", "mapped", "configured", "drawn", "dead"},
                             zone : Nat, keys : {"none", "demand", "exclusive"}]]
SeatTypes == row \in Nat /\ revealed \in BOOLEAN
KeyType   == keyboard \in Huts \cup Layers \cup {None}

\* They are all of TypeOK.
LEMMA TypeParts ==
    TypeOK <=> StackTypes /\ WindowTypes /\ AtType /\ LayerTypes /\ SeatTypes /\ KeyType
BY DEF TypeOK, StackTypes, WindowTypes, AtType, LayerTypes, SeatTypes, KeyType

\* The leaf of an entry a display shows is a hut.
LEMMA Leaves ==
    StackTypes /\ HomesInv => \A d \in live : Leaf(d) \in Huts /\ (~Tiled(d) => Leaf(d) = front[d])
<1> SUFFICES ASSUME StackTypes, HomesInv, NEW d \in live
             PROVE  Leaf(d) \in Huts /\ (~Tiled(d) => Leaf(d) = front[d])
  OBVIOUS
<1>1. front[d] \in Huts \cup {"tile"} /\ d \in Displays
  BY DEF StackTypes, Entries
<1>2. CASE front[d] = "tile"
  <2>1. tile \in Huts \X Huts
    BY <1>2 DEF StackTypes, HomesInv
  <2>2. tile[pane] \in Huts
    BY <2>1 DEF StackTypes, Columns
  <2> QED BY <1>2, <2>2 DEF Leaf, LeafOf, Tiled
<1>3. CASE front[d] # "tile"
  BY <1>1, <1>3 DEF Leaf, LeafOf, Tiled
<1> QED BY <1>2, <1>3

\* ... where everything has its type.
LEMMA LeafFacts ==
    ASSUME TypeOK, HomesInv, NEW d \in live
    PROVE  Leaf(d) \in Huts /\ (~Tiled(d) => Leaf(d) = front[d])
BY TypeParts, Leaves

\* The zones of a display's surfaces, and the room they reserve.
RoomFacts ==
    \A d \in Displays :
        /\ Zones(d) \in Seq(Nat) /\ Len(Zones(d)) = Len(mapped[d])
        /\ Origin(d) = Taken(Zones(d))[Len(mapped[d])]
        /\ Origin(d) \in Nat /\ Usable(d) \in Nat

\* They follow from the types.
LEMMA Rooms == LayerTypes => RoomFacts
<1> SUFFICES ASSUME LayerTypes, NEW d \in Displays
             PROVE  /\ Zones(d) \in Seq(Nat) /\ Len(Zones(d)) = Len(mapped[d])
                    /\ Origin(d) = Taken(Zones(d))[Len(mapped[d])]
                    /\ Origin(d) \in Nat /\ Usable(d) \in Nat
  BY DEF RoomFacts
<1>1. mapped[d] \in Seq(Layers) /\ Len(mapped[d]) \in Nat
  BY DEF LayerTypes
<1>2. \A i \in DOMAIN mapped[d] : layer[mapped[d][i]].zone \in Nat
  <2> SUFFICES ASSUME NEW i \in DOMAIN mapped[d] PROVE layer[mapped[d][i]].zone \in Nat
    OBVIOUS
  <2>1. mapped[d][i] \in Layers
    BY <1>1
  <2> QED BY <2>1 DEF LayerTypes
<1>3. Zones(d) \in Seq(Nat) /\ Len(Zones(d)) = Len(mapped[d])
  <2>1. DOMAIN mapped[d] = 1..Len(mapped[d])
    BY <1>1
  <2> DEFINE z == [i \in 1..Len(mapped[d]) |-> layer[mapped[d][i]].zone]
  <2>2. z \in Seq(Nat) /\ Len(z) = Len(mapped[d])
    BY <1>1, <1>2, <2>1
  <2> QED BY <2>1, <2>2 DEF Zones
<1>4. Origin(d) = Taken(Zones(d))[Len(mapped[d])]
  BY <1>1 DEF Origin, Above
<1>5. Origin(d) \in Nat
  BY <1>1, <1>3, <1>4, TakenFacts
<1>6. RowsOf[d] \in Nat
  BY RowsAssumption
<1> QED BY <1>3, <1>4, <1>5, <1>6 DEF Usable

\* ... and after a step.
LEMMA RoomsAfter == LayerTypes' => RoomFacts'
BY Rooms, PTL

\* A display whose surfaces and their zones stay keeps its room.
LEMMA SameRoom ==
    ASSUME LayerTypes, NEW d \in Displays, mapped'[d] = mapped[d],
           \A l \in ToSet(mapped[d]) : layer'[l].zone = layer[l].zone
    PROVE  Usable(d)' = Usable(d) /\ Origin(d)' = Origin(d)
<1>1. \A i \in DOMAIN mapped[d] : mapped[d][i] \in ToSet(mapped[d])
  BY DEF ToSet
<1>2. Zones(d)' = Zones(d)
  <2>1. [i \in DOMAIN mapped[d] |-> layer'[mapped[d][i]].zone]
          = [i \in DOMAIN mapped[d] |-> layer[mapped[d][i]].zone]
    BY <1>1
  <2> QED BY <2>1 DEF Zones
<1>3. Origin(d)' = Origin(d)
  BY <1>2 DEF Origin, Above
<1> QED BY <1>3 DEF Usable

-----------------------------------------------------------------------------
(* What is drawn is what is pressed and what hears of the pointer.         *)

\* No answer that names a hut is taken for no answer.
LEMMA AnswersAreNotNone ==
    ASSUME NEW h \in Huts
    PROVE  /\ <<"terminal", h>> # None /\ <<"window", h>> # None /\ <<"strip", h>> # None
           /\ h # None
BY NoneAssumption

\* Outside a tile the content is that of the hut in front.
LEMMA ContentOfLeaf ==
    ASSUME TypeOK, HomesInv, NEW d \in live, ~Tiled(d), NEW x, NEW y
    PROVE  Content(d, x, y) = IF ResolvesTerminal(Leaf(d))
                              THEN IF y >= Origin(d) THEN <<"terminal", Leaf(d)>> ELSE None
                              ELSE IF InSpace(Leaf(d), y) THEN <<"window", Leaf(d)>> ELSE None
<1> DEFINE p == Panes(front[d])
           hits == {i \in DOMAIN p : PieceAt(d, i, x, y) # None}
<1>1. p = <<Leaf(d)>> /\ DOMAIN p = {1} /\ p[1] = Leaf(d)
  <2>1. p = <<Leaf(d)>>
    BY LeafFacts DEF Panes, Tiled
  <2> QED BY <2>1
<1>2. PieceAt(d, 1, x, y) = IF ResolvesTerminal(Leaf(d))
                            THEN IF y >= Origin(d) THEN <<"terminal", Leaf(d)>> ELSE None
                            ELSE IF InSpace(Leaf(d), y) THEN <<"window", Leaf(d)>> ELSE None
  BY <1>1 DEF PieceAt, TextureAt
<1>3. Content(d, x, y) = IF hits = {} THEN None
                         ELSE PieceAt(d, CHOOSE i \in hits : \A j \in hits : i <= j, x, y)
  BY DEF Content
<1> HIDE DEF p
<1>4. CASE PieceAt(d, 1, x, y) = None
  <2>1. hits = {}
    BY <1>1, <1>4
  <2> HIDE DEF hits
  <2> QED BY <1>2, <1>3, <1>4, <2>1
<1>5. CASE PieceAt(d, 1, x, y) # None
  <2>1. hits = {1}
    BY <1>1, <1>5
  <2> HIDE DEF hits
  <2>2. (CHOOSE i \in hits : \A j \in hits : i <= j) = 1
    BY <2>1
  <2> QED BY <1>2, <1>3, <2>1, <2>2
<1> QED BY <1>4, <1>5

Chrome(x, y) == Strip(focus, x, y)
Upper(y)     == AsLayer(LayerUnder(focus, y, TRUE))
Lower(y)     == AsLayer(LayerUnder(focus, y, FALSE))

\* Drawn, Receiver and SurfaceUnder as nested choices.
LEMMA ThreeOrders ==
    ASSUME TypeOK, HomesInv, ~Tiled(focus), NEW x, NEW y
    PROVE  /\ Drawn(focus, x, y) =
                IF Chrome(x, y) # None THEN Chrome(x, y) ELSE IF Upper(y) # None THEN Upper(y)
                ELSE IF Content(focus, x, y) # None THEN Content(focus, x, y) ELSE Lower(y)
           /\ Receiver(x, y) =
                IF Chrome(x, y) # None THEN Chrome(x, y) ELSE IF Upper(y) # None THEN Upper(y)
                ELSE IF TerminalEffective(focus) THEN <<"terminal", Focused>>
                ELSE IF InSpace(Focused, y) THEN <<"window", Focused>> ELSE Lower(y)
           /\ SurfaceUnder(y) =
                IF Upper(y) # None THEN Upper(y)
                ELSE IF InSpace(Focused, y) THEN <<"window", Focused>> ELSE Lower(y)
<1> DEFINE T == IF TerminalEffective(focus) THEN <<"terminal", Focused>> ELSE None
           W == IF InSpace(Focused, y) THEN <<"window", Focused>> ELSE None
<1>1. <<"terminal", Focused>> # None /\ <<"window", Focused>> # None
  <2>1. Focused \in Huts
    BY LeafFacts DEF TypeOK, Focused
  <2> QED BY <2>1, AnswersAreNotNone
<1>2. Drawn(focus, x, y) = FirstOf(<<Chrome(x, y), Upper(y), Content(focus, x, y), Lower(y)>>)
  BY Zenon DEF Drawn, Chrome, Upper, Lower
<1>3. ChromeOrAbove(x, y) = FirstOf(<<Chrome(x, y), Upper(y)>>)
  BY Zenon DEF ChromeOrAbove, Chrome, Upper
<1>4. Receiver(x, y) = FirstOf(<<None, ChromeOrAbove(x, y), T, W, Lower(y)>>)
  <2>1. ~OnPane(y)
    BY DEF OnPane
  <2>2. (IF OnPane(y) THEN <<"pane", tile[x]>> ELSE None) = None
    BY <2>1
  <2> QED BY <2>2, Zenon DEF Receiver, Lower
<1>5. SurfaceUnder(y) = FirstOf(<<Upper(y), W, Lower(y)>>)
  BY Zenon DEF SurfaceUnder, Upper, Lower
<1>6. ChromeOrAbove(x, y) = IF Chrome(x, y) # None THEN Chrome(x, y) ELSE Upper(y)
  BY <1>3, FirstOf2, Zenon
<1>7. Drawn(focus, x, y) =
         IF Chrome(x, y) # None THEN Chrome(x, y) ELSE IF Upper(y) # None THEN Upper(y)
         ELSE IF Content(focus, x, y) # None THEN Content(focus, x, y) ELSE Lower(y)
  BY <1>2, FirstOf4
<1> HIDE DEF T, W
<1>8. Receiver(x, y) = IF ChromeOrAbove(x, y) # None THEN ChromeOrAbove(x, y)
                       ELSE IF T # None THEN T ELSE IF W # None THEN W ELSE Lower(y)
  <2>1. Receiver(x, y) = IF None # None THEN None
                         ELSE IF ChromeOrAbove(x, y) # None THEN ChromeOrAbove(x, y)
                         ELSE IF T # None THEN T ELSE IF W # None THEN W ELSE Lower(y)
    BY <1>4, FirstOf5
  <2> QED BY <2>1
<1>9. SurfaceUnder(y) = IF Upper(y) # None THEN Upper(y) ELSE IF W # None THEN W ELSE Lower(y)
  BY <1>5, FirstOf3
<1> QED BY <1>1, <1>6, <1>7, <1>8, <1>9 DEF T, W

\* PressIsDrawn needs the types only.
LEMMA PressOrder == TypeOK /\ HomesInv => PressIsDrawn
<1> SUFFICES ASSUME TypeOK, HomesInv, ~Tiled(focus), NEW x \in Columns, NEW y \in Rows(focus)
             PROVE  \/ Receiver(x, y) = Drawn(focus, x, y)
                    \/ /\ Receiver(x, y) = <<"terminal", Focused>>
                       /\ \/ Drawn(focus, x, y) = None
                          \/ Drawn(focus, x, y) = AsLayer(LayerUnder(focus, y, FALSE))
  BY Zenon DEF PressIsDrawn
<1> DEFINE h == Focused
           strip == Chrome(x, y)
           upper == Upper(y)
           lower == Lower(y)
           content == Content(focus, x, y)
<1>0. focus \in live /\ h \in Huts
  BY LeafFacts DEF TypeOK, Focused
<1>1. <<"terminal", h>> # None /\ <<"window", h>> # None
  BY <1>0, AnswersAreNotNone
<1>2. content = IF ResolvesTerminal(h) THEN IF y >= Origin(focus) THEN <<"terminal", h>> ELSE None
                ELSE IF InSpace(h, y) THEN <<"window", h>> ELSE None
  BY <1>0, ContentOfLeaf DEF Focused
<1>3. TerminalEffective(focus) <=> ResolvesTerminal(h)
  BY DEF TerminalEffective, ResolvesTerminal, Focused
<1>4. /\ Drawn(focus, x, y) = IF strip # None THEN strip ELSE IF upper # None THEN upper
                              ELSE IF content # None THEN content ELSE lower
      /\ Receiver(x, y) = IF strip # None THEN strip ELSE IF upper # None THEN upper
                          ELSE IF TerminalEffective(focus) THEN <<"terminal", h>>
                          ELSE IF InSpace(h, y) THEN <<"window", h>> ELSE lower
  BY ThreeOrders, Zenon
<1> HIDE DEF h, strip, upper, lower, content
<1>5. Receiver(x, y) = Drawn(focus, x, y) \/ (Receiver(x, y) = <<"terminal", h>> /\ Drawn(focus, x, y) = lower)
  BY <1>1, <1>2, <1>3, <1>4
<1> QED BY <1>5, Zenon DEF h, lower, Lower

\* DrawnIsHit also needs that a space maps no window behind a terminal.
LEMMA HoverOrder == TypeOK /\ HomesInv /\ AtInv => DrawnIsHit
<1> SUFFICES ASSUME TypeOK, HomesInv, AtInv, ~Tiled(focus), NEW x \in Columns, NEW y \in Rows(focus),
                    Drawn(focus, x, y) # None, Drawn(focus, x, y)[1] \in {"layer", "window"}
             PROVE  SurfaceUnder(y) = Drawn(focus, x, y)
  BY Zenon DEF DrawnIsHit
<1> DEFINE h == Focused
           strip == Chrome(x, y)
           upper == Upper(y)
           lower == Lower(y)
           content == Content(focus, x, y)
<1>0. focus \in live /\ h \in Huts
  BY LeafFacts DEF TypeOK, Focused
<1>1. content = IF ResolvesTerminal(h) THEN IF y >= Origin(focus) THEN <<"terminal", h>> ELSE None
                ELSE IF InSpace(h, y) THEN <<"window", h>> ELSE None
  BY <1>0, ContentOfLeaf DEF Focused
<1>2. ResolvesTerminal(h) => ~InSpace(h, y)
  BY <1>0 DEF AtInv, ResolvesTerminal, InSpace
<1>3. /\ Drawn(focus, x, y) = IF strip # None THEN strip ELSE IF upper # None THEN upper
                              ELSE IF content # None THEN content ELSE lower
      /\ SurfaceUnder(y) = IF upper # None THEN upper
                           ELSE IF InSpace(h, y) THEN <<"window", h>> ELSE lower
  BY ThreeOrders, Zenon
<1>4. strip = None \/ strip[1] = "strip"
  BY DEF Strip, Chrome
<1>5. <<"terminal", h>>[1] = "terminal" /\ <<"window", h>> # None
  BY <1>0, AnswersAreNotNone
<1> HIDE DEF h, strip, upper, lower, content
<1>6. strip = None
  BY <1>3, <1>4
<1>7. CASE upper # None
  BY <1>3, <1>6, <1>7
<1>8. CASE upper = None
  <2>1. CASE ResolvesTerminal(h)
    <3>1. content # <<"terminal", h>> \/ content = None
      BY <1>3, <1>5, <1>6, <1>8
    <3>2. content = None
      BY <1>1, <2>1, <3>1
    <3> QED BY <1>2, <1>3, <1>6, <1>8, <2>1, <3>2
  <2>2. CASE ~ResolvesTerminal(h)
    BY <1>1, <1>3, <1>5, <1>6, <1>8, <2>2
  <2> QED BY <2>1, <2>2
<1> QED BY <1>7, <1>8

-----------------------------------------------------------------------------
(* A strip is revealed on the display of the pointer.                      *)

StripStep == OtherOutput /\ revealed' => row' <= EdgeRow /\ MonitorsUnchanged

\* Only three steps give the focus to another Output: the pointer's motion to
\* another display, where the reveal starts afresh at the edge, and two of the
\* monitors', which end it wherever the pointer is.
LEMMA StripSteps == Next => StripStep
<1> USE DEF StripStep, OtherOutput, MonitorsUnchanged
<1>1. ASSUME LayerClients PROVE ~OtherOutput
  BY <1>1 DEF LayerClients, NewLayerSurface, LayerCommit, LayerDestroyed, stackVars
<1>2. ASSUME WindowClients PROVE ~OtherOutput
  BY <1>2 DEF WindowClients, NewToplevel, ToplevelDestroyed, stackVars
<1>3. ASSUME NEW d \in Displays, NEW y \in Rows(d), Motion(d, y) PROVE StripStep
  BY <1>3 DEF Motion, RevealAfter, Reveal, Leftover
<1>4. ASSUME NEW x \in Columns, PressPane(x) \/ PressElsewhere(x) \/ \E t \in BOOLEAN : PressTab(x, t)
      PROVE  ~OtherOutput
  BY <1>4 DEF PressPane, PressElsewhere, PressTab, stackVars, Leftover
<1>5. ASSUME Keys PROVE ~OtherOutput
  BY <1>5 DEF Keys, ExclusiveKey, ToggleTerminal, Switch, SpawnNext, WrapTile, stackVars, Leftover
<1>6. ASSUME Monitors PROVE StripStep
  <2>1. ASSUME UnplugLast PROVE ~OtherOutput
    BY <2>1 DEF UnplugLast
  <2>2. ASSUME NEW d \in Displays, PlugInstead(d) PROVE ~revealed'
    BY <2>2 DEF PlugInstead, RevealAfter
  <2>3. ASSUME NEW d \in Displays, UnplugOne(d) PROVE StripStep
    BY <2>3 DEF UnplugOne, RevealAfter
  <2>4. ASSUME NEW d \in Displays, NEW h \in Huts, PlugAnother(d, h) PROVE ~OtherOutput
    BY <2>4 DEF PlugAnother
  <2> QED BY <1>6, <2>1, <2>2, <2>3, <2>4 DEF Monitors
<1> QED BY <1>1, <1>2, <1>3, <1>4, <1>5, <1>6 DEF Next, Pointer

\* Spec satisfies StripStaysHome.
THEOREM StripsStayHome == Spec => StripStaysHome
<1>1. ASSUME [Next]_vars PROVE [StripStep]_vars
  BY <1>1, StripSteps
<1>2. Spec => [][StripStep]_vars
  BY <1>1, PTL DEF Spec
<1> QED BY <1>2, Zenon DEF StripStaysHome, StripStep

-----------------------------------------------------------------------------
(* Layer surfaces: each is in one LayerMap, from its creation to its end.  *)

\* RemoveAt drops one position and keeps the others in order.
LEMMA RemoveAtFacts ==
    ASSUME NEW S, NEW s \in Seq(S), NEW i \in DOMAIN s
    PROVE  /\ RemoveAt(s, i) \in Seq(S)
           /\ Len(RemoveAt(s, i)) = Len(s) - 1
           /\ \A j \in 1..(Len(s) - 1) :
                RemoveAt(s, i)[j] = IF j < i THEN s[j] ELSE s[j + 1]
<1> DEFINE left  == SubSeq(s, 1, i - 1)
           right == SubSeq(s, i + 1, Len(s))
<1>0. i \in 1..Len(s)
  OBVIOUS
<1>1. /\ left \in Seq(S)
      /\ Len(left) = i - 1
      /\ \A j \in 1..(i - 1) : left[j] = s[j]
  OBVIOUS
<1>2. /\ right \in Seq(S)
      /\ Len(right) = Len(s) - i
      /\ \A j \in 1..(Len(s) - i) : right[j] = s[i + j]
  OBVIOUS
<1>3. RemoveAt(s, i) = left \o right
  BY DEF RemoveAt
<1> HIDE DEF left, right
<1>4. /\ left \o right \in Seq(S)
      /\ Len(left \o right) = Len(s) - 1
  BY <1>1, <1>2
<1>5. ASSUME NEW j \in 1..(Len(s) - 1)
      PROVE  (left \o right)[j] = IF j < i THEN s[j] ELSE s[j + 1]
  <2>1. CASE j < i
    BY <2>1, <1>1, <1>2
  <2>2. CASE ~(j < i)
    BY <2>2, <1>0, <1>1, <1>2
  <2> QED BY <2>1, <2>2
<1> QED BY <1>3, <1>4, <1>5

\* RemoveAt takes its members from the sequence.
LEMMA RemoveAtMembers ==
    ASSUME NEW S, NEW s \in Seq(S), NEW i \in DOMAIN s
    PROVE  RemoveAt(s, i) \in Seq(S) /\ ToSet(RemoveAt(s, i)) \subseteq ToSet(s)
<1> DEFINE r == RemoveAt(s, i)
<1>1. /\ r \in Seq(S) /\ Len(r) = Len(s) - 1
      /\ \A j \in 1..(Len(s) - 1) : r[j] = IF j < i THEN s[j] ELSE s[j + 1]
  BY RemoveAtFacts
<1>2. Len(s) \in Nat /\ DOMAIN s = 1..Len(s)
  OBVIOUS
<1> HIDE DEF r
<1>3. DOMAIN r = 1..(Len(s) - 1)
  BY <1>1
<1>4. ASSUME NEW j \in 1..(Len(s) - 1) PROVE \E k \in DOMAIN s : r[j] = s[k]
  <2>1. j \in DOMAIN s /\ j + 1 \in DOMAIN s
    BY <1>2
  <2>2. r[j] = s[j] \/ r[j] = s[j + 1]
    BY <1>1
  <2> QED BY <2>1, <2>2
<1>5. ToSet(r) \subseteq ToSet(s)
  BY <1>3, <1>4 DEF ToSet
<1> QED BY <1>1, <1>5 DEF r

\* The steps that touch the layer surfaces.
LEMMA LayerSteps ==
    Next => \/ UNCHANGED layerVars
            \/ \E l \in Layers, d \in Displays :
                  \/ NewLayerSurface(l, d) \/ LayerDestroyed(l, d)
                  \/ \E z \in ZonesOf[l], k \in KeysOf[l] : LayerCommit(l, d, z, k)
            \/ \E d \in Displays : PlugInstead(d) \/ UnplugOne(d)
<1>1. ASSUME WindowClients PROVE UNCHANGED layerVars
  BY <1>1 DEF WindowClients, NewToplevel, ToplevelDestroyed, layerVars
<1>2. ASSUME Pointer PROVE UNCHANGED layerVars
  <2>1. ASSUME NEW d \in Displays, NEW y \in Rows(d), Motion(d, y) PROVE UNCHANGED layerVars
    BY <2>1 DEF Motion, Leftover, layerVars
  <2>2. ASSUME NEW x \in Columns, PressPane(x) \/ PressElsewhere(x) \/ \E t \in BOOLEAN : PressTab(x, t)
        PROVE  UNCHANGED layerVars
    BY <2>2 DEF PressPane, PressElsewhere, PressTab, Leftover, layerVars
  <2> QED BY <1>2, <2>1, <2>2 DEF Pointer
<1>3. ASSUME Keys PROVE UNCHANGED layerVars
  BY <1>3 DEF Keys, ExclusiveKey, ToggleTerminal, Switch, SpawnNext, WrapTile, Leftover, layerVars
<1>4. ASSUME UnplugLast \/ \E d \in Displays, h \in Huts : PlugAnother(d, h)
      PROVE  UNCHANGED layerVars
  BY <1>4 DEF UnplugLast, PlugAnother, layerVars
<1> QED BY <1>1, <1>2, <1>3, <1>4 DEF Next, LayerClients, Monitors

\* What a step does to the LayerMaps and to the surfaces: it appends one that is
\* not yet created, commits or removes one, or empties the map of a display.
LEMMA LayersKept == StackTypes /\ LayerTypes /\ LayersInv /\ Next => LayerTypes' /\ LayersInv'
<1> SUFFICES ASSUME StackTypes, LayerTypes, LayersInv, Next PROVE LayerTypes' /\ LayersInv'
  OBVIOUS
<1>0. /\ mapped \in [Displays -> Seq(Layers)]
      /\ layer \in [Layers -> [step : {"unborn", "mapped", "configured", "drawn", "dead"},
                               zone : Nat, keys : {"none", "demand", "exclusive"}]]
  BY DEF LayerTypes
<1>a. /\ \A d, e \in Displays : d # e => ToSet(mapped[d]) \cap ToSet(mapped[e]) = {}
      /\ \A l \in Layers : layer[l] = Unborn => \A d \in Displays : l \notin ToSet(mapped[d])
  BY DEF LayersInv
<1>1. ASSUME UNCHANGED layerVars PROVE LayerTypes' /\ LayersInv'
  BY <1>1, <1>0, <1>a DEF LayerTypes, LayersInv, layerVars
<1>2. ASSUME NEW l \in Layers, NEW d \in Displays, NewLayerSurface(l, d)
      PROVE  LayerTypes' /\ LayersInv'
  <2>1. /\ layer[l] = Unborn /\ layer' = [layer EXCEPT ![l].step = "mapped"]
        /\ mapped' = [mapped EXCEPT ![d] = Append(mapped[d], l)]
    BY <1>2 DEF NewLayerSurface
  <2>2. LayerTypes'
    <3>1. mapped' \in [Displays -> Seq(Layers)]
      <4>1. Append(mapped[d], l) \in Seq(Layers)
        BY <1>0
      <4> QED BY <1>0, <2>1, <4>1
    <3>2. layer' \in [Layers -> [step : {"unborn", "mapped", "configured", "drawn", "dead"},
                                 zone : Nat, keys : {"none", "demand", "exclusive"}]]
      BY <1>0, <2>1
    <3> QED BY <3>1, <3>2 DEF LayerTypes
  <2>3. ToSet(mapped'[d]) = ToSet(mapped[d]) \cup {l}
    <3>1. mapped'[d] = Append(mapped[d], l) /\ mapped[d] \in Seq(Layers)
      BY <1>0, <2>1
    <3> QED BY <3>1 DEF ToSet
  <2>4. \A e \in Displays : e # d => mapped'[e] = mapped[e]
    BY <1>0, <2>1
  <2>5. \A e \in Displays : l \notin ToSet(mapped[e])
    BY <1>a, <2>1
  <2>6. ASSUME NEW d1 \in Displays, NEW d2 \in Displays, d1 # d2
        PROVE  ToSet(mapped'[d1]) \cap ToSet(mapped'[d2]) = {}
    BY <1>a, <2>3, <2>4, <2>5, <2>6
  <2>7. ASSUME NEW k \in Layers, layer'[k] = Unborn, NEW e \in Displays
        PROVE  k \notin ToSet(mapped'[e])
    <3>1. k # l /\ layer[k] = Unborn
      <4>1. layer'[l].step = "mapped"
        BY <1>0, <2>1
      <4> QED BY <1>0, <2>1, <2>7, <4>1 DEF Unborn
    <3> QED BY <1>a, <2>3, <2>4, <3>1
  <2> QED BY <2>2, <2>6, <2>7 DEF LayersInv
<1>3. ASSUME NEW l \in Layers, NEW d \in Displays, LayerDestroyed(l, d)
      PROVE  LayerTypes' /\ LayersInv'
  <2>1. /\ l \in ToSet(mapped[d]) /\ layer' = [layer EXCEPT ![l] = Dead]
        /\ mapped' = [mapped EXCEPT ![d] = RemoveAt(mapped[d], PlaceOf(l, d))]
    BY <1>3 DEF LayerDestroyed
  <2>2. PlaceOf(l, d) \in DOMAIN mapped[d]
    <3>1. \E i \in DOMAIN mapped[d] : mapped[d][i] = l
      BY <2>1 DEF ToSet
    <3> QED BY <3>1 DEF PlaceOf
  <2>3. /\ RemoveAt(mapped[d], PlaceOf(l, d)) \in Seq(Layers)
        /\ ToSet(RemoveAt(mapped[d], PlaceOf(l, d))) \subseteq ToSet(mapped[d])
    <3>1. mapped[d] \in Seq(Layers)
      BY <1>0
    <3> QED BY <3>1, <2>2, RemoveAtMembers, Zenon
  <2>4. LayerTypes'
    BY <1>0, <2>1, <2>3 DEF LayerTypes, Dead
  <2>5. \A e \in Displays : ToSet(mapped'[e]) \subseteq ToSet(mapped[e])
    BY <1>0, <2>1, <2>3
  <2>6. \A k \in Layers : layer'[k] = Unborn => layer[k] = Unborn
    BY <1>0, <2>1 DEF Dead, Unborn
  <2> QED BY <1>a, <2>4, <2>5, <2>6 DEF LayersInv
<1>4. ASSUME NEW l \in Layers, NEW d \in Displays, NEW z \in ZonesOf[l], NEW k \in KeysOf[l],
             LayerCommit(l, d, z, k)
      PROVE  LayerTypes' /\ LayersInv'
  <2>1. /\ mapped' = mapped
        /\ layer' = [layer EXCEPT ![l] = [step |-> NextStep(layer[l].step), zone |-> z, keys |-> k]]
    BY <1>4 DEF LayerCommit
  <2>2. z \in Nat /\ k \in {"none", "demand", "exclusive"}
    BY RowsAssumption
  <2>3. LayerTypes'
    BY <1>0, <2>1, <2>2 DEF LayerTypes, NextStep
  <2>4. \A j \in Layers : layer'[j] = Unborn => layer[j] = Unborn
    <3>1. layer'[l].step \in {"configured", "drawn"}
      BY <1>0, <2>1 DEF NextStep
    <3> QED BY <1>0, <2>1, <3>1 DEF Unborn
  <2> QED BY <1>a, <2>1, <2>3, <2>4 DEF LayersInv
<1>5. ASSUME NEW d \in Displays, PlugInstead(d) \/ UnplugOne(d)
      PROVE  LayerTypes' /\ LayersInv'
  <2>1. PICK o \in Displays :
            /\ mapped' = [mapped EXCEPT ![o] = << >>]
            /\ layer' = [l \in Layers |-> IF l \in ToSet(mapped[o]) THEN Dead ELSE layer[l]]
    <3>1. CASE UnplugOne(d)
      BY <3>1 DEF UnplugOne
    <3>2. CASE PlugInstead(d)
      <4>1. live \subseteq Displays
        BY DEF StackTypes
      <4> QED BY <3>2, <4>1 DEF PlugInstead
    <3> QED BY <1>5, <3>1, <3>2
  <2>2. LayerTypes'
    BY <1>0, <2>1 DEF LayerTypes, Dead
  <2>3. \A e \in Displays : ToSet(mapped'[e]) \subseteq ToSet(mapped[e])
    BY <1>0, <2>1 DEF ToSet
  <2>4. \A l \in Layers : layer'[l] = Unborn => layer[l] = Unborn
    BY <2>1 DEF Dead, Unborn
  <2> QED BY <1>a, <2>2, <2>3, <2>4 DEF LayersInv
<1> QED BY <1>1, <1>2, <1>3, <1>4, <1>5, LayerSteps

-----------------------------------------------------------------------------
(* Stacks: every entry a display shows is of its own stack.                *)

\* There is one display exactly when there is one.
LEMMA OneDisplay ==
    StackTypes => /\ Cardinality(live) = 1 <=> \E d \in Displays : live = {d}
                  /\ Cardinality(live) \in Nat
<1> SUFFICES ASSUME StackTypes
             PROVE  /\ Cardinality(live) = 1 <=> \E d \in Displays : live = {d}
                    /\ Cardinality(live) \in Nat
  OBVIOUS
<1>1. IsFiniteSet(live) /\ live \subseteq Displays
  BY RowsAssumption, FS_Subset DEF StackTypes
<1>2. Cardinality(live) = 1 <=> \E d : live = {d}
  BY <1>1, FS_Singleton
<1>3. (\E d : live = {d}) <=> \E d \in Displays : live = {d}
  BY <1>1
<1> QED BY <1>1, <1>2, <1>3, FS_CardinalityType

\* A step that leaves the stacks, and gives no window to a hut that has left
\* them, keeps what is known of them.
LEMMA StackUnchanged ==
    ASSUME StackTypes, HomesInv, UNCHANGED <<live, focus, dark, home, front, tile, pane>>,
           \A h \in window' : h \in window \/ home[h] # None
    PROVE  StackTypes' /\ HomesInv'
<1>1. StackTypes'
  BY DEF StackTypes
<1>2. HomesInv'
  BY DEF HomesInv
<1> QED BY <1>1, <1>2

\* The steps that do.
LEMMA StackSteps ==
    Next => \/ /\ UNCHANGED <<live, focus, dark, home, front, tile, pane>>
               /\ \A h \in window' : h \in window \/ home[h] # None
            \/ \E d \in Displays : \E y \in Rows(d) : Motion(d, y)
            \/ \E x \in Columns : PressPane(x)
            \/ \E e \in Entries : Switch(e)
            \/ \E h \in Huts : SpawnNext(h) \/ WrapTile(h)
            \/ Monitors
<1> DEFINE Still == /\ UNCHANGED <<live, focus, dark, home, front, tile, pane>>
                    /\ \A h \in window' : h \in window \/ home[h] # None
<1>1. ASSUME LayerClients PROVE Still
  BY <1>1 DEF LayerClients, NewLayerSurface, LayerCommit, LayerDestroyed, stackVars, windowVars
<1>2. ASSUME WindowClients PROVE Still
  BY <1>2 DEF WindowClients, NewToplevel, ToplevelDestroyed, stackVars
<1>3. ASSUME NEW x \in Columns, PressElsewhere(x) \/ \E t \in BOOLEAN : PressTab(x, t)
      PROVE  Still
  BY <1>3 DEF PressElsewhere, PressTab, stackVars, windowVars, Leftover
<1>4. ASSUME ExclusiveKey \/ ToggleTerminal PROVE Still
  BY <1>4 DEF ExclusiveKey, ToggleTerminal, stackVars, windowVars, Leftover
<1> HIDE DEF Still
<1>5. Next => \/ Still
              \/ \E d \in Displays : \E y \in Rows(d) : Motion(d, y)
              \/ \E x \in Columns : PressPane(x)
              \/ \E e \in Entries : Switch(e)
              \/ \E h \in Huts : SpawnNext(h) \/ WrapTile(h)
              \/ Monitors
  BY <1>1, <1>2, <1>3, <1>4 DEF Next, Pointer, Keys
<1> QED BY <1>5 DEF Still

\* A hut spawned into the stack of a display, in front there.
LEMMA SpawnKeepsHomes ==
    ASSUME StackTypes, HomesInv, WindowTypes, NEW h \in Huts, NEW d \in Displays,
           SpawnedAt(h, d), front' = [front EXCEPT ![d] = h],
           live' = live \cup {d}, focus' = focus, dark' = dark, dark => live' = live,
           UNCHANGED <<tile, pane, window>>
    PROVE  StackTypes' /\ HomesInv'
<1>1. home[h] = None /\ home' = [home EXCEPT ![h] = d] /\ d # None
  BY NoneAssumption DEF SpawnedAt
<1>2. StackTypes'
  BY <1>1 DEF StackTypes, Entries
<1>3. \A k \in Huts : k # h => home'[k] = home[k]
  BY <1>1 DEF StackTypes
<1>4. home'[h] = d
  BY <1>1 DEF StackTypes
<1>5. tile # << >> => tile[1] \in Huts /\ tile[2] \in Huts
  BY DEF StackTypes
<1>6. tile # << >> => tile[1] # h /\ tile[2] # h
  BY <1>1 DEF HomesInv
<1>7. \A e \in live : e # d => front'[e] = front[e] /\ front[e] # h
  <2> SUFFICES ASSUME NEW e \in live, e # d PROVE front'[e] = front[e] /\ front[e] # h
    OBVIOUS
  <2>1. e \in Displays /\ e # None
    BY NoneAssumption DEF StackTypes
  <2>2. front'[e] = front[e]
    BY <2>1 DEF StackTypes
  <2>3. front[e] # h
    BY <1>1, <2>1, RowsAssumption DEF HomesInv
  <2> QED BY <2>2, <2>3
<1>8. front'[d] = h /\ h # "tile"
  BY RowsAssumption DEF StackTypes
<1>9. \A e \in live' : e # d => front[e] \in Huts \cup {"tile"} /\ e \in live
  BY DEF StackTypes, Entries
<1>10. \A k \in Huts : home'[k] \in live' \cup {None}
  BY <1>3, <1>4 DEF HomesInv
<1>11. \A k \in window' : home'[k] # None
  BY <1>1, <1>3, <1>4 DEF HomesInv, WindowTypes
<1>12. dark' => \E e \in Displays : live' = {e}
  BY DEF HomesInv
<1>13. \A e \in live' : front'[e] # "tile" => home'[front'[e]] = e
  BY <1>3, <1>4, <1>7, <1>8, <1>9 DEF HomesInv
<1>14. \A e \in live' : front'[e] = "tile" => tile' # << >> /\ home'[tile'[1]] = e
  BY <1>3, <1>5, <1>6, <1>7, <1>8, <1>9 DEF HomesInv
<1>15. tile' # << >> => home'[tile'[1]] # None /\ home'[tile'[2]] = home'[tile'[1]]
  BY <1>3, <1>5, <1>6 DEF HomesInv
<1> QED BY <1>2, <1>10, <1>11, <1>12, <1>13, <1>14, <1>15 DEF HomesInv

\* The monitor in place of the last one takes over its whole stack.
LEMMA PlugInsteadKeepsHomes ==
    ASSUME StackTypes, HomesInv, WindowTypes, NEW d \in Displays, PlugInstead(d)
    PROVE  StackTypes' /\ HomesInv'
<1>1. PICK old \in live :
        /\ dark /\ dark' = FALSE /\ live' = {d} /\ focus' = d
        /\ home' = [h \in Huts |-> IF home[h] = old THEN d ELSE home[h]]
        /\ front' = [front EXCEPT ![d] = front[old]]
        /\ UNCHANGED <<tile, pane, window>>
  BY DEF PlugInstead
<1>2. live = {old} /\ old \in Displays /\ old # None /\ d # None
  BY <1>1, NoneAssumption DEF HomesInv, StackTypes
<1>3. front[old] \in Entries /\ front'[d] = front[old]
  BY <1>1, <1>2 DEF StackTypes
<1>4. StackTypes'
  BY <1>1, <1>2, <1>3 DEF StackTypes
<1>5. \A h \in Huts : home[h] = old \/ home[h] = None
  BY <1>2 DEF HomesInv
<1>6. \A h \in Huts : home'[h] = IF home[h] = old THEN d ELSE None
  BY <1>1, <1>5
<1>7. tile # << >> => tile[1] \in Huts /\ tile[2] \in Huts /\ home[tile[1]] = old /\ home[tile[2]] = old
  BY <1>5 DEF StackTypes, HomesInv
<1>8. HomesInv'
  <2>1. \A h \in Huts : home'[h] \in live' \cup {None}
    BY <1>1, <1>6
  <2>2. \A h \in window' : home'[h] # None
    BY <1>1, <1>2, <1>5, <1>6 DEF HomesInv, WindowTypes
  <2>3. \A e \in live' : front'[e] # "tile" => home'[front'[e]] = e
    <3>1. front[old] # "tile" => front[old] \in Huts /\ home[front[old]] = old
      BY <1>2, <1>3 DEF HomesInv, Entries
    <3> QED BY <1>1, <1>3, <1>6, <3>1
  <2>4. \A e \in live' : front'[e] = "tile" => tile' # << >> /\ home'[tile'[1]] = e
    <3>1. front[old] = "tile" => tile # << >>
      BY DEF HomesInv
    <3> QED BY <1>1, <1>3, <1>6, <1>7, <3>1
  <2>5. tile' # << >> => home'[tile'[1]] # None /\ home'[tile'[2]] = home'[tile'[1]]
    BY <1>1, <1>2, <1>6, <1>7
  <2> QED BY <1>1, <2>1, <2>2, <2>3, <2>4, <2>5 DEF HomesInv
<1> QED BY <1>4, <1>8

\* A display that is unplugged takes its stack along, the tile too if it is there.
LEMMA UnplugOneKeepsHomes ==
    ASSUME StackTypes, HomesInv, WindowTypes, NEW d \in Displays, UnplugOne(d)
    PROVE  StackTypes' /\ HomesInv'
<1> DEFINE gone == {h \in Huts : home[h] = d}
<1>1. /\ Cardinality(live) > 1 /\ d \in live /\ live' = live \ {d}
      /\ home' = [h \in Huts |-> IF h \in gone THEN None ELSE home[h]]
      /\ window' = window \ gone
      /\ tile' = IF gone \cap ToSet(tile) # {} THEN << >> ELSE tile
      /\ pane' = IF gone \cap ToSet(tile) # {} THEN 1 ELSE pane
      /\ UNCHANGED <<dark, front>>
  BY DEF UnplugOne
<1>2. focus' \in live'
  <2>1. PICK f \in live' : focus' = IF focus = d THEN f ELSE focus
    BY DEF UnplugOne
  <2> QED BY <1>1, <2>1 DEF StackTypes
<1>3. StackTypes'
  BY <1>1, <1>2 DEF StackTypes, Columns
<1>4. ~dark
  BY <1>1, OneDisplay DEF HomesInv
<1>5. \A h \in Huts : home'[h] = IF home[h] = d THEN None ELSE home[h]
  BY <1>1
<1>6. tile' # << >> => tile' = tile /\ tile[1] \in Huts /\ tile[2] \in Huts
                       /\ home[tile[1]] # d /\ home[tile[2]] # d
  <2> SUFFICES ASSUME tile' # << >>
               PROVE  /\ tile' = tile /\ tile[1] \in Huts /\ tile[2] \in Huts
                      /\ home[tile[1]] # d /\ home[tile[2]] # d
    OBVIOUS
  <2>1. tile' = tile /\ gone \cap ToSet(tile) = {}
    BY <1>1
  <2>2. tile[1] \in Huts /\ tile[2] \in Huts /\ tile[1] \in ToSet(tile) /\ tile[2] \in ToSet(tile)
    BY <2>1 DEF StackTypes, ToSet
  <2> QED BY <2>1, <2>2
<1>7. tile # << >> /\ home[tile[1]] # d => tile' = tile
  <2> SUFFICES ASSUME tile # << >>, home[tile[1]] # d PROVE tile' = tile
    OBVIOUS
  <2>1. ToSet(tile) = {tile[1], tile[2]} /\ home[tile[2]] # d
    BY DEF StackTypes, HomesInv, ToSet
  <2>2. gone \cap ToSet(tile) = {}
    BY <2>1
  <2> QED BY <1>1, <2>2
<1> HIDE DEF gone
<1>8. HomesInv'
  <2>1. \A h \in Huts : home'[h] \in live' \cup {None}
    BY <1>1, <1>5 DEF HomesInv
  <2>2. \A h \in window' : home'[h] # None
    BY <1>1, <1>5 DEF HomesInv, WindowTypes, gone
  <2>3. \A e \in live' : front'[e] # "tile" => home'[front'[e]] = e
    BY <1>1, <1>5 DEF HomesInv, StackTypes, Entries
  <2>4. \A e \in live' : front'[e] = "tile" => tile' # << >> /\ home'[tile'[1]] = e
    <3> SUFFICES ASSUME NEW e \in live', front'[e] = "tile"
                 PROVE  tile' # << >> /\ home'[tile'[1]] = e
      OBVIOUS
    <3>1. e \in live /\ e # d /\ front[e] = "tile"
      BY <1>1
    <3>2. tile # << >> /\ home[tile[1]] = e /\ tile[1] \in Huts
      BY <3>1 DEF HomesInv, StackTypes
    <3>3. tile' = tile
      BY <1>7, <3>1, <3>2
    <3> QED BY <1>5, <3>1, <3>2, <3>3
  <2>5. tile' # << >> => home'[tile'[1]] # None /\ home'[tile'[2]] = home'[tile'[1]]
    BY <1>5, <1>6 DEF HomesInv
  <2> QED BY <1>1, <1>4, <2>1, <2>2, <2>3, <2>4, <2>5 DEF HomesInv
<1> QED BY <1>3, <1>8

\* Every step keeps what is known of the stacks.
LEMMA StackKept ==
    StackTypes /\ WindowTypes /\ HomesInv /\ Next => StackTypes' /\ HomesInv'
<1> SUFFICES ASSUME StackTypes, WindowTypes, HomesInv, Next PROVE StackTypes' /\ HomesInv'
  OBVIOUS
<1>1. ASSUME UNCHANGED <<live, focus, dark, home, front, tile, pane>>,
             \A h \in window' : h \in window \/ home[h] # None
      PROVE  StackTypes' /\ HomesInv'
  BY <1>1, StackUnchanged
<1>2. ASSUME NEW d \in Displays, NEW y \in Rows(d), Motion(d, y) PROVE StackTypes' /\ HomesInv'
  <2>1. d \in live /\ focus' = d /\ UNCHANGED <<live, dark, home, front, tile, pane, window>>
    BY <1>2 DEF Motion, UnderPointer, Leftover
  <2>2. StackTypes'
    BY <2>1 DEF StackTypes
  <2>3. HomesInv'
    BY <2>1 DEF HomesInv
  <2> QED BY <2>2, <2>3
<1>3. ASSUME NEW x \in Columns, PressPane(x) PROVE StackTypes' /\ HomesInv'
  <2>1. pane' = x /\ UNCHANGED <<live, focus, dark, home, front, tile, window>>
    BY <1>3 DEF PressPane, Leftover
  <2>2. StackTypes'
    BY <2>1 DEF StackTypes
  <2>3. HomesInv'
    BY <2>1 DEF HomesInv
  <2> QED BY <2>2, <2>3
<1>4. ASSUME NEW e \in Entries, Switch(e) PROVE StackTypes' /\ HomesInv'
  <2>1. /\ Entry(e, focus) /\ front' = [front EXCEPT ![focus] = e]
        /\ UNCHANGED <<live, focus, dark, home, tile, pane, window>>
    BY <1>4 DEF Switch, Leftover
  <2>2. StackTypes'
    BY <2>1 DEF StackTypes
  <2>3. /\ e # "tile" => home[e] = focus
        /\ e = "tile" => tile # << >> /\ home[tile[1]] = focus
    BY <2>1 DEF Entry
  <2>4. \A d \in live : front'[d] = IF d = focus THEN e ELSE front[d]
    BY <2>1 DEF StackTypes
  <2>5. HomesInv'
    <3>1. \A d \in live : front'[d] # "tile" => home[front'[d]] = d
      BY <2>3, <2>4 DEF HomesInv
    <3>2. \A d \in live : front'[d] = "tile" => tile # << >> /\ home[tile[1]] = d
      BY <2>3, <2>4 DEF HomesInv
    <3> QED BY <2>1, <3>1, <3>2 DEF HomesInv
  <2> QED BY <2>2, <2>5
<1>5. ASSUME NEW h \in Huts, SpawnNext(h) PROVE StackTypes' /\ HomesInv'
  <2>1. /\ SpawnedAt(h, focus) /\ front' = [front EXCEPT ![focus] = h]
        /\ UNCHANGED <<live, dark, focus, tile, pane, window>>
    BY <1>5 DEF SpawnNext, windowVars
  <2>2. focus \in Displays /\ live' = live \cup {focus}
    BY <2>1 DEF StackTypes
  <2> QED BY <2>1, <2>2, SpawnKeepsHomes
<1>6. ASSUME NEW h \in Huts, WrapTile(h) PROVE StackTypes' /\ HomesInv'
  <2>1. /\ tile = << >> /\ home[h] = None /\ home' = [home EXCEPT ![h] = focus]
        /\ tile' = <<h, Focused>> /\ pane' = 2
        /\ front' = [front EXCEPT ![focus] = "tile"]
        /\ UNCHANGED <<live, dark, focus, window>>
    BY <1>6 DEF WrapTile, SpawnedAt
  <2>2. focus \in live /\ focus \in Displays /\ focus # None
    BY NoneAssumption DEF StackTypes
  <2>3. front[focus] # "tile"
    BY <2>1, <2>2 DEF HomesInv
  <2>4. Focused \in Huts /\ home[Focused] = focus
    BY <2>2, <2>3, Leaves DEF HomesInv, Focused, Tiled
  <2>5. StackTypes'
    BY <2>1, <2>2, <2>4 DEF StackTypes, Entries, Columns
  <2>6. tile'[1] = h /\ tile'[2] = Focused /\ tile' # << >>
    BY <2>1
  <2>7. home'[h] = focus /\ home'[Focused] = focus
    BY <2>1, <2>4 DEF StackTypes
  <2>8. \A k \in Huts : home'[k] = IF k = h THEN focus ELSE home[k]
    BY <2>1 DEF StackTypes
  <2>9. \A d \in live : front'[d] = IF d = focus THEN "tile" ELSE front[d]
    BY <2>1 DEF StackTypes
  <2>10. \A d \in live : d # focus => front[d] # "tile" /\ home[front[d]] = d /\ front[d] \in Huts /\ d # None
    BY <2>1, NoneAssumption DEF HomesInv, StackTypes, Entries
  <2>11. HomesInv'
    <3>1. \A k \in Huts : home'[k] \in live' \cup {None}
      BY <2>1, <2>2, <2>8 DEF HomesInv
    <3>2. \A k \in window' : home'[k] # None
      BY <2>1, <2>2, <2>8 DEF HomesInv, WindowTypes
    <3>3. \A d \in live' : front'[d] # "tile" => home'[front'[d]] = d
      BY <2>1, <2>8, <2>9, <2>10
    <3>4. \A d \in live' : front'[d] = "tile" => tile' # << >> /\ home'[tile'[1]] = d
      BY <2>1, <2>6, <2>7, <2>9, <2>10
    <3>5. home'[tile'[1]] # None /\ home'[tile'[2]] = home'[tile'[1]]
      BY <2>2, <2>6, <2>7
    <3> QED BY <2>1, <3>1, <3>2, <3>3, <3>4, <3>5 DEF HomesInv
  <2> QED BY <2>5, <2>11
<1>7. ASSUME Monitors PROVE StackTypes' /\ HomesInv'
  <2>1. ASSUME UnplugLast PROVE StackTypes' /\ HomesInv'
    <3>1. dark' = TRUE /\ UNCHANGED <<live, focus, home, front, tile, pane, window>>
      BY <2>1 DEF UnplugLast, windowVars
    <3>2. \E d \in Displays : live = {d}
      BY <2>1, OneDisplay DEF UnplugLast
    <3>3. StackTypes'
      BY <3>1 DEF StackTypes
    <3>4. HomesInv'
      BY <3>1, <3>2 DEF HomesInv
    <3> QED BY <3>3, <3>4
  <2>2. ASSUME NEW d \in Displays, NEW h \in Huts, PlugAnother(d, h) PROVE StackTypes' /\ HomesInv'
    <3>1. /\ SpawnedAt(h, d) /\ front' = [front EXCEPT ![d] = h] /\ live' = live \cup {d} /\ ~dark
          /\ UNCHANGED <<focus, dark, tile, pane, window>>
      BY <2>2 DEF PlugAnother, windowVars
    <3> QED BY <3>1, SpawnKeepsHomes
  <2> QED BY <1>7, <2>1, <2>2, PlugInsteadKeepsHomes, UnplugOneKeepsHomes DEF Monitors
<1> QED BY <1>1, <1>2, <1>3, <1>4, <1>5, <1>6, <1>7, StackSteps

-----------------------------------------------------------------------------
(* Windows: their sizes follow the room of their own display.              *)

\* WindowsFit, display by display.
Fit == \A d \in Displays : \A h \in window \ replaced : home[h] = d => size[h] = Usable(d)

\* It says the same where every window is in the stack of some display.
LEMMA FitByDisplay == StackTypes /\ WindowTypes /\ HomesInv => (WindowsFit <=> Fit)
<1> SUFFICES ASSUME StackTypes, WindowTypes, HomesInv PROVE WindowsFit <=> Fit
  OBVIOUS
<1>1. \A h \in window \ replaced : home[h] \in Displays
  BY DEF StackTypes, WindowTypes, HomesInv
<1> QED BY <1>1 DEF WindowsFit, Fit

\* Where no display's room changes, the windows still fit.
LEMMA FitUnchanged ==
    ASSUME Fit, \A d \in Displays : Usable(d)' = Usable(d),
           \A h \in window' \ replaced' :
              h \in window \ replaced /\ home'[h] = home[h] /\ size'[h] = size[h]
    PROVE  Fit'
<1> SUFFICES ASSUME NEW d \in Displays, NEW h \in window' \ replaced', home'[h] = d
             PROVE  size'[h] = Usable(d)'
  BY DEF Fit
<1>1. h \in window \ replaced /\ home[h] = d /\ size'[h] = size[h]
  OBVIOUS
<1>2. size[h] = Usable(d)
  BY <1>1 DEF Fit
<1> QED BY <1>1, <1>2

\* reconfigure_main_windows tells the windows of one display its new room.
LEMMA ReconfigureFits ==
    ASSUME StackTypes, WindowTypes, HomesInv, LayerTypes', Fit,
           NEW d \in Displays, Reconfigure(d), UNCHANGED <<live, home, window, terminal>>,
           \A e \in Displays : e # d => Usable(e)' = Usable(e)
    PROVE  WindowTypes' /\ Fit'
<1>1. Usable(d)' \in Nat
  BY RoomsAfter DEF RoomFacts
<1>2. CASE d \in live /\ Usable(d)' # Usable(d)
  <2>1. /\ size' = [h \in Huts |-> IF home[h] = d /\ h \in window THEN Usable(d)' ELSE size[h]]
        /\ replaced' = {h \in replaced : ~(home[h] = d /\ h \in window)}
    BY <1>2 DEF Reconfigure, Reconfigured
  <2>2. WindowTypes'
    BY <1>1, <2>1 DEF WindowTypes
  <2>3. ASSUME NEW e \in Displays, NEW h \in window' \ replaced', home'[h] = e
        PROVE  size'[h] = Usable(e)'
    <3>1. h \in window /\ h \in Huts /\ home[h] = e
      BY <2>3 DEF WindowTypes
    <3>2. CASE e = d
      BY <2>1, <3>1, <3>2
    <3>3. CASE e # d
      <4>1. h \in window \ replaced /\ size'[h] = size[h]
        BY <2>1, <2>3, <3>1, <3>3
      <4>2. size[h] = Usable(e)
        BY <3>1, <4>1 DEF Fit
      <4> QED BY <3>3, <4>1, <4>2
    <3> QED BY <3>2, <3>3
  <2> QED BY <2>2, <2>3 DEF Fit
<1>3. CASE d \in live /\ Usable(d)' = Usable(d)
  <2>1. UNCHANGED <<size, replaced>>
    BY <1>3 DEF Reconfigure
  <2>2. WindowTypes'
    BY <2>1 DEF WindowTypes
  <2>3. \A e \in Displays : Usable(e)' = Usable(e)
    BY <1>3
  <2>4. \A h \in window' \ replaced' :
            h \in window \ replaced /\ home'[h] = home[h] /\ size'[h] = size[h]
    BY <2>1
  <2> QED BY <2>2, <2>3, <2>4, FitUnchanged
<1>4. CASE d \notin live
  <2>1. UNCHANGED <<size, replaced>>
    BY <1>4 DEF Reconfigure
  <2>2. WindowTypes'
    BY <2>1 DEF WindowTypes
  <2>3. \A h \in window : home[h] # d
    BY <1>4, NoneAssumption DEF HomesInv, WindowTypes
  <2>4. Fit'
    <3> SUFFICES ASSUME NEW e \in Displays, NEW h \in window' \ replaced', home'[h] = e
                 PROVE  size'[h] = Usable(e)'
      BY DEF Fit
    <3>1. h \in window \ replaced /\ home[h] = e /\ size'[h] = size[h] /\ e # d
      BY <2>1, <2>3
    <3>2. size[h] = Usable(e)
      BY <3>1 DEF Fit
    <3> QED BY <3>1, <3>2
  <2> QED BY <2>2, <2>4
<1> QED BY <1>2, <1>3, <1>4

\* A client's step on one display leaves the room of the others.
LEMMA OthersKeepRoom ==
    ASSUME LayerTypes, LayersInv, NEW d \in Displays, NEW e \in Displays, e # d,
           mapped'[e] = mapped[e], \A l \in Layers : l \notin ToSet(mapped[d]) => layer'[l].zone = layer[l].zone
    PROVE  Usable(e)' = Usable(e)
<1>1. ToSet(mapped[d]) \cap ToSet(mapped[e]) = {} /\ ToSet(mapped[e]) \subseteq Layers
  <2>1. mapped[e] \in Seq(Layers)
    BY DEF LayerTypes
  <2>2. ToSet(mapped[e]) \subseteq Layers
    BY <2>1 DEF ToSet
  <2> QED BY <2>2 DEF LayersInv
<1> QED BY <1>1, SameRoom

\* A surface that has committed nothing takes no room.
LEMMA NewSurfaceTakesNoRoom ==
    ASSUME LayerTypes, LayersInv, LayerTypes', NEW l \in Layers, NEW d \in Displays,
           NewLayerSurface(l, d)
    PROVE  \A e \in Displays : Usable(e)' = Usable(e)
<1>1. /\ layer[l] = Unborn /\ layer' = [layer EXCEPT ![l].step = "mapped"]
      /\ mapped' = [mapped EXCEPT ![d] = Append(mapped[d], l)]
  BY DEF NewLayerSurface
<1>2. \A k \in Layers : layer'[k].zone = layer[k].zone
  BY <1>1 DEF LayerTypes
<1>3. layer'[l].zone = 0
  BY <1>1, <1>2 DEF Unborn
<1>4. ASSUME NEW e \in Displays, e # d PROVE Usable(e)' = Usable(e)
  <2>1. mapped'[e] = mapped[e]
    BY <1>1, <1>4 DEF LayerTypes
  <2> QED BY <1>2, <1>4, <2>1, OthersKeepRoom
<1>5. Usable(d)' = Usable(d)
  <2>1. mapped'[d] = Append(mapped[d], l) /\ mapped[d] \in Seq(Layers)
    BY <1>1 DEF LayerTypes
  <2>2. Zones(d) \in Seq(Nat) /\ Len(Zones(d)) = Len(mapped[d])
        /\ Origin(d) = Taken(Zones(d))[Len(mapped[d])]
    BY Rooms DEF RoomFacts
  <2>3. Zones(d)' \in Seq(Nat) /\ Len(Zones(d)') = Len(mapped'[d])
        /\ Origin(d)' = Taken(Zones(d)')[Len(mapped'[d])]
    BY RoomsAfter DEF RoomFacts
  <2>4. Zones(d)' = Append(Zones(d), 0)
    <3>1. /\ Zones(d)  = [i \in DOMAIN mapped[d] |-> layer[mapped[d][i]].zone]
          /\ Zones(d)' = [i \in DOMAIN mapped'[d] |-> layer'[mapped'[d][i]].zone]
      BY DEF Zones
    <3>2. DOMAIN mapped[d] = 1..Len(mapped[d]) /\ Len(mapped[d]) \in Nat
          /\ DOMAIN mapped'[d] = 1..(Len(mapped[d]) + 1)
          /\ mapped'[d][Len(mapped[d]) + 1] = l
          /\ \A i \in 1..Len(mapped[d]) : mapped'[d][i] = mapped[d][i] /\ mapped[d][i] \in Layers
      BY <2>1
    <3>3. \A i \in 1..Len(mapped[d]) : Zones(d)'[i] = Zones(d)[i]
      BY <1>2, <3>1, <3>2
    <3>4. Zones(d)'[Len(mapped[d]) + 1] = 0
      BY <1>3, <3>1, <3>2
    <3>5. Len(Zones(d)') = Len(Zones(d)) + 1
      BY <2>1, <2>2, <2>3
    <3> QED BY <2>2, <2>3, <3>3, <3>4, <3>5
  <2>5. Origin(d)' = Origin(d)
    <3>1. Taken(Zones(d)')[Len(Zones(d)')] = Taken(Zones(d))[Len(Zones(d))]
      BY <2>2, <2>4, TakenAppend
    <3> QED BY <2>2, <2>3, <3>1
  <2> QED BY <2>5 DEF Usable
<1> QED BY <1>4, <1>5

\* Every step but the layer clients', the window clients' and two of the
\* monitors' leaves the windows, their sizes and all rooms.
Quiet ==
    /\ UNCHANGED <<layerVars, window, size, replaced>>
    /\ terminal' \in [Huts -> BOOLEAN]
    /\ \A h \in window : home'[h] = home[h]

\* Those steps are quiet.
LEMMA QuietSteps ==
    StackTypes /\ WindowTypes /\ HomesInv =>
        (Next => LayerClients \/ WindowClients \/ Quiet
                 \/ \E d \in Displays : PlugInstead(d) \/ UnplugOne(d))
<1> SUFFICES ASSUME StackTypes, WindowTypes, HomesInv, Next
             PROVE  LayerClients \/ WindowClients \/ Quiet
                    \/ \E d \in Displays : PlugInstead(d) \/ UnplugOne(d)
  OBVIOUS
<1>0. window \subseteq Huts /\ terminal \in [Huts -> BOOLEAN] /\ \A h \in window : home[h] # None
  BY DEF WindowTypes, HomesInv
<1>1. ASSUME UNCHANGED <<layerVars, window, size, replaced, home>>, terminal' \in [Huts -> BOOLEAN]
      PROVE  Quiet
  BY <1>1 DEF Quiet
<1>2. ASSUME UNCHANGED <<layerVars, window, size, replaced, terminal>>,
             NEW h \in Huts, NEW d, SpawnedAt(h, d)
      PROVE  Quiet
  <2>1. \A k \in window : k # h
    BY <1>0, <1>2 DEF SpawnedAt
  <2>2. \A k \in Huts : k # h => home'[k] = home[k]
    BY <1>2 DEF SpawnedAt, StackTypes
  <2> QED BY <1>0, <1>2, <2>1, <2>2 DEF Quiet
<1>3. ASSUME NEW d \in Displays, NEW y \in Rows(d), Motion(d, y) PROVE Quiet
  BY <1>0, <1>1, <1>3 DEF Motion, Leftover
<1>4. ASSUME NEW x \in Columns, PressPane(x) PROVE Quiet
  BY <1>0, <1>1, <1>4 DEF PressPane, Leftover
<1>5. ASSUME NEW x \in Columns, PressElsewhere(x) PROVE Quiet
  BY <1>0, <1>1, <1>5 DEF PressElsewhere, windowVars, stackVars
<1>6. ASSUME NEW x \in Columns, NEW t \in BOOLEAN, PressTab(x, t) PROVE Quiet
  <2>1. terminal' = [terminal EXCEPT ![Focused] = t]
    BY <1>6 DEF PressTab
  <2>2. terminal' \in [Huts -> BOOLEAN]
    BY <1>0, <2>1
  <2> QED BY <1>1, <1>6, <2>2 DEF PressTab, Leftover
<1>7. ASSUME ExclusiveKey PROVE Quiet
  BY <1>0, <1>1, <1>7 DEF ExclusiveKey, windowVars, stackVars
<1>8. ASSUME ToggleTerminal PROVE Quiet
  <2>1. terminal' = [terminal EXCEPT ![Focused] = ~terminal[Focused]]
    BY <1>8 DEF ToggleTerminal
  <2>2. terminal' \in [Huts -> BOOLEAN]
    BY <1>0, <2>1
  <2> QED BY <1>1, <1>8, <2>2 DEF ToggleTerminal, Leftover
<1>9. ASSUME NEW e \in Entries, Switch(e) PROVE Quiet
  BY <1>0, <1>1, <1>9 DEF Switch, Leftover
<1>10. ASSUME NEW h \in Huts, SpawnNext(h) PROVE Quiet
  BY <1>2, <1>10 DEF SpawnNext, windowVars
<1>11. ASSUME NEW h \in Huts, WrapTile(h) PROVE Quiet
  BY <1>2, <1>11 DEF WrapTile
<1>12. ASSUME UnplugLast PROVE Quiet
  BY <1>0, <1>1, <1>12 DEF UnplugLast, windowVars
<1>13. ASSUME NEW d \in Displays, NEW h \in Huts, PlugAnother(d, h) PROVE Quiet
  BY <1>2, <1>13 DEF PlugAnother, windowVars
<1>14. Pointer => Quiet
  BY <1>3, <1>4, <1>5, <1>6 DEF Pointer
<1>15. Keys => Quiet
  BY <1>7, <1>8, <1>9, <1>10, <1>11 DEF Keys
<1>16. Monitors => Quiet \/ \E d \in Displays : PlugInstead(d) \/ UnplugOne(d)
  BY <1>12, <1>13 DEF Monitors
<1> QED BY <1>14, <1>15, <1>16 DEF Next

\* Every step keeps the windows' types, and the windows fit.
LEMMA WindowsKept ==
    ASSUME StackTypes, WindowTypes, HomesInv, LayerTypes, LayersInv, LayerTypes', Fit, Next
    PROVE  WindowTypes' /\ Fit'
<1>1. ASSUME NEW l \in Layers, NEW d \in Displays, NewLayerSurface(l, d)
      PROVE  WindowTypes' /\ Fit'
  <2>1. UNCHANGED <<window, terminal, size, replaced, home>>
    BY <1>1 DEF NewLayerSurface, stackVars, windowVars
  <2>2. \A e \in Displays : Usable(e)' = Usable(e)
    BY <1>1, NewSurfaceTakesNoRoom
  <2>3. WindowTypes'
    BY <2>1 DEF WindowTypes
  <2>4. \A h \in window' \ replaced' :
            h \in window \ replaced /\ home'[h] = home[h] /\ size'[h] = size[h]
    BY <2>1
  <2> QED BY <2>2, <2>3, <2>4, FitUnchanged
<1>2. ASSUME NEW l \in Layers, NEW d \in Displays, NEW v, l \in ToSet(mapped[d]),
             layer' = [layer EXCEPT ![l] = v],
             \A e \in Displays : e # d => mapped'[e] = mapped[e],
             Reconfigure(d), UNCHANGED <<live, home, window, terminal>>
      PROVE  WindowTypes' /\ Fit'
  <2>1. \A k \in Layers : k \notin ToSet(mapped[d]) => layer'[k].zone = layer[k].zone
    BY <1>2 DEF LayerTypes
  <2>2. \A e \in Displays : e # d => Usable(e)' = Usable(e)
    BY <1>2, <2>1, OthersKeepRoom
  <2> QED BY <1>2, <2>2, ReconfigureFits
<1>3. ASSUME LayerClients PROVE WindowTypes' /\ Fit'
  <2>1. PICK l \in Layers, d \in Displays :
            \/ NewLayerSurface(l, d) \/ LayerDestroyed(l, d)
            \/ \E z \in ZonesOf[l], k \in KeysOf[l] : LayerCommit(l, d, z, k)
    BY <1>3 DEF LayerClients
  <2>2. CASE NewLayerSurface(l, d)
    BY <1>1, <2>2
  <2>3. CASE LayerDestroyed(l, d)
    <3>1. \A e \in Displays : e # d => mapped'[e] = mapped[e]
      BY <2>3 DEF LayerDestroyed, LayerTypes
    <3> QED BY <1>2, <2>3, <3>1 DEF LayerDestroyed, stackVars
  <2>4. ASSUME NEW z \in ZonesOf[l], NEW k \in KeysOf[l], LayerCommit(l, d, z, k)
        PROVE  WindowTypes' /\ Fit'
    <3>1. \A e \in Displays : e # d => mapped'[e] = mapped[e]
      BY <2>4 DEF LayerCommit
    <3> QED BY <1>2, <2>4, <3>1 DEF LayerCommit, stackVars
  <2> QED BY <2>1, <2>2, <2>3, <2>4
<1>4. ASSUME UNCHANGED layerVars PROVE \A d \in Displays : Usable(d)' = Usable(d)
  <2>1. mapped' = mapped /\ layer' = layer
    BY <1>4 DEF layerVars
  <2> QED BY <2>1, SameRoom
<1>5. ASSUME NEW h \in Huts, NewToplevel(h) PROVE WindowTypes' /\ Fit'
  <2>1. /\ home[h] # None /\ h \notin window /\ window' = window \cup {h}
        /\ terminal' = IF h = Focused THEN [terminal EXCEPT ![h] = FALSE] ELSE terminal
        /\ size' = [size EXCEPT ![h] = Usable(home[h])]
        /\ replaced' = replaced \ {h}
        /\ UNCHANGED <<layerVars, home>>
    BY <1>5 DEF NewToplevel, stackVars
  <2>2. home[h] \in Displays /\ Usable(home[h]) \in Nat
    <3>1. home[h] \in Displays
      BY <2>1 DEF StackTypes
    <3> QED BY <3>1, Rooms DEF RoomFacts
  <2>3. WindowTypes'
    BY <2>1, <2>2 DEF WindowTypes
  <2>4. ASSUME NEW d \in Displays, NEW k \in window' \ replaced', home'[k] = d
        PROVE  size'[k] = Usable(d)'
    <3>1. Usable(d)' = Usable(d) /\ home[k] = d /\ k \in Huts
      BY <1>4, <2>1, <2>4 DEF WindowTypes
    <3>2. CASE k = h
      BY <2>1, <3>1, <3>2 DEF WindowTypes
    <3>3. CASE k # h
      <4>1. k \in window \ replaced /\ size'[k] = size[k]
        BY <2>1, <3>1, <3>3 DEF WindowTypes
      <4>2. size[k] = Usable(d)
        BY <3>1, <4>1 DEF Fit
      <4> QED BY <3>1, <4>1, <4>2
    <3> QED BY <3>2, <3>3
  <2> QED BY <2>3, <2>4 DEF Fit
<1>6. ASSUME NEW h \in Huts, ToplevelDestroyed(h) PROVE WindowTypes' /\ Fit'
  <2>1. /\ window' = window \ {h} /\ terminal' = [terminal EXCEPT ![h] = TRUE]
        /\ size' = [size EXCEPT ![h] = 0] /\ replaced' = replaced \ {h}
        /\ UNCHANGED <<layerVars, home>>
    BY <1>6 DEF ToplevelDestroyed, stackVars
  <2>2. WindowTypes'
    BY <2>1 DEF WindowTypes
  <2>3. \A k \in window' \ replaced' :
            k \in window \ replaced /\ home'[k] = home[k] /\ size'[k] = size[k]
    BY <2>1 DEF WindowTypes
  <2> QED BY <1>4, <2>1, <2>2, <2>3, FitUnchanged
<1>7. ASSUME Quiet PROVE WindowTypes' /\ Fit'
  <2>1. WindowTypes'
    BY <1>7 DEF Quiet, WindowTypes
  <2>2. \A k \in window' \ replaced' :
            k \in window \ replaced /\ home'[k] = home[k] /\ size'[k] = size[k]
    BY <1>7 DEF Quiet
  <2>3. \A d \in Displays : Usable(d)' = Usable(d)
    BY <1>4, <1>7 DEF Quiet
  <2> QED BY <2>1, <2>2, <2>3, FitUnchanged
<1>8. ASSUME NEW d \in Displays, PlugInstead(d) PROVE WindowTypes' /\ Fit'
  <2>1. replaced' = replaced \cup window /\ UNCHANGED <<window, terminal, size>>
    BY <1>8 DEF PlugInstead
  <2> QED BY <2>1 DEF WindowTypes, Fit
<1>9. ASSUME NEW d \in Displays, UnplugOne(d) PROVE WindowTypes' /\ Fit'
  <2> DEFINE gone == {h \in Huts : home[h] = d}
  <2>1. /\ home' = [h \in Huts |-> IF h \in gone THEN None ELSE home[h]]
        /\ window' = window \ gone /\ replaced' = replaced \ gone
        /\ terminal' = [h \in Huts |-> h \in gone \/ terminal[h]]
        /\ size' = [h \in Huts |-> IF h \in gone THEN 0 ELSE size[h]]
        /\ mapped' = [mapped EXCEPT ![d] = << >>]
        /\ layer' = [l \in Layers |-> IF l \in ToSet(mapped[d]) THEN Dead ELSE layer[l]]
    BY <1>9 DEF UnplugOne
  <2>2. WindowTypes'
    <3>1. window' \subseteq Huts /\ replaced' \subseteq Huts
      BY <2>1 DEF WindowTypes
    <3>2. terminal' \in [Huts -> BOOLEAN]
      <4>1. \A h \in Huts : (h \in gone \/ terminal[h]) \in BOOLEAN
        BY Zenon DEF WindowTypes
      <4> QED BY <2>1, <4>1
    <3>3. size' \in [Huts -> Nat]
      BY <2>1 DEF WindowTypes
    <3> QED BY <3>1, <3>2, <3>3 DEF WindowTypes
  <2>3. ASSUME NEW e \in Displays, NEW k \in window' \ replaced', home'[k] = e
        PROVE  size'[k] = Usable(e)'
    <3>1. k \in window \ replaced /\ home[k] = e /\ e # d /\ size'[k] = size[k]
      BY <2>1, <2>3 DEF WindowTypes
    <3>2. \A l \in Layers : l \notin ToSet(mapped[d]) => layer'[l].zone = layer[l].zone
      BY <2>1
    <3>3. mapped'[e] = mapped[e]
      BY <2>1, <3>1 DEF LayerTypes
    <3>4. Usable(e)' = Usable(e)
      BY <3>1, <3>2, <3>3, OthersKeepRoom
    <3>5. size[k] = Usable(e)
      BY <3>1 DEF Fit
    <3> QED BY <3>1, <3>4, <3>5
  <2> QED BY <2>2, <2>3 DEF Fit
<1> QED BY <1>3, <1>5, <1>6, <1>7, <1>8, <1>9, QuietSteps DEF WindowClients

-----------------------------------------------------------------------------
(* Spaces: a window that is mapped is there, and in front of its terminal. *)

\* The origin of the display a window's hut is on is a row.
OriginsAreRows == \A h \in Huts : h \in window => Origin(home[h]) \in Nat

\* It is, before and after every step.
LEMMA Origins == StackTypes /\ WindowTypes /\ HomesInv /\ LayerTypes => OriginsAreRows
<1> SUFFICES ASSUME StackTypes, WindowTypes, HomesInv, LayerTypes, NEW h \in Huts, h \in window
             PROVE  Origin(home[h]) \in Nat
  BY DEF OriginsAreRows
<1>1. home[h] \in Displays
  BY DEF StackTypes, HomesInv
<1> QED BY <1>1, Rooms DEF RoomFacts

\* sync_main_window_space for the one hut whose terminal or window changed.
LEMMA SyncSpaceKeeps ==
    ASSUME AtType, AtInv, OriginsAreRows', NEW h, SyncSpace(h),
           \A k \in Huts : k # h => terminal'[k] = terminal[k] /\ (k \in window => k \in window')
    PROVE  AtType' /\ AtInv'
<1> DEFINE v == IF terminal'[h] \/ h \notin window' THEN None ELSE Origin(home[h])'
<1>1. at' = [at EXCEPT ![h] = v]
  BY DEF SyncSpace
<1>2. h \in Huts => v \in Nat \cup {None} /\ (v # None => h \in window' /\ ~terminal'[h])
  BY DEF OriginsAreRows
<1> HIDE DEF v
<1>3. \A k \in Huts : at'[k] = IF k = h THEN v ELSE at[k]
  BY <1>1 DEF AtType
<1>4. AtType'
  BY <1>1, <1>2, <1>3 DEF AtType
<1>5. AtInv'
  BY <1>2, <1>3 DEF AtInv
<1> QED BY <1>4, <1>5

\* What a step does to the spaces.
AtStill    == UNCHANGED <<at, terminal, window>>
AtOne(h)   == /\ SyncSpace(h)
              /\ \A k \in Huts : k # h => terminal'[k] = terminal[k] /\ (k \in window => k \in window')

\* Nothing, or a repair of one, or the end of those of a whole display.
LEMMA AtSteps ==
    WindowTypes /\ Next => AtStill \/ (\E h : AtOne(h)) \/ \E d \in Displays : UnplugOne(d)
<1> SUFFICES ASSUME WindowTypes, Next
             PROVE  AtStill \/ (\E h : AtOne(h)) \/ \E d \in Displays : UnplugOne(d)
  OBVIOUS
<1>0. terminal \in [Huts -> BOOLEAN]
  BY DEF WindowTypes
<1>1. ASSUME LayerClients PROVE AtStill
  BY <1>1 DEF LayerClients, NewLayerSurface, LayerCommit, LayerDestroyed, windowVars, AtStill
<1>2. ASSUME NEW h \in Huts, NewToplevel(h) PROVE AtOne(h)
  BY <1>0, <1>2 DEF NewToplevel, AtOne
<1>3. ASSUME NEW h \in Huts, ToplevelDestroyed(h) PROVE AtOne(h)
  BY <1>0, <1>3 DEF ToplevelDestroyed, AtOne
<1>4. ASSUME NEW d \in Displays, NEW y \in Rows(d), Motion(d, y) PROVE AtStill \/ \E h : AtOne(h)
  <2>1. UNCHANGED <<terminal, window>> /\ (SyncSpace(Leaf(d)) \/ UNCHANGED at)
    BY <1>4 DEF Motion, Leftover
  <2>2. SyncSpace(Leaf(d)) => AtOne(Leaf(d))
    BY <2>1 DEF AtOne
  <2> QED BY <2>1, <2>2 DEF AtStill
<1>5. ASSUME NEW x \in Columns, PressPane(x) PROVE \E h : AtOne(h)
  <2>1. AtOne(tile[x])
    BY <1>5 DEF PressPane, Leftover, AtOne
  <2> QED BY <2>1
<1>6. ASSUME NEW x \in Columns, PressElsewhere(x) PROVE AtStill
  BY <1>6 DEF PressElsewhere, windowVars, AtStill
<1>7. ASSUME NEW x \in Columns, NEW t \in BOOLEAN, PressTab(x, t) PROVE \E h : AtOne(h)
  <2>1. AtOne(Focused)
    BY <1>0, <1>7 DEF PressTab, Leftover, AtOne
  <2> QED BY <2>1
<1>8. ASSUME ExclusiveKey PROVE AtStill
  BY <1>8 DEF ExclusiveKey, windowVars, AtStill
<1>9. ASSUME ToggleTerminal PROVE \E h : AtOne(h)
  <2>1. AtOne(Focused)
    BY <1>0, <1>9 DEF ToggleTerminal, Leftover, AtOne
  <2> QED BY <2>1
<1>10. ASSUME NEW e \in Entries, Switch(e) PROVE \E h : AtOne(h)
  <2>1. AtOne(LeafOf(e))
    BY <1>10 DEF Switch, Leftover, AtOne
  <2> QED BY <2>1
<1>11. ASSUME NEW h \in Huts, SpawnNext(h) PROVE AtStill
  BY <1>11 DEF SpawnNext, windowVars, AtStill
<1>12. ASSUME NEW h \in Huts, WrapTile(h) PROVE \E k : AtOne(k)
  <2>1. AtOne(Focused)
    BY <1>12 DEF WrapTile, AtOne
  <2> QED BY <2>1
<1>13. ASSUME UnplugLast PROVE AtStill
  BY <1>13 DEF UnplugLast, windowVars, AtStill
<1>14. ASSUME NEW d \in Displays, NEW h \in Huts, PlugAnother(d, h) PROVE AtStill
  BY <1>14 DEF PlugAnother, windowVars, AtStill
<1>15. ASSUME NEW d \in Displays, PlugInstead(d) PROVE AtStill
  BY <1>15 DEF PlugInstead, AtStill
<1> HIDE DEF AtStill
<1>16. WindowClients => \E h : AtOne(h)
  BY <1>2, <1>3 DEF WindowClients
<1>17. Pointer => AtStill \/ \E h : AtOne(h)
  BY <1>4, <1>5, <1>6, <1>7 DEF Pointer
<1>18. Keys => AtStill \/ \E h : AtOne(h)
  BY <1>8, <1>9, <1>10, <1>11, <1>12 DEF Keys
<1>19. Monitors => AtStill \/ \E d \in Displays : UnplugOne(d)
  BY <1>13, <1>14, <1>15 DEF Monitors
<1> QED BY <1>1, <1>16, <1>17, <1>18, <1>19 DEF Next

\* Every step keeps what is known of the spaces.
LEMMA AtKept ==
    ASSUME WindowTypes, AtType, AtInv, OriginsAreRows', Next
    PROVE  AtType' /\ AtInv'
<1>1. ASSUME AtStill PROVE AtType' /\ AtInv'
  BY <1>1 DEF AtStill, AtType, AtInv
<1>2. ASSUME NEW h, AtOne(h) PROVE AtType' /\ AtInv'
  BY <1>2, SyncSpaceKeeps DEF AtOne
<1>3. ASSUME NEW d \in Displays, UnplugOne(d) PROVE AtType' /\ AtInv'
  <2> DEFINE gone == {h \in Huts : home[h] = d}
  <2>1. /\ window' = window \ gone
        /\ terminal' = [h \in Huts |-> h \in gone \/ terminal[h]]
        /\ at' = [h \in Huts |-> IF h \in gone THEN None ELSE at[h]]
    BY <1>3 DEF UnplugOne
  <2> HIDE DEF gone
  <2> QED BY <2>1 DEF AtType, AtInv
<1> QED BY <1>1, <1>2, <1>3, AtSteps

-----------------------------------------------------------------------------
(* The seat: who may have the keyboard.                                    *)

\* A nonempty set of positions has a greatest and a least member.
LEMMA Extremes ==
    ASSUME NEW n \in Nat, NEW S \in SUBSET (1..n), S # {}
    PROVE  (\E i \in S : \A j \in S : j <= i) /\ (\E i \in S : \A j \in S : i <= j)
<1> DEFINE Both(R) == (\E i \in R : \A j \in R : j <= i) /\ (\E i \in R : \A j \in R : i <= j)
           T == {m \in Nat : \A R \in SUBSET (1..m) : R # {} => Both(R)}
<1>1. 0 \in T
  <2>1. 1..0 = {}
    OBVIOUS
  <2> QED BY <2>1
<1>2. ASSUME NEW m \in Nat, m \in T PROVE m + 1 \in T
  <2> SUFFICES ASSUME NEW R \in SUBSET (1..(m + 1)), R # {} PROVE Both(R)
    OBVIOUS
  <2> DEFINE Q == R \cap (1..m)
  <2>1. \A j \in R : j \in Q \/ j = m + 1
    OBVIOUS
  <2>2. CASE Q = {}
    <3>1. R = {m + 1}
      BY <2>1, <2>2
    <3> QED BY <3>1
  <2>3. CASE Q # {}
    <3>1. Both(Q)
      BY <1>2, <2>3
    <3>2. \E i \in R : \A j \in R : i <= j
      <4>1. PICK i \in Q : \A j \in Q : i <= j
        BY <3>1
      <4> QED BY <2>1, <4>1
    <3>3. \E i \in R : \A j \in R : j <= i
      <4>1. PICK i \in Q : \A j \in Q : j <= i
        BY <3>1
      <4>2. CASE m + 1 \in R
        BY <2>1, <4>2
      <4>3. CASE m + 1 \notin R
        BY <2>1, <4>1, <4>3
      <4> QED BY <4>2, <4>3
    <3> QED BY <3>2, <3>3
  <2> QED BY <2>2, <2>3
<1> HIDE DEF T
<1>3. n \in T
  BY <1>1, <1>2, NatSetInduction
<1> QED BY <1>3 DEF T

\* The layer surface at a row is one of the surfaces.
LEMMA LayerUnderIsLayer ==
    ASSUME LayerTypes, NEW d \in Displays, NEW y, NEW above
    PROVE  LayerUnder(d, y, above) \in Layers \cup {None}
<1> DEFINE hits == {i \in DOMAIN mapped[d] : AboveOf[mapped[d][i]] = above /\ Covers(d, i, y)}
           last == CHOOSE i \in hits : \A j \in hits : j <= i
<1>1. LayerUnder(d, y, above) = IF hits = {} THEN None ELSE mapped[d][last]
  BY DEF LayerUnder
<1>2. mapped[d] \in Seq(Layers) /\ DOMAIN mapped[d] = 1..Len(mapped[d]) /\ Len(mapped[d]) \in Nat
  BY DEF LayerTypes
<1>3. hits \in SUBSET (1..Len(mapped[d]))
  BY <1>2
<1>4. hits # {} => last \in hits
  <2> HIDE DEF hits
  <2> QED BY <1>2, <1>3, Extremes
<1> HIDE DEF hits, last
<1>5. hits # {} => mapped[d][last] \in Layers
  <2>1. \A i \in 1..Len(mapped[d]) : mapped[d][i] \in Layers
    BY <1>2
  <2> QED BY <1>3, <1>4, <2>1
<1> QED BY <1>1, <1>5

\* The first exclusive surface of a display is one of the surfaces.
LEMMA ExclusivesAreLayers == StackTypes /\ LayerTypes => Exclusives \subseteq Layers
<1> SUFFICES ASSUME StackTypes, LayerTypes, NEW l \in Exclusives PROVE l \in Layers
  OBVIOUS
<1> DEFINE first(d) == CHOOSE i \in ExclusiveOn(d) : \A j \in ExclusiveOn(d) : i <= j
<1>1. PICK d \in live : ExclusiveOn(d) # {} /\ l = mapped[d][first(d)]
  BY DEF Exclusives, StackTypes
<1>2. mapped[d] \in Seq(Layers) /\ DOMAIN mapped[d] = 1..Len(mapped[d]) /\ Len(mapped[d]) \in Nat
  BY DEF StackTypes, LayerTypes
<1>3. ExclusiveOn(d) \in SUBSET (1..Len(mapped[d]))
  BY <1>2 DEF ExclusiveOn
<1>4. first(d) \in ExclusiveOn(d)
  BY <1>1, <1>2, <1>3, Extremes
<1> QED BY <1>1, <1>2, <1>3, <1>4

\* A press that meets a layer surface or a window meets one there is.
LEMMA ReceiverNames ==
    ASSUME StackTypes, HomesInv, LayerTypes, NEW x, NEW y
    PROVE  LET hit == Receiver(x, y)
           IN /\ hit # None /\ hit[1] = "layer" => hit[2] \in Layers
              /\ hit # None /\ hit[1] = "window" => hit[2] \in Huts
<1> DEFINE Names(r) == /\ r # None /\ r[1] = "layer" => r[2] \in Layers
                       /\ r # None /\ r[1] = "window" => r[2] \in Huts
           P == IF OnPane(y) THEN <<"pane", tile[x]>> ELSE None
           C == Strip(focus, x, y)
           U == AsLayer(LayerUnder(focus, y, TRUE))
           T == IF TerminalEffective(focus) THEN <<"terminal", Focused>> ELSE None
           W == IF InSpace(Focused, y) THEN <<"window", Focused>> ELSE None
           L == AsLayer(LayerUnder(focus, y, FALSE))
<1>0. focus \in Displays /\ Focused \in Huts
  BY Leaves DEF StackTypes, Focused
<1>1. Names(P)
  OBVIOUS
<1>2. Names(C)
  BY DEF Strip
<1>3. Names(U)
  BY <1>0, LayerUnderIsLayer DEF AsLayer
<1>4. Names(T)
  OBVIOUS
<1>5. Names(W)
  BY <1>0
<1>6. Names(L)
  BY <1>0, LayerUnderIsLayer DEF AsLayer
<1>7. ChromeOrAbove(x, y) = FirstOf(<<C, U>>)
  BY Zenon DEF ChromeOrAbove
<1>8. Receiver(x, y) = FirstOf(<<P, ChromeOrAbove(x, y), T, W, L>>)
  BY Zenon DEF Receiver
<1> HIDE DEF P, C, U, T, W, L
<1>9. ChromeOrAbove(x, y) = C \/ ChromeOrAbove(x, y) = U
  BY <1>7, FirstOf2
<1>10. Receiver(x, y) \in {P, C, U, T, W, L}
  <2>1. Receiver(x, y) = P \/ Receiver(x, y) = ChromeOrAbove(x, y) \/ Receiver(x, y) = T
        \/ Receiver(x, y) = W \/ Receiver(x, y) = L
    BY <1>8, FirstOf5
  <2> QED BY <1>9, <2>1
<1> HIDE DEF Names
<1>11. Names(Receiver(x, y))
  BY <1>1, <1>2, <1>3, <1>4, <1>5, <1>6, <1>10
<1> QED BY <1>11 DEF Names

\* The hut in front of the focused display, before and after every step.
FocusOnHut == Focused \in Huts

\* It is a hut.
LEMMA FocusedIsHut == StackTypes /\ HomesInv => FocusOnHut
BY Leaves DEF StackTypes, Focused, FocusOnHut

Holders == Huts \cup Layers \cup {None}

\* sync_keyboard_focus_to_view leaves the keyboard with one of those.
LEMMA SyncKeyboardKeeps ==
    ASSUME NEW k \in Holders, SyncKeyboard(k), Focused' \in Huts
    PROVE  KeyType'
<1>1. keyboard' = k \/ keyboard' = None \/ keyboard' = Focused'
  BY DEF SyncKeyboard
<1> QED BY <1>1 DEF KeyType, Holders

\* Every step but the monitors' ends in that repair.
LEMMA KeyKept ==
    ASSUME StackTypes, HomesInv, LayerTypes, KeyType, StackTypes', HomesInv', Next
    PROVE  KeyType'
<1>0. Focused' \in Huts
  <2>1. FocusOnHut'
    BY FocusedIsHut, PTL
  <2> QED BY <2>1 DEF FocusOnHut
<1>1. keyboard \in Holders
  BY DEF KeyType, Holders
<1>2. ASSUME SyncKeyboard(keyboard) PROVE KeyType'
  BY <1>0, <1>1, <1>2, SyncKeyboardKeeps
<1>3. ASSUME LayerClients \/ WindowClients PROVE KeyType'
  BY <1>2, <1>3 DEF LayerClients, NewLayerSurface, LayerCommit, LayerDestroyed,
                    WindowClients, NewToplevel, ToplevelDestroyed
<1>4. ASSUME NEW x \in Columns, PressElsewhere(x) PROVE KeyType'
  <2> DEFINE hit == Receiver(x, row)
             k == CASE hit = None -> None
                    [] hit # None /\ hit[1] = "layer" -> IF layer[hit[2]].keys = "none" THEN keyboard ELSE hit[2]
                    [] hit # None /\ hit[1] = "window" -> hit[2]
                    [] OTHER -> keyboard
  <2>1. SyncKeyboard(k)
    BY <1>4 DEF PressElsewhere
  <2>2. /\ hit # None /\ hit[1] = "layer" => hit[2] \in Layers
        /\ hit # None /\ hit[1] = "window" => hit[2] \in Huts
    BY ReceiverNames
  <2> HIDE DEF hit
  <2>3. k \in Holders
    BY <1>1, <2>2 DEF Holders
  <2> HIDE DEF k
  <2> QED BY <1>0, <2>1, <2>3, SyncKeyboardKeeps
<1>5. ASSUME Pointer PROVE KeyType'
  BY <1>2, <1>4, <1>5 DEF Pointer, Motion, PressPane, PressTab
<1>6. ASSUME ExclusiveKey PROVE KeyType'
  <2>1. PICK l \in Layers : SyncKeyboard(l)
    BY <1>6, ExclusivesAreLayers DEF ExclusiveKey
  <2>2. l \in Holders
    BY DEF Holders
  <2> QED BY <1>0, <2>1, <2>2, SyncKeyboardKeeps
<1>7. ASSUME Keys PROVE KeyType'
  BY <1>2, <1>6, <1>7 DEF Keys, ToggleTerminal, Switch, SpawnNext, WrapTile
<1>8. ASSUME Monitors PROVE KeyType'
  <2>1. keyboard' = keyboard \/ keyboard' = None
    BY <1>8 DEF Monitors, UnplugLast, PlugInstead, UnplugOne, PlugAnother, seatVars
  <2> QED BY <2>1 DEF KeyType
<1> QED BY <1>3, <1>5, <1>7, <1>8 DEF Next

\* The pointer's row and the reveal keep their types.
LEMMA SeatKept == SeatTypes /\ Next => SeatTypes'
<1> SUFFICES ASSUME SeatTypes, Next PROVE SeatTypes'
  OBVIOUS
<1>0. row \in Nat /\ revealed \in BOOLEAN
  BY DEF SeatTypes
<1>1. ASSUME UNCHANGED <<row, revealed>> PROVE SeatTypes'
  BY <1>0, <1>1 DEF SeatTypes
<1>2. ASSUME LayerClients \/ WindowClients PROVE SeatTypes'
  BY <1>1, <1>2 DEF LayerClients, NewLayerSurface, LayerCommit, LayerDestroyed,
                    WindowClients, NewToplevel, ToplevelDestroyed
<1>3. ASSUME NEW d \in Displays, NEW y \in Rows(d), Motion(d, y) PROVE SeatTypes'
  <2>1. row' = y /\ y \in Nat
    BY <1>3, RowsAssumption DEF Motion, Rows
  <2>2. revealed' = IF AutoHide THEN Reveal(RevealAfter(d # focus), y, d) ELSE RevealAfter(d # focus)
    BY <1>3 DEF Motion
  <2>3. RevealAfter(d # focus) \in BOOLEAN
    BY <1>0 DEF RevealAfter
  <2>4. Reveal(RevealAfter(d # focus), y, d) \in BOOLEAN
    BY Zenon DEF Reveal
  <2> QED BY <2>1, <2>2, <2>3, <2>4 DEF SeatTypes
<1>4. ASSUME NEW x \in Columns, PressPane(x) \/ PressElsewhere(x) \/ \E t \in BOOLEAN : PressTab(x, t)
      PROVE  SeatTypes'
  BY <1>1, <1>4 DEF PressPane, PressElsewhere, PressTab
<1>5. ASSUME Keys PROVE SeatTypes'
  BY <1>1, <1>5 DEF Keys, ExclusiveKey, ToggleTerminal, Switch, SpawnNext, WrapTile
<1>6. ASSUME Monitors PROVE SeatTypes'
  <2>1. row' = row
    BY <1>6 DEF Monitors, UnplugLast, PlugInstead, UnplugOne, PlugAnother, seatVars
  <2>2. revealed' \in {revealed, FALSE}
    BY <1>6 DEF Monitors, UnplugLast, PlugInstead, UnplugOne, PlugAnother, RevealAfter, seatVars
  <2>3. row' \in Nat
    BY <1>0, <2>1
  <2>4. revealed' \in BOOLEAN
    BY <1>0, <2>2
  <2> QED BY <2>3, <2>4 DEF SeatTypes
<1> QED BY <1>2, <1>3, <1>4, <1>5, <1>6 DEF Next, Pointer

-----------------------------------------------------------------------------
(* The theorems.                                                           *)

\* IInv, by parts.
Parts == /\ StackTypes /\ WindowTypes /\ AtType /\ LayerTypes /\ SeatTypes /\ KeyType
         /\ HomesInv /\ LayersInv /\ AtInv /\ Fit

\* The parts are the whole.
LEMMA ByParts == IInv <=> Parts
BY TypeParts, FitByDisplay DEF IInv, Parts

\* One monitor and one hut, in front, with nothing else on the screen.
LEMMA InitParts == Init => Parts
<1> SUFFICES ASSUME Init PROVE Parts
  OBVIOUS
<1>1. PICK d \in Displays, h \in Huts :
        /\ live = {d} /\ dark = FALSE /\ focus = d
        /\ home = [k \in Huts |-> IF k = h THEN d ELSE None]
        /\ front = [e \in Displays |-> h]
        /\ tile = << >> /\ pane = 1
        /\ window = {} /\ terminal = [k \in Huts |-> TRUE]
        /\ size = [k \in Huts |-> 0] /\ at = [k \in Huts |-> None]
        /\ mapped = [e \in Displays |-> << >>]
        /\ layer = [l \in Layers |-> Unborn]
        /\ row = 0 /\ revealed = FALSE /\ keyboard = None
        /\ replaced = {}
  BY DEF Init
<1>2. StackTypes
  BY <1>1 DEF StackTypes, Entries, Columns
<1>3. WindowTypes /\ Fit
  BY <1>1 DEF WindowTypes, Fit
<1>4. AtType /\ AtInv
  BY <1>1 DEF AtType, AtInv
<1>5. LayerTypes
  BY <1>1 DEF LayerTypes, Unborn
<1>6. LayersInv
  <2>1. \A e \in Displays : ToSet(mapped[e]) = {}
    BY <1>1 DEF ToSet
  <2> QED BY <2>1 DEF LayersInv
<1>7. SeatTypes /\ KeyType
  BY <1>1 DEF SeatTypes, KeyType
<1>8. HomesInv
  <2>1. h # "tile" /\ home[h] = d /\ \A e \in live : e = d /\ front[e] = h
    BY <1>1, RowsAssumption
  <2> QED BY <1>1, <2>1 DEF HomesInv
<1> QED BY <1>2, <1>3, <1>4, <1>5, <1>6, <1>7, <1>8 DEF Parts

\* A step keeps every part.
LEMMA NextParts == Parts /\ Next => Parts'
<1> SUFFICES ASSUME Parts, Next PROVE Parts'
  OBVIOUS
<1>0. /\ StackTypes /\ WindowTypes /\ AtType /\ LayerTypes /\ SeatTypes /\ KeyType
      /\ HomesInv /\ LayersInv /\ AtInv /\ Fit
  BY DEF Parts
<1>1. StackTypes' /\ HomesInv'
  BY <1>0, StackKept
<1>2. LayerTypes' /\ LayersInv'
  BY <1>0, LayersKept
<1>3. WindowTypes' /\ Fit'
  BY <1>0, <1>2, WindowsKept
<1>4. OriginsAreRows'
  BY <1>1, <1>2, <1>3, Origins, PTL
<1>5. AtType' /\ AtInv'
  BY <1>0, <1>4, AtKept
<1>6. KeyType'
  BY <1>0, <1>1, KeyKept
<1>7. SeatTypes'
  BY <1>0, SeatKept
<1> QED BY <1>1, <1>2, <1>3, <1>5, <1>6, <1>7 DEF Parts

\* A stuttering step keeps every part.
LEMMA StutterParts == Parts /\ UNCHANGED vars => Parts'
<1> SUFFICES ASSUME Parts, UNCHANGED vars PROVE Parts'
  OBVIOUS
<1>0. /\ StackTypes /\ WindowTypes /\ AtType /\ LayerTypes /\ SeatTypes /\ KeyType
      /\ HomesInv /\ LayersInv /\ AtInv /\ Fit
  BY DEF Parts
<1>1. UNCHANGED <<live, dark, focus, home, front, tile, pane, window, terminal, size, at, replaced,
                  mapped, layer, row, revealed, keyboard>>
  BY DEF vars, stackVars, windowVars, layerVars, seatVars
<1>2. StackTypes' /\ HomesInv' /\ WindowTypes' /\ LayerTypes' /\ SeatTypes' /\ KeyType' /\ LayersInv'
  BY <1>0, <1>1 DEF StackTypes, HomesInv, WindowTypes, LayerTypes, SeatTypes, KeyType, LayersInv
<1>3. AtType' /\ AtInv'
  BY <1>0, <1>1 DEF AtType, AtInv
<1>4. Fit'
  <2>1. \A d \in Displays : Usable(d)' = Usable(d)
    BY <1>0, <1>1, SameRoom
  <2> QED BY <1>0, <1>1, <2>1, FitUnchanged
<1> QED BY <1>2, <1>3, <1>4 DEF Parts

\* IInv is inductive, so it holds in every reachable state.
THEOREM Inductive == Spec => []IInv
<1>1. Init => Parts
  BY InitParts
<1>2. Parts /\ [Next]_vars => Parts'
  BY NextParts, StutterParts
<1>3. Spec => []Parts
  BY <1>1, <1>2, PTL DEF Spec
<1> QED BY <1>3, ByParts, PTL

\* Spec satisfies []LayoutIsSound: the types, and windows that fit.
THEOREM LayoutStaysSound == Spec => []LayoutIsSound
<1>1. IInv => LayoutIsSound
  BY DEF IInv, LayoutIsSound
<1> QED BY <1>1, Inductive, PTL

\* Spec satisfies []PressIsDrawn: outside a tile a press goes to what is drawn.
THEOREM PressesAreDrawn == Spec => []PressIsDrawn
<1>1. IInv => PressIsDrawn
  BY PressOrder DEF IInv
<1> QED BY <1>1, Inductive, PTL

\* Spec satisfies []DrawnIsHit: the surface drawn on top hears of the pointer.
THEOREM DrawnAreHit == Spec => []DrawnIsHit
<1>1. IInv => DrawnIsHit
  BY HoverOrder DEF IInv
<1> QED BY <1>1, Inductive, PTL
=============================================================================
