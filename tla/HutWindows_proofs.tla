------------------------- MODULE HutWindows_proofs -------------------------
(***************************************************************************)
(* What holds of HutWindows for any toplevels and any huts.                *)
(***************************************************************************)
EXTENDS HutWindows, TLAPS, FiniteSetTheorems

-----------------------------------------------------------------------------
(* Tab lists: taking a window out and adding one.                          *)

\* RemoveAt drops one position and keeps the others in order.
LEMMA RemoveAtFacts ==
    ASSUME NEW S, NEW s \in Seq(S), NEW i \in 1..Len(s)
    PROVE  /\ RemoveAt(s, i) \in Seq(S)
           /\ Len(RemoveAt(s, i)) = Len(s) - 1
           /\ \A j \in 1..(Len(s) - 1) :
                RemoveAt(s, i)[j] = IF j < i THEN s[j] ELSE s[j + 1]
<1> DEFINE front == SubSeq(s, 1, i - 1)
           back  == SubSeq(s, i + 1, Len(s))
<1>1. /\ front \in Seq(S)
      /\ Len(front) = i - 1
      /\ \A j \in 1..(i - 1) : front[j] = s[j]
  OBVIOUS
<1>2. /\ back \in Seq(S)
      /\ Len(back) = Len(s) - i
      /\ \A j \in 1..(Len(s) - i) : back[j] = s[i + j]
  OBVIOUS
<1>3. RemoveAt(s, i) = front \o back
  BY DEF RemoveAt
<1> HIDE DEF front, back
<1>4. /\ front \o back \in Seq(S)
      /\ Len(front \o back) = Len(s) - 1
  BY <1>1, <1>2
<1>5. ASSUME NEW j \in 1..(Len(s) - 1)
      PROVE  (front \o back)[j] = IF j < i THEN s[j] ELSE s[j + 1]
  <2>1. CASE j < i
    BY <2>1, <1>1, <1>2
  <2>2. CASE ~(j < i)
    BY <2>2, <1>1, <1>2
  <2> QED BY <2>1, <2>2
<1> QED BY <1>3, <1>4, <1>5

\* The position of a window in a tab list.
IndexIn(s, w) == CHOOSE j \in DOMAIN s : s[j] = w

\* Taking a window out of a tab list takes out that window alone.
LEMMA TakenOut ==
    ASSUME NEW S, NEW s \in Seq(S), IsInjective(s), NEW w \in ToSet(s)
    PROVE  /\ IndexIn(s, w) \in 1..Len(s)
           /\ s[IndexIn(s, w)] = w
           /\ RemoveAt(s, IndexIn(s, w)) \in Seq(S)
           /\ IsInjective(RemoveAt(s, IndexIn(s, w)))
           /\ ToSet(RemoveAt(s, IndexIn(s, w))) = ToSet(s) \ {w}
           /\ Len(RemoveAt(s, IndexIn(s, w))) = Len(s) - 1
<1> DEFINE i == IndexIn(s, w)
           t == RemoveAt(s, i)
<1>0. DOMAIN s = 1..Len(s) /\ Len(s) \in Nat
  OBVIOUS
<1>1. i \in 1..Len(s) /\ s[i] = w
  BY <1>0 DEF IndexIn, ToSet
<1> HIDE DEF i
<1>2. /\ t \in Seq(S)
      /\ Len(t) = Len(s) - 1
      /\ \A j \in 1..(Len(s) - 1) : t[j] = IF j < i THEN s[j] ELSE s[j + 1]
  BY <1>1, RemoveAtFacts
<1> HIDE DEF t
<1>3. DOMAIN t = 1..(Len(s) - 1)
  BY <1>2
<1>4. \A a, b \in 1..Len(s) : s[a] = s[b] => a = b
  BY <1>0 DEF IsInjective
<1>5. IsInjective(t)
  <2> SUFFICES ASSUME NEW a \in 1..(Len(s) - 1), NEW b \in 1..(Len(s) - 1), t[a] = t[b]
               PROVE  a = b
    BY <1>3 DEF IsInjective
  <2> QED BY <1>0, <1>1, <1>2, <1>4
<1>6. ToSet(t) = ToSet(s) \ {w}
  <2>1. ASSUME NEW j \in 1..(Len(s) - 1)
        PROVE  \E k \in 1..Len(s) : t[j] = s[k] /\ k # i
    BY <1>0, <1>1, <1>2
  <2>2. ASSUME NEW k \in 1..Len(s), k # i
        PROVE  \E j \in 1..(Len(s) - 1) : t[j] = s[k]
    <3>1. CASE k < i
      <4>1. k \in 1..(Len(s) - 1) /\ t[k] = s[k]
        BY <3>1, <1>0, <1>1, <1>2
      <4> QED BY <4>1
    <3>2. CASE k > i
      <4>1. k - 1 \in 1..(Len(s) - 1) /\ t[k - 1] = s[k]
        BY <3>2, <1>0, <1>1, <1>2
      <4> QED BY <4>1
    <3> QED BY <2>2, <3>1, <3>2, <1>0, <1>1
  <2>3. ToSet(t) = {t[j] : j \in 1..(Len(s) - 1)} /\ ToSet(s) = {s[k] : k \in 1..Len(s)}
    BY <1>0, <1>3 DEF ToSet
  <2>4. ASSUME NEW x PROVE x \in ToSet(t) <=> x \in ToSet(s) /\ x # w
    <3>1. ASSUME x \in ToSet(t) PROVE x \in ToSet(s) /\ x # w
      BY <3>1, <2>1, <2>3, <1>1, <1>4
    <3>2. ASSUME x \in ToSet(s), x # w PROVE x \in ToSet(t)
      BY <3>2, <2>2, <2>3, <1>1
    <3> QED BY <3>1, <3>2
  <2> QED BY <2>4
<1> QED BY <1>1, <1>2, <1>5, <1>6 DEF i, t

\* A new tab goes to the end of the list.
LEMMA Appended ==
    ASSUME NEW S, NEW s \in Seq(S), IsInjective(s), NEW w \in S, w \notin ToSet(s)
    PROVE  /\ Append(s, w) \in Seq(S)
           /\ IsInjective(Append(s, w))
           /\ ToSet(Append(s, w)) = ToSet(s) \cup {w}
           /\ Len(Append(s, w)) = Len(s) + 1
           /\ \A j \in 1..Len(s) : Append(s, w)[j] = s[j]
           /\ Append(s, w)[Len(s) + 1] = w
<1> DEFINE t == Append(s, w)
<1>1. /\ t \in Seq(S) /\ Len(t) = Len(s) + 1
      /\ \A j \in 1..Len(s) : t[j] = s[j]
      /\ t[Len(s) + 1] = w
      /\ Len(s) \in Nat /\ DOMAIN s = 1..Len(s) /\ DOMAIN t = 1..(Len(s) + 1)
  OBVIOUS
<1> HIDE DEF t
<1>2. \A j \in 1..Len(s) : s[j] # w
  BY <1>1 DEF ToSet
<1>3. IsInjective(t)
  <2> SUFFICES ASSUME NEW a \in 1..(Len(s) + 1), NEW b \in 1..(Len(s) + 1), t[a] = t[b]
               PROVE  a = b
    BY <1>1 DEF IsInjective
  <2>1. \A p, q \in 1..Len(s) : s[p] = s[q] => p = q
    BY <1>1 DEF IsInjective
  <2> QED BY <1>1, <1>2, <2>1
<1>4. ToSet(t) = ToSet(s) \cup {w}
  <2>1. 1..(Len(s) + 1) = (1..Len(s)) \cup {Len(s) + 1}
    BY <1>1
  <2> QED BY <1>1, <2>1 DEF ToSet
<1> QED BY <1>1, <1>3, <1>4 DEF t

\* The shifted index names an entry of what is left.
LEMMA ShiftInRange ==
    ASSUME NEW n \in Nat, NEW a \in 1..n, NEW i \in 1..n
    PROVE  /\ ShiftActive(a, i, n - 1) \in Nat \ {0}
           /\ n > 1 => ShiftActive(a, i, n - 1) \in 1..(n - 1)
  BY DEF ShiftActive

\* ... and the same entry as before, unless that is the one that went.
LEMMA ShiftFollows ==
    ASSUME NEW S, NEW s \in Seq(S), IsInjective(s), NEW w \in ToSet(s),
           NEW a \in 1..Len(s), s[a] # w
    PROVE  LET i == IndexIn(s, w)
           IN /\ ShiftActive(a, i, Len(s) - 1) \in 1..(Len(s) - 1)
              /\ RemoveAt(s, i)[ShiftActive(a, i, Len(s) - 1)] = s[a]
<1> DEFINE i == IndexIn(s, w)
           t == RemoveAt(s, i)
           c == ShiftActive(a, i, Len(s) - 1)
<1>1. i \in 1..Len(s) /\ s[i] = w /\ Len(s) \in Nat
  BY TakenOut
<1> HIDE DEF i
<1>2. /\ \A j \in 1..(Len(s) - 1) : t[j] = IF j < i THEN s[j] ELSE s[j + 1]
  BY <1>1, RemoveAtFacts
<1> HIDE DEF t
<1>3. i # a
  BY <1>1
<1>4. c = IF i < a THEN a - 1 ELSE a
  BY <1>1, <1>3 DEF ShiftActive
<1> HIDE DEF c
<1>5. c \in 1..(Len(s) - 1) /\ t[c] = s[a]
  BY <1>1, <1>2, <1>3, <1>4
<1> QED BY <1>5 DEF i, t, c
-----------------------------------------------------------------------------
(* Placement, as sets: which tabs each hut has, and which Floating Windows *)
(* and Alerts each Main Window.                                            *)

\* A window is a tab of one hut, or a child of one Main Window that is a tab.
Placed(tabs, fl, al) ==
    /\ \A g, h \in Huts : \A w \in Windows : w \in tabs[g] /\ w \in tabs[h] => g = h
    /\ \A m, w \in Windows : w \in fl[m] \cup al[m] =>
          /\ \E h \in Huts : m \in tabs[h]
          /\ \A h \in Huts : w \notin tabs[h]
          /\ \A p \in Windows : w \in fl[p] \cup al[p] => p = m
    /\ \A m, w \in Windows : w \in fl[m] => w \notin al[m]

Listed(w, tabs, fl, al) ==
    \/ \E h \in Huts : w \in tabs[h]
    \/ \E m \in Windows : w \in fl[m] \cup al[m]

\* The listed windows are alive, the live ones that are not listed were asked
\* to close, and only Floating Windows are docked.
Attended(tabs, fl, al, alive, sent, dock) ==
    /\ \A w \in Windows : Listed(w, tabs, fl, al) => w \in alive
    /\ \A w \in Windows : w \in alive /\ ~Listed(w, tabs, fl, al) => w \in sent
    /\ \A w \in Windows : w \in dock => \E m \in Windows : w \in fl[m]

\* A new toplevel becomes a tab.
LEMMA PlaceNew ==
    ASSUME NEW tabs \in [Huts -> SUBSET Windows], NEW fl \in [Windows -> SUBSET Windows],
           NEW al \in [Windows -> SUBSET Windows], NEW alive, NEW sent, NEW dock,
           Placed(tabs, fl, al), Attended(tabs, fl, al, alive, sent, dock),
           NEW h \in Huts, NEW w \in Windows, w \notin alive,
           NEW ntabs \in [Huts -> SUBSET Windows],
           \A g \in Huts : ntabs[g] = IF g = h THEN tabs[h] \cup {w} ELSE tabs[g]
    PROVE  Placed(ntabs, fl, al) /\ Attended(ntabs, fl, al, alive \cup {w}, sent, dock)
<1>1. ~Listed(w, tabs, fl, al)
  BY DEF Attended
<1>2. Placed(ntabs, fl, al)
  BY <1>1 DEF Placed, Listed
<1>3. Attended(ntabs, fl, al, alive \cup {w}, sent, dock)
  BY DEF Attended, Listed
<1> QED BY <1>2, <1>3

\* A Main Window goes, its children with it.
MainGoes(tabs, fl, al, h, w, ntabs, nfl, nal) ==
    /\ tabs \in [Huts -> SUBSET Windows] /\ ntabs \in [Huts -> SUBSET Windows]
    /\ fl \in [Windows -> SUBSET Windows] /\ nfl \in [Windows -> SUBSET Windows]
    /\ al \in [Windows -> SUBSET Windows] /\ nal \in [Windows -> SUBSET Windows]
    /\ h \in Huts /\ w \in Windows
    /\ w \in tabs[h]
    /\ \A g \in Huts : ntabs[g] = IF g = h THEN tabs[h] \ {w} ELSE tabs[g]
    /\ \A m \in Windows : nfl[m] = IF m = w THEN {} ELSE fl[m]
    /\ \A m \in Windows : nal[m] = IF m = w THEN {} ELSE al[m]

\* Places and attention are kept when a Main Window goes.
LEMMA PlaceMainGone ==
    ASSUME NEW tabs, NEW fl, NEW al, NEW alive, NEW sent, NEW dock,
           Placed(tabs, fl, al), Attended(tabs, fl, al, alive, sent, dock),
           NEW h, NEW w, NEW ntabs, NEW nfl, NEW nal,
           MainGoes(tabs, fl, al, h, w, ntabs, nfl, nal)
    PROVE  /\ Placed(ntabs, nfl, nal)
           /\ Attended(ntabs, nfl, nal, alive \ {w}, (sent \cup (fl[w] \cup al[w])) \ {w},
                       dock \ (fl[w] \cup al[w]))
<1> USE DEF MainGoes
<1>1. Placed(ntabs, nfl, nal)
  BY DEF Placed
<1>2. Attended(ntabs, nfl, nal, alive \ {w}, (sent \cup (fl[w] \cup al[w])) \ {w},
               dock \ (fl[w] \cup al[w]))
  <2>1. ASSUME NEW v \in Windows
        PROVE  Listed(v, ntabs, nfl, nal) <=>
                  Listed(v, tabs, fl, al) /\ v # w /\ v \notin fl[w] \cup al[w]
    BY DEF Placed, Listed
  <2>2. \A v \in Windows : Listed(v, ntabs, nfl, nal) => v \in alive \ {w}
    BY <2>1 DEF Attended
  <2>3. \A v \in Windows : v \in alive \ {w} /\ ~Listed(v, ntabs, nfl, nal) =>
                              v \in (sent \cup (fl[w] \cup al[w])) \ {w}
    BY <2>1 DEF Attended
  <2>4. \A v \in Windows : v \in dock \ (fl[w] \cup al[w]) => \E m \in Windows : v \in nfl[m]
    BY DEF Attended
  <2> QED BY <2>2, <2>3, <2>4 DEF Attended
<1> QED BY <1>1, <1>2

\* A window that is no tab goes from wherever it is.
LEMMA PlaceChildGone ==
    ASSUME NEW tabs \in [Huts -> SUBSET Windows], NEW fl \in [Windows -> SUBSET Windows],
           NEW al \in [Windows -> SUBSET Windows], NEW alive, NEW sent, NEW dock,
           Placed(tabs, fl, al), Attended(tabs, fl, al, alive, sent, dock),
           NEW w \in Windows, \A h \in Huts : w \notin tabs[h],
           NEW nfl \in [Windows -> SUBSET Windows], NEW nal \in [Windows -> SUBSET Windows],
           \A m \in Windows : nfl[m] = fl[m] \ {w},
           \A m \in Windows : nal[m] = al[m] \ {w}
    PROVE  /\ Placed(tabs, nfl, nal)
           /\ Attended(tabs, nfl, nal, alive \ {w}, sent \ {w}, dock \ {w})
<1>1. Placed(tabs, nfl, nal)
  BY DEF Placed
<1>2. ASSUME NEW v \in Windows
      PROVE  Listed(v, tabs, nfl, nal) <=> Listed(v, tabs, fl, al) /\ v # w
  BY DEF Listed
<1>3. Attended(tabs, nfl, nal, alive \ {w}, sent \ {w}, dock \ {w})
  BY <1>2 DEF Attended
<1> QED BY <1>1, <1>3

\* A listed window becomes (again) a tab of hut h.
BecomesTab(tabs, fl, al, h, w, ntabs, nfl, nal) ==
    /\ tabs \in [Huts -> SUBSET Windows] /\ ntabs \in [Huts -> SUBSET Windows]
    /\ fl \in [Windows -> SUBSET Windows] /\ nfl \in [Windows -> SUBSET Windows]
    /\ al \in [Windows -> SUBSET Windows] /\ nal \in [Windows -> SUBSET Windows]
    /\ h \in Huts /\ w \in Windows
    /\ Listed(w, tabs, fl, al)
    /\ \A g \in Huts : w \in tabs[g] => g = h
    /\ \A g \in Huts : ntabs[g] = IF g = h THEN tabs[h] \cup {w} ELSE tabs[g]
    /\ \A m \in Windows : nfl[m] = fl[m] \ {w}
    /\ \A m \in Windows : nal[m] = al[m] \ {w}

\* Places and attention are kept when a window becomes a tab.
LEMMA PlaceTab ==
    ASSUME NEW tabs, NEW fl, NEW al, NEW alive, NEW sent, NEW dock,
           Placed(tabs, fl, al), Attended(tabs, fl, al, alive, sent, dock),
           NEW h, NEW w, NEW ntabs, NEW nfl, NEW nal,
           BecomesTab(tabs, fl, al, h, w, ntabs, nfl, nal)
    PROVE  /\ Placed(ntabs, nfl, nal)
           /\ Attended(ntabs, nfl, nal, alive, sent, dock \ {w})
<1> USE DEF BecomesTab
<1>1. Placed(ntabs, nfl, nal)
  BY DEF Placed
<1>2. ASSUME NEW v \in Windows
      PROVE  Listed(v, ntabs, nfl, nal) <=> Listed(v, tabs, fl, al)
  BY DEF Listed
<1>3. Attended(ntabs, nfl, nal, alive, sent, dock \ {w})
  BY <1>2 DEF Attended
<1> QED BY <1>1, <1>3

\* A listed window becomes a Floating Window or an Alert of another tab of the
\* same hut, and loses its own children.
BecomesChild(tabs, fl, al, h, w, p, floats, ntabs, nfl, nal) ==
    /\ tabs \in [Huts -> SUBSET Windows] /\ ntabs \in [Huts -> SUBSET Windows]
    /\ fl \in [Windows -> SUBSET Windows] /\ nfl \in [Windows -> SUBSET Windows]
    /\ al \in [Windows -> SUBSET Windows] /\ nal \in [Windows -> SUBSET Windows]
    /\ h \in Huts /\ w \in Windows
    /\ Listed(w, tabs, fl, al)
    /\ \A g \in Huts : w \in tabs[g] => g = h
    /\ p \in tabs[h] \ {w} /\ floats \in BOOLEAN
    /\ \A g \in Huts : ntabs[g] = IF g = h THEN tabs[h] \ {w} ELSE tabs[g]
    /\ \A m \in Windows : nfl[m] = IF m = w THEN {}
                                   ELSE IF m = p /\ floats THEN fl[m] \cup {w}
                                   ELSE fl[m] \ {w}
    /\ \A m \in Windows : nal[m] = IF m = w THEN {}
                                   ELSE IF m = p /\ ~floats THEN al[m] \cup {w}
                                   ELSE al[m] \ {w}

\* Places and attention are kept when a window becomes another's child.
LEMMA PlaceChild ==
    ASSUME NEW tabs, NEW fl, NEW al, NEW alive, NEW sent, NEW dock,
           Placed(tabs, fl, al), Attended(tabs, fl, al, alive, sent, dock),
           NEW h, NEW w, NEW p, NEW floats, NEW ntabs, NEW nfl, NEW nal,
           BecomesChild(tabs, fl, al, h, w, p, floats, ntabs, nfl, nal)
    PROVE  /\ Placed(ntabs, nfl, nal)
           /\ Attended(ntabs, nfl, nal, alive, sent \cup (fl[w] \cup al[w]),
                       (dock \ (fl[w] \cup al[w] \cup {w})) \cup (IF floats THEN {w} ELSE {}))
<1> DEFINE ndock == (dock \ (fl[w] \cup al[w] \cup {w})) \cup (IF floats THEN {w} ELSE {})
<1> USE DEF BecomesChild
<1>0. p \in Windows /\ p \in ntabs[h] /\ w \notin fl[w] /\ w \notin al[w]
  BY DEF Placed, Listed
<1>a. \A m \in Windows : w \in fl[m] \cup al[m] => \A g \in Huts : w \notin tabs[g]
  BY DEF Placed
<1>1. \A g, k \in Huts : \A v \in Windows : v \in ntabs[g] /\ v \in ntabs[k] => g = k
  BY DEF Placed
<1>w. \A g \in Huts : w \notin ntabs[g]
  OBVIOUS
<1>n. ASSUME NEW m \in Windows, NEW v \in Windows, v \in nfl[m] \cup nal[m], v # w
      PROVE  m # w /\ v \in fl[m] \cup al[m]
  BY <1>n
<1>m. ASSUME NEW m \in Windows, w \in nfl[m] \cup nal[m]
      PROVE  m = p
  BY <1>m
<1>2. ASSUME NEW m \in Windows, NEW v \in Windows, v \in nfl[m] \cup nal[m]
      PROVE  /\ \E g \in Huts : m \in ntabs[g]
             /\ \A g \in Huts : v \notin ntabs[g]
             /\ \A q \in Windows : v \in nfl[q] \cup nal[q] => q = m
  <2>1. CASE v = w
    BY <2>1, <1>2, <1>0, <1>w, <1>m
  <2>2. CASE v # w
    <3>1. m # w /\ v \in fl[m] \cup al[m]
      BY <2>2, <1>2, <1>n
    <3>2. \E g \in Huts : m \in ntabs[g]
      BY <3>1 DEF Placed
    <3>3. \A g \in Huts : v \notin ntabs[g]
      BY <3>1 DEF Placed
    <3>4. \A q \in Windows : v \in nfl[q] \cup nal[q] => q = m
      BY <3>1, <1>n, <2>2 DEF Placed
    <3> QED BY <3>2, <3>3, <3>4
  <2> QED BY <2>1, <2>2
<1>3. \A m, v \in Windows : v \in nfl[m] => v \notin nal[m]
  <2> SUFFICES ASSUME NEW m \in Windows, NEW v \in Windows, v \in nfl[m], v \in nal[m]
               PROVE  FALSE
    OBVIOUS
  <2>1. CASE v = w
    BY <2>1
  <2>2. CASE v # w
    BY <2>2 DEF Placed
  <2> QED BY <2>1, <2>2
<1>4. ASSUME NEW v \in Windows
      PROVE  Listed(v, ntabs, nfl, nal) <=>
                Listed(v, tabs, fl, al) /\ v \notin fl[w] \cup al[w]
  <2>1. CASE v = w
    <3>1. w \in nfl[p] \cup nal[p]
      BY <1>0
    <3> QED BY <2>1, <3>1, <1>0 DEF Listed
  <2>2. CASE v # w
    <3>1. ASSUME Listed(v, ntabs, nfl, nal)
          PROVE  Listed(v, tabs, fl, al) /\ v \notin fl[w] \cup al[w]
      <4>1. CASE \E g \in Huts : v \in ntabs[g]
        BY <4>1 DEF Listed, Placed
      <4>2. CASE \E m \in Windows : v \in nfl[m] \cup nal[m]
        BY <4>2, <2>2, <1>n DEF Listed, Placed
      <4> QED BY <3>1, <4>1, <4>2 DEF Listed
    <3>2. ASSUME Listed(v, tabs, fl, al), v \notin fl[w] \cup al[w]
          PROVE  Listed(v, ntabs, nfl, nal)
      BY <3>2, <2>2 DEF Listed
    <3> QED BY <3>1, <3>2
  <2> QED BY <2>1, <2>2
<1>5. \A v \in Windows : Listed(v, ntabs, nfl, nal) => v \in alive
  BY <1>4 DEF Attended
<1>6. \A v \in Windows : v \in alive /\ ~Listed(v, ntabs, nfl, nal) =>
                            v \in sent \cup (fl[w] \cup al[w])
  BY <1>4 DEF Attended
<1>7. ASSUME NEW v \in Windows, v \in ndock PROVE \E m \in Windows : v \in nfl[m]
  <2>1. CASE v = w /\ floats
    <3>1. w \in nfl[p]
      BY <2>1, <1>0
    <3> QED BY <2>1, <3>1, <1>0
  <2>2. CASE v \in dock /\ v \notin fl[w] \cup al[w] /\ v # w
    <3>1. PICK m \in Windows : v \in fl[m]
      BY <2>2 DEF Attended
    <3>2. m # w /\ v \in nfl[m]
      BY <3>1, <2>2
    <3> QED BY <3>2
  <2> QED BY <1>7, <2>1, <2>2
<1>8. Placed(ntabs, nfl, nal)
  BY <1>1, <1>2, <1>3 DEF Placed
<1>9. Attended(ntabs, nfl, nal, alive, sent \cup (fl[w] \cup al[w]), ndock)
  BY <1>5, <1>6, <1>7 DEF Attended
<1> QED BY <1>8, <1>9

\* The windows of a hut go with it, all of them asked to close.
HutGoes(tabs, fl, al, h, ntabs, nfl, nal) ==
    /\ tabs \in [Huts -> SUBSET Windows] /\ ntabs \in [Huts -> SUBSET Windows]
    /\ fl \in [Windows -> SUBSET Windows] /\ nfl \in [Windows -> SUBSET Windows]
    /\ al \in [Windows -> SUBSET Windows] /\ nal \in [Windows -> SUBSET Windows]
    /\ h \in Huts
    /\ \A g \in Huts : ntabs[g] = IF g = h THEN {} ELSE tabs[g]
    /\ \A m \in Windows : nfl[m] = IF m \in tabs[h] THEN {} ELSE fl[m]
    /\ \A m \in Windows : nal[m] = IF m \in tabs[h] THEN {} ELSE al[m]

\* Places and attention are kept when a hut goes.
LEMMA PlaceHutGone ==
    ASSUME NEW tabs, NEW fl, NEW al, NEW alive, NEW sent, NEW dock,
           Placed(tabs, fl, al), Attended(tabs, fl, al, alive, sent, dock),
           NEW h, NEW ntabs, NEW nfl, NEW nal,
           HutGoes(tabs, fl, al, h, ntabs, nfl, nal)
    PROVE  /\ Placed(ntabs, nfl, nal)
           /\ Attended(ntabs, nfl, nal, alive,
                       sent \cup tabs[h] \cup (UNION {fl[m] : m \in tabs[h]})
                            \cup (UNION {al[m] : m \in tabs[h]}),
                       dock \ UNION {fl[m] : m \in tabs[h]})
<1> DEFINE nsent == sent \cup tabs[h] \cup (UNION {fl[m] : m \in tabs[h]})
                         \cup (UNION {al[m] : m \in tabs[h]})
           ndock == dock \ UNION {fl[m] : m \in tabs[h]}
<1> USE DEF HutGoes
<1>1. Placed(ntabs, nfl, nal)
  BY DEF Placed
<1>2. ASSUME NEW v \in Windows, Listed(v, ntabs, nfl, nal)
      PROVE  Listed(v, tabs, fl, al)
  BY <1>2 DEF Listed
<1>3. ASSUME NEW v \in Windows, Listed(v, tabs, fl, al), ~Listed(v, ntabs, nfl, nal)
      PROVE  v \in nsent
  <2>1. CASE \E g \in Huts : v \in tabs[g]
    <3>1. v \in tabs[h]
      BY <2>1, <1>3 DEF Listed
    <3> QED BY <3>1
  <2>2. CASE \E m \in Windows : v \in fl[m] \cup al[m]
    <3>1. PICK m \in Windows : v \in fl[m] \cup al[m]
      BY <2>2
    <3>2. m \in tabs[h]
      BY <3>1, <1>3 DEF Listed
    <3>3. fl[m] \in {fl[x] : x \in tabs[h]} /\ al[m] \in {al[x] : x \in tabs[h]}
      BY <3>2
    <3>4. v \in UNION {fl[x] : x \in tabs[h]} \/ v \in UNION {al[x] : x \in tabs[h]}
      BY <3>1, <3>3, Zenon
    <3> QED BY <3>4, Zenon
  <2> QED BY <1>3, <2>1, <2>2 DEF Listed
<1>4. ASSUME NEW v \in Windows, v \in ndock PROVE \E m \in Windows : v \in nfl[m]
  <2>1. v \in dock /\ \A m \in tabs[h] : v \notin fl[m]
    BY <1>4
  <2>2. PICK m \in Windows : v \in fl[m]
    BY <2>1 DEF Attended
  <2>3. v \in nfl[m]
    BY <2>1, <2>2
  <2> QED BY <2>3
<1>6. sent \subseteq nsent
  OBVIOUS
<1> HIDE DEF nsent, ndock
<1>5. Attended(ntabs, nfl, nal, alive, nsent, ndock)
  BY <1>2, <1>3, <1>4, <1>6 DEF Attended
<1> QED BY <1>1, <1>5 DEF nsent, ndock

-----------------------------------------------------------------------------
(* The inductive invariant.                                                *)

HutTypes == phase \in [Huts -> {"unborn", "live", "gone"}] /\ focused \in Huts

LifeTypes == life \in [Windows -> {"unborn", "alive", "dead"}] /\ asked \subseteq Windows

TabTypes ==
    /\ mains \in [Huts -> Seq(Windows)]
    /\ active \in [Huts -> Nat \ {0}]
    /\ terminal \in [Huts -> BOOLEAN]

ChildTypes ==
    /\ floating \in [Windows -> SUBSET Windows]
    /\ alerts \in [Windows -> SUBSET Windows]
    /\ docked \subseteq Windows

SpaceType == space \in [Huts -> SUBSET Windows]

KeyboardType == keyboard \in Windows \cup {None}

PointerTypes ==
    /\ button \in BOOLEAN
    /\ clicked \in BOOLEAN
    /\ dockDrag \in [hut : Huts, window : Windows, detached : BOOLEAN] \cup {None}
    /\ grab \in [hut : Huts, window : Windows, floats : BOOLEAN] \cup {None}
    /\ dragging \in Huts \cup {None}

\* What the type invariant says, in the form the steps use.
LEMMA Types ==
    TypeOK <=> /\ HutTypes /\ LifeTypes /\ TabTypes /\ ChildTypes
               /\ SpaceType /\ KeyboardType /\ PointerTypes
  BY DEF TypeOK, HutTypes, LifeTypes, TabTypes, ChildTypes, SpaceType, KeyboardType, PointerTypes

\* Only a live hut has tabs; a hut with tabs has an active one, and one without
\* shows its terminal.
ListsInv ==
    \A h \in Huts :
        /\ IsInjective(mains[h])
        /\ mains[h] # <<>> => phase[h] = "live" /\ active[h] \in 1..Len(mains[h])
        /\ ~terminal[h] => mains[h] # <<>>

TabSets == [h \in Huts |-> Tabs(h)]

PlacedInv   == Placed(TabSets, floating, alerts)
AttendedInv == Attended(TabSets, floating, alerts, Alive, asked, docked)

\* What the lists of tabs and children have to keep, ...
ListsHalf == /\ HutTypes /\ LifeTypes /\ TabTypes /\ ChildTypes
             /\ ListsInv /\ PlacedInv /\ AttendedInv

\* ... and what the space, the keyboard and the drags have to.
ViewHalf == SpaceType /\ KeyboardType /\ PointerTypes /\ MarkMeansDrag /\ KeyboardOnView

IInv == ListsHalf /\ ViewHalf

-----------------------------------------------------------------------------
(* What the resyncs compute.                                               *)

\* The tabs of a hut, as sets of toplevels.
LEMMA TabSetsType == TabTypes => TabSets \in [Huts -> SUBSET Windows]
<1> SUFFICES ASSUME TabTypes, NEW h \in Huts PROVE Tabs(h) \subseteq Windows
  BY DEF TabSets
<1>1. mains[h] \in Seq(Windows)
  BY DEF TabTypes
<1> QED BY <1>1 DEF Tabs, ToSet

\* The active tab is a tab, if there is one.
LEMMA ActiveTabType ==
    ASSUME TabTypes, NEW h \in Huts
    PROVE  /\ ActiveTab(h) \in Windows \cup {None}
           /\ ActiveTab(h) # None => ActiveTab(h) \in Tabs(h)
           /\ Tabs(h) \subseteq Windows
<1>1. mains[h] \in Seq(Windows)
  BY DEF TabTypes
<1> QED BY <1>1, NamesAssumption DEF ActiveTab, Tabs, ToSet

\* What a hut shows are toplevels.
LEMMA ShownType ==
    ASSUME TabTypes, ChildTypes, NEW h \in Huts, NEW d
    PROVE  Shown(h, d) \subseteq Windows
<1>1. CASE terminal[h] \/ ActiveTab(h) = None
  BY <1>1 DEF Shown
<1>2. CASE ~(terminal[h] \/ ActiveTab(h) = None)
  <2>1. ActiveTab(h) \in Windows
    BY <1>2, ActiveTabType
  <2> QED BY <1>2, <2>1 DEF Shown, ChildTypes
<1> QED BY <1>1, <1>2

\* What sync_main_window_space leaves is typed.
LEMMA SyncSpaceType ==
    ASSUME TabTypes', ChildTypes', SpaceType, NEW h \in Huts, SyncSpace(h)
    PROVE  SpaceType'
<1>1. Shown(h, docked)' \subseteq Windows
  BY NamesAssumption DEF TabTypes, ChildTypes, Shown, ActiveTab
<1>2. space' = space \/ space' = [space EXCEPT ![h] = Shown(h, docked)']
  BY DEF SyncSpace
<1> QED BY <1>1, <1>2 DEF SpaceType

\* After a repair of the keyboard, whatever it was on: a live window with the
\* focus is on view.
LEMMA SyncKeyboardFacts ==
    ASSUME TabTypes', SpaceType', HutTypes', NEW k, SyncKeyboard(k)
    PROVE  KeyboardType' /\ KeyboardOnView'
<1>1. CASE k \in space'[focused']
  BY <1>1 DEF SyncKeyboard, KeyboardType, KeyboardOnView, SpaceType, HutTypes
<1>2. CASE k \notin space'[focused']
  <2>1. keyboard' = ViewTarget'
    BY <1>2 DEF SyncKeyboard
  <2>2. ViewTarget' = None \/ ViewTarget' = ActiveTab(focused)'
    BY DEF ViewTarget
  <2>3. ActiveTab(focused)' \in Windows \cup {None}
    BY DEF ActiveTab, TabTypes, HutTypes
  <2>4. None \notin Alive'
    BY NamesAssumption DEF Alive
  <2>5. KeyboardType'
    BY <2>1, <2>2, <2>3 DEF KeyboardType
  <2>6. KeyboardOnView'
    BY <2>1, <2>2, <2>4 DEF KeyboardOnView
  <2> QED BY <2>5, <2>6
<1> QED BY <1>1, <1>2

\* The view half after a step that leaves the drags alone and ends with both
\* resyncs.
LEMMA SyncedView ==
    ASSUME ListsHalf', ViewHalf, UNCHANGED pointerVars,
           NEW h \in Huts, SyncSpace(h), NEW k, SyncKeyboard(k)
    PROVE  ViewHalf'
<1>1. SpaceType'
  BY SyncSpaceType DEF ListsHalf, ViewHalf
<1>2. KeyboardType' /\ KeyboardOnView'
  BY <1>1, SyncKeyboardFacts DEF ListsHalf
<1>3. PointerTypes' /\ MarkMeansDrag'
  BY DEF ViewHalf, PointerTypes, MarkMeansDrag, pointerVars
<1> QED BY <1>1, <1>2, <1>3 DEF ViewHalf

\* The lists half of a step that moves no window: it may dock Floating Windows,
\* and change which tab of a hut is active or whether its terminal shows.
LEMMA ListsKept ==
    ASSUME ListsHalf, UNCHANGED <<lifeVars, mains, floating, alerts>>,
           HutTypes', \A h \in Live : phase'[h] = "live",
           active' \in [Huts -> Nat \ {0}], terminal' \in [Huts -> BOOLEAN],
           \A h \in Huts : /\ mains[h] # <<>> => active'[h] \in 1..Len(mains[h])
                           /\ ~terminal'[h] => mains[h] # <<>>,
           \A w \in docked' : w \in docked \/ \E m \in Windows : w \in floating[m]
    PROVE  ListsHalf'
<1>1. LifeTypes' /\ TabTypes' /\ ChildTypes'
  BY DEF ListsHalf, LifeTypes, TabTypes, ChildTypes, lifeVars
<1>2. ListsInv'
  BY DEF ListsHalf, ListsInv, Live
<1>3. TabSets' = TabSets /\ Alive' = Alive /\ asked' = asked
  BY DEF TabSets, Tabs, Alive, lifeVars
<1>4. PlacedInv'
  BY <1>3 DEF ListsHalf, PlacedInv
<1>5. AttendedInv'
  BY <1>1, <1>3 DEF ListsHalf, AttendedInv, Attended, Listed, ChildTypes
<1> QED BY <1>1, <1>2, <1>4, <1>5 DEF ListsHalf

\* ... in particular of one that changes no list, tab or dock at all.
LEMMA ListsUntouched ==
    ASSUME ListsHalf, UNCHANGED <<phase, lifeVars, tabVars, childVars>>, focused' \in Huts
    PROVE  ListsHalf'
<1>1. HutTypes' /\ \A h \in Live : phase'[h] = "live"
  BY DEF ListsHalf, HutTypes, Live
<1>2. /\ active' \in [Huts -> Nat \ {0}]
      /\ terminal' \in [Huts -> BOOLEAN]
      /\ \A h \in Huts : /\ mains[h] # <<>> => active'[h] \in 1..Len(mains[h])
                         /\ ~terminal'[h] => mains[h] # <<>>
  BY DEF ListsHalf, TabTypes, ListsInv, tabVars
<1> QED BY <1>1, <1>2, ListsKept DEF tabVars, childVars

-----------------------------------------------------------------------------
(* Keys.                                                                   *)

\* ToggleTerminal keeps the inductive invariant.
LEMMA ToggleTerminalKeeps == ASSUME IInv, ToggleTerminal PROVE IInv'
<1>1. ListsHalf'
  <2> USE DEF IInv, ListsHalf, ToggleTerminal, hutVars
  <2>1. HutTypes' /\ \A h \in Live : phase'[h] = "live"
    BY DEF HutTypes, Live
  <2>2. /\ active' \in [Huts -> Nat \ {0}]
        /\ terminal' \in [Huts -> BOOLEAN]
        /\ \A h \in Huts : /\ mains[h] # <<>> => active'[h] \in 1..Len(mains[h])
                           /\ ~terminal'[h] => mains[h] # <<>>
    BY DEF TabTypes, ListsInv, HutTypes
  <2> QED BY <2>1, <2>2, ListsKept DEF childVars
<1>2. ViewHalf'
  BY <1>1, SyncedView DEF IInv, ListsHalf, HutTypes, ToggleTerminal, Sync
<1> QED BY <1>1, <1>2 DEF IInv

\* A cycled index stays in the list.
LEMMA CycledInRange ==
    ASSUME NEW n \in Nat, n >= 2, NEW a \in 1..n, NEW step \in {-1, 1}
    PROVE  ((a - 1 + n + step) % n) + 1 \in 1..n
<1>1. \A x \in Nat : x % n \in 0..(n - 1)
  BY n \in Nat \ {0}
<1>2. a - 1 + n + step \in Nat
  OBVIOUS
<1> QED BY <1>1, <1>2

\* CycleTab keeps the inductive invariant.
LEMMA CycleTabKeeps == ASSUME IInv, NEW step \in {-1, 1}, CycleTab(step) PROVE IInv'
<1>1. ListsHalf'
  <2> USE DEF IInv, ListsHalf, CycleTab, hutVars
  <2>1. HutTypes' /\ \A h \in Live : phase'[h] = "live"
    BY DEF HutTypes, Live
  <2> DEFINE n == Len(mains[focused])
  <2>2. focused \in Huts /\ mains[focused] # <<>> /\ n \in Nat /\ n >= 2
    BY DEF HutTypes, TabTypes
  <2>3. active[focused] \in 1..n
    BY <2>2 DEF ListsInv
  <2>4. active'[focused] \in 1..n
    BY <2>2, <2>3, CycledInRange DEF TabTypes
  <2>5. active' \in [Huts -> Nat \ {0}]
    BY <2>2, <2>4 DEF TabTypes
  <2>6. /\ terminal' \in [Huts -> BOOLEAN]
        /\ \A h \in Huts : /\ mains[h] # <<>> => active'[h] \in 1..Len(mains[h])
                           /\ ~terminal'[h] => mains[h] # <<>>
    BY <2>2, <2>4 DEF TabTypes, ListsInv
  <2> QED BY <2>1, <2>5, <2>6, ListsKept DEF childVars
<1>2. ViewHalf'
  BY <1>1, SyncedView DEF IInv, ListsHalf, HutTypes, CycleTab, Sync
<1> QED BY <1>1, <1>2 DEF IInv

\* FocusHut keeps the inductive invariant.
LEMMA FocusHutKeeps == ASSUME IInv, NEW h \in Huts, FocusHut(h) PROVE IInv'
<1>1. ListsHalf'
  BY ListsUntouched DEF IInv, FocusHut
<1>2. ViewHalf'
  BY <1>1, SyncedView DEF IInv, FocusHut, Sync
<1> QED BY <1>1, <1>2 DEF IInv

\* SpawnHut keeps the inductive invariant.
LEMMA SpawnHutKeeps == ASSUME IInv, NEW h \in Huts, SpawnHut(h) PROVE IInv'
<1>1. ListsHalf'
  <2> USE DEF IInv, ListsHalf, SpawnHut
  <2>1. HutTypes' /\ \A g \in Live : phase'[g] = "live"
    BY DEF HutTypes, Live
  <2>2. /\ active' \in [Huts -> Nat \ {0}]
        /\ terminal' \in [Huts -> BOOLEAN]
        /\ \A g \in Huts : /\ mains[g] # <<>> => active'[g] \in 1..Len(mains[g])
                           /\ ~terminal'[g] => mains[g] # <<>>
    BY DEF TabTypes, ListsInv, tabVars
  <2> QED BY <2>1, <2>2, ListsKept DEF childVars, tabVars
<1>2. ViewHalf'
  BY <1>1, SyncedView DEF IInv, SpawnHut, Sync
<1> QED BY <1>1, <1>2 DEF IInv

-----------------------------------------------------------------------------
(* The pointer, frames and thumbnails.                                     *)

\* Nothing but the focus and the press changes.
LEMMA PressedView ==
    ASSUME ListsHalf', ViewHalf, UNCHANGED <<space, dockDrag, grab, dragging>>,
           button' \in BOOLEAN, clicked' \in BOOLEAN, NEW k, SyncKeyboard(k)
    PROVE  ViewHalf'
<1>1. SpaceType'
  BY DEF ViewHalf, SpaceType
<1>2. KeyboardType' /\ KeyboardOnView'
  BY <1>1, SyncKeyboardFacts DEF ListsHalf
<1>3. PointerTypes' /\ MarkMeansDrag'
  BY DEF ViewHalf, PointerTypes, MarkMeansDrag
<1> QED BY <1>1, <1>2, <1>3 DEF ViewHalf

\* PressTab keeps the inductive invariant.
LEMMA PressTabKeeps ==
    ASSUME IInv, NEW i \in 0..Len(mains[focused]), NEW u \in BOOLEAN, PressTab(i, u)
    PROVE  IInv'
<1>1. ListsHalf'
  <2> USE DEF IInv, ListsHalf, PressTab, hutVars
  <2>1. HutTypes' /\ \A h \in Live : phase'[h] = "live"
    BY DEF HutTypes, Live
  <2>2. focused \in Huts /\ mains[focused] \in Seq(Windows)
    BY DEF HutTypes, TabTypes
  <2>3. CASE i = 0
    <3>1. /\ active' \in [Huts -> Nat \ {0}]
          /\ terminal' \in [Huts -> BOOLEAN]
          /\ \A h \in Huts : /\ mains[h] # <<>> => active'[h] \in 1..Len(mains[h])
                             /\ ~terminal'[h] => mains[h] # <<>>
      BY <2>2, <2>3 DEF TabTypes, ListsInv
    <3> QED BY <2>1, <3>1, ListsKept DEF childVars
  <2>4. CASE i # 0
    <3>1. i \in 1..Len(mains[focused]) /\ mains[focused] # <<>>
      BY <2>2, <2>4
    <3>2. active' = [active EXCEPT ![focused] = i] /\ terminal' = [terminal EXCEPT ![focused] = FALSE]
      BY <2>4
    <3>3. /\ active' \in [Huts -> Nat \ {0}]
          /\ terminal' \in [Huts -> BOOLEAN]
      BY <2>2, <3>1, <3>2 DEF TabTypes
    <3>4. \A h \in Huts : /\ mains[h] # <<>> => active'[h] \in 1..Len(mains[h])
                          /\ ~terminal'[h] => mains[h] # <<>>
      BY <2>2, <3>1, <3>2 DEF TabTypes, ListsInv
    <3> QED BY <2>1, <3>3, <3>4, ListsKept DEF childVars
  <2> QED BY <2>3, <2>4
<1>2. SpaceType'
  BY <1>1, SyncSpaceType DEF IInv, ViewHalf, ListsHalf, HutTypes, PressTab, Sync
<1>3. KeyboardType' /\ KeyboardOnView'
  BY <1>1, <1>2, SyncKeyboardFacts DEF ListsHalf, PressTab, Sync
<1>4. PointerTypes' /\ MarkMeansDrag'
  BY DEF IInv, ViewHalf, PointerTypes, MarkMeansDrag, PressTab
<1> QED BY <1>1, <1>2, <1>3, <1>4 DEF IInv, ViewHalf

\* PressElsewhere keeps the inductive invariant.
LEMMA PressElsewhereKeeps ==
    ASSUME IInv, NEW t, PressElsewhere(t) PROVE IInv'
<1>1. ListsHalf'
  BY ListsUntouched DEF IInv, PressElsewhere, hutVars, ListsHalf, HutTypes
<1>2. ViewHalf'
  BY <1>1, PressedView DEF IInv, PressElsewhere
<1> QED BY <1>1, <1>2 DEF IInv

\* PressWindow keeps the inductive invariant.
LEMMA PressWindowKeeps ==
    ASSUME IInv, NEW w \in Windows, PressWindow(w) PROVE IInv'
<1>1. ListsHalf'
  BY ListsUntouched DEF IInv, PressWindow, hutVars, ListsHalf, HutTypes
<1>2. ViewHalf'
  BY <1>1, PressedView DEF IInv, PressWindow
<1> QED BY <1>1, <1>2 DEF IInv

\* StartDrag keeps the inductive invariant.
LEMMA StartDragKeeps ==
    ASSUME IInv, NEW w \in Windows, NEW u \in BOOLEAN, StartDrag(w, u) PROVE IInv'
<1>1. ListsHalf'
  BY ListsUntouched DEF IInv, StartDrag, hutVars, ListsHalf, HutTypes
<1>2. SpaceType'
  BY DEF IInv, ViewHalf, SpaceType, StartDrag
<1>3. KeyboardType' /\ KeyboardOnView'
  BY <1>1, <1>2, SyncKeyboardFacts DEF ListsHalf, StartDrag
<1>4. focused \in Huts
  BY DEF IInv, ListsHalf, HutTypes
<1>5. PointerTypes'
  BY <1>4 DEF IInv, ViewHalf, PointerTypes, StartDrag
<1>6. dockDrag' # None /\ dockDrag'.hut = dragging' /\ dragging' # None
  <2>1. dockDrag' \in [hut : Huts, window : Windows, detached : BOOLEAN]
    BY <1>4 DEF StartDrag
  <2> QED BY <2>1, <1>4, NamesAssumption, NoneAssumption DEF StartDrag
<1>7. MarkMeansDrag'
  BY <1>6 DEF MarkMeansDrag
<1> QED BY <1>1, <1>2, <1>3, <1>5, <1>7 DEF IInv, ViewHalf

\* Where a drag that ends leaves its window.
LEMMA LandingTypes ==
    ASSUME TabTypes, ChildTypes, NEW drag, drag.hut \in Huts, drag.window \in Windows,
           NEW sp \in [Huts -> SUBSET Windows], NEW dock \in SUBSET Windows,
           NEW r \in Landings(drag, sp, dock)
    PROVE  /\ r.space \in [Huts -> SUBSET Windows]
           /\ r.docked \subseteq Windows
           /\ \A w \in r.docked : w \in dock \/ \E m \in Windows : w \in floating[m]
<1>1. CASE drag.hut \notin Live \/ drag.window \notin sp[drag.hut]
  BY <1>1 DEF Landings
<1>2. CASE ~(drag.hut \notin Live \/ drag.window \notin sp[drag.hut])
  <2>1. PICK d : /\ r = [space |-> [sp EXCEPT ![drag.hut] = Shown(drag.hut, d)], docked |-> d]
                 /\ d \in IF drag.window \in FloatsOf(drag.hut)
                            THEN {dock \cup {drag.window}, dock \ {drag.window}}
                            ELSE {dock}
    BY <1>2 DEF Landings
  <2>2. Shown(drag.hut, d) \subseteq Windows
    BY ShownType
  <2>3. d \subseteq Windows
    BY <2>1
  <2>4. Tabs(drag.hut) \subseteq Windows
    BY ActiveTabType
  <2>5. \A w \in d : w \in dock \/ \E m \in Windows : w \in floating[m]
    BY <2>1, <2>4 DEF FloatsOf
  <2> QED BY <2>1, <2>2, <2>3, <2>5
<1> QED BY <1>1, <1>2

\* Where a moved window lands is typed, and only floating ones dock.
LEMMA MoveLandingTypes ==
    ASSUME TabTypes, ChildTypes, PointerTypes,
           NEW sp \in [Huts -> SUBSET Windows], NEW dock \in SUBSET Windows,
           NEW r \in MoveLandings(sp, dock)
    PROVE  /\ r.space \in [Huts -> SUBSET Windows]
           /\ r.docked \subseteq Windows
           /\ \A w \in r.docked : w \in dock \/ \E m \in Windows : w \in floating[m]
<1>1. CASE grab # None /\ grab.floats
  <2>1. grab.hut \in Huts /\ grab.window \in Windows
    BY <1>1 DEF PointerTypes
  <2>2. r \in Landings(grab, sp, dock)
    BY <1>1 DEF MoveLandings
  <2> QED BY <2>1, <2>2, LandingTypes
<1>2. CASE ~(grab # None /\ grab.floats)
  BY <1>2 DEF MoveLandings, Unchanged
<1> QED BY <1>1, <1>2

\* Where a dropped window lands is typed, and only floating ones dock.
LEMMA DockLandingTypes ==
    ASSUME TabTypes, ChildTypes, PointerTypes,
           NEW sp \in [Huts -> SUBSET Windows], NEW dock \in SUBSET Windows,
           NEW r \in DockLandings(sp, dock)
    PROVE  /\ r.space \in [Huts -> SUBSET Windows]
           /\ r.docked \subseteq Windows
           /\ \A w \in r.docked : w \in dock \/ \E m \in Windows : w \in floating[m]
<1> DEFINE lands == dockDrag # None /\ dockDrag.detached /\ HutOf(dockDrag.window) # {}
<1>1. CASE lands
  <2>1. dockDrag.hut \in Huts /\ dockDrag.window \in Windows
    BY <1>1 DEF PointerTypes
  <2>2. r \in Landings(dockDrag, sp, dock)
    BY <1>1 DEF DockLandings
  <2> QED BY <2>1, <2>2, LandingTypes
<1>2. CASE ~lands
  BY <1>2 DEF DockLandings, Unchanged
<1> QED BY <1>1, <1>2

\* A step of a drag that may dock Floating Windows.
LEMMA DragLists ==
    ASSUME ListsHalf, UNCHANGED <<phase, lifeVars, tabVars, floating, alerts>>, focused' \in Huts,
           \A w \in docked' : w \in docked \/ \E m \in Windows : w \in floating[m]
    PROVE  ListsHalf'
<1>1. HutTypes' /\ \A h \in Live : phase'[h] = "live"
  BY DEF ListsHalf, HutTypes, Live
<1>2. /\ active' \in [Huts -> Nat \ {0}]
      /\ terminal' \in [Huts -> BOOLEAN]
      /\ \A h \in Huts : /\ mains[h] # <<>> => active'[h] \in 1..Len(mains[h])
                         /\ ~terminal'[h] => mains[h] # <<>>
  BY DEF ListsHalf, TabTypes, ListsInv, tabVars
<1> QED BY <1>1, <1>2, ListsKept DEF tabVars

\* MoveRequest keeps the inductive invariant.
LEMMA MoveRequestKeeps ==
    ASSUME IInv, NEW w \in Windows, MoveRequest(w) PROVE IInv'
<1>1. PICK r \in MoveLandings(space, docked) : space' = r.space /\ docked' = r.docked
  BY DEF MoveRequest
<1>2. /\ space' \in [Huts -> SUBSET Windows]
      /\ \A v \in docked' : v \in docked \/ \E m \in Windows : v \in floating[m]
  BY <1>1, MoveLandingTypes DEF IInv, ListsHalf, ViewHalf, SpaceType, ChildTypes
<1>3. ListsHalf'
  BY <1>2, DragLists DEF IInv, MoveRequest, hutVars, ListsHalf, HutTypes
<1>4. SpaceType'
  BY <1>2 DEF SpaceType
<1>5. KeyboardType' /\ KeyboardOnView'
  BY <1>3, <1>4, SyncKeyboardFacts DEF ListsHalf, MoveRequest
<1>6. focused \in Huts
  BY DEF IInv, ListsHalf, HutTypes
<1>7. grab' \in [hut : Huts, window : Windows, floats : BOOLEAN]
  BY <1>6 DEF MoveRequest
<1>8. PointerTypes'
  BY <1>6, <1>7 DEF IInv, ViewHalf, PointerTypes, MoveRequest
<1>9. grab' # None /\ grab'.hut = dragging' /\ dragging' # None
  BY <1>6, <1>7, NamesAssumption, NoneAssumption DEF MoveRequest
<1>10. MarkMeansDrag'
  BY <1>9 DEF MarkMeansDrag
<1> QED BY <1>3, <1>4, <1>5, <1>8, <1>10 DEF IInv, ViewHalf

\* Release keeps the inductive invariant.
LEMMA ReleaseKeeps == ASSUME IInv, Release PROVE IInv'
<1>1. PICK d \in DockLandings(space, docked) :
        \E r \in MoveLandings(d.space, d.docked) : space' = r.space /\ docked' = r.docked
  BY DEF Release
<1>2. PICK r \in MoveLandings(d.space, d.docked) : space' = r.space /\ docked' = r.docked
  BY <1>1
<1>3. /\ d.space \in [Huts -> SUBSET Windows]
      /\ d.docked \subseteq Windows
      /\ \A v \in d.docked : v \in docked \/ \E m \in Windows : v \in floating[m]
  BY DockLandingTypes DEF IInv, ListsHalf, ViewHalf, SpaceType, ChildTypes
<1>4. /\ r.space \in [Huts -> SUBSET Windows]
      /\ \A v \in r.docked : v \in d.docked \/ \E m \in Windows : v \in floating[m]
  BY <1>3, MoveLandingTypes DEF IInv, ListsHalf, ViewHalf
<1>5. /\ space' \in [Huts -> SUBSET Windows]
      /\ \A v \in docked' : v \in docked \/ \E m \in Windows : v \in floating[m]
  BY <1>2, <1>3, <1>4
<1>6. ListsHalf'
  BY <1>5, DragLists DEF IInv, Release, hutVars, ListsHalf, HutTypes
<1>7. SpaceType'
  BY <1>5 DEF SpaceType
<1>8. KeyboardType' /\ KeyboardOnView'
  BY <1>6, <1>7, SyncKeyboardFacts DEF ListsHalf, Release
<1>9. PointerTypes' /\ MarkMeansDrag'
  BY DEF IInv, ViewHalf, PointerTypes, MarkMeansDrag, Release, MarkAfterDrag
<1> QED BY <1>6, <1>7, <1>8, <1>9 DEF IInv, ViewHalf

\* A docked window that is pulled off its dock: what is mapped, and that the
\* drag stays on the same hut.
LEMMA AdvancedTypes ==
    ASSUME TabTypes, ChildTypes, PointerTypes,
           NEW sp \in [Huts -> SUBSET Windows], NEW r \in Advanced(sp)
    PROVE  /\ r.space \in [Huts -> SUBSET Windows]
           /\ r.docked \subseteq docked
           /\ r.drag \in [hut : Huts, window : Windows, detached : BOOLEAN] \cup {None}
           /\ r.drag # None <=> dockDrag # None
           /\ dockDrag # None => r.drag.hut = dockDrag.hut
<1>1. CASE dockDrag = None
  BY <1>1 DEF Advanced
<1>2. CASE dockDrag # None
  <2>1. dockDrag \in [hut : Huts, window : Windows, detached : BOOLEAN]
    BY <1>2 DEF PointerTypes
  <2>2. dockDrag.hut \in Huts /\ dockDrag.window \in Windows
    BY <2>1
  <2> DEFINE moved == [dockDrag EXCEPT !.detached = TRUE]
  <2>3. moved \in [hut : Huts, window : Windows, detached : BOOLEAN] /\ moved.hut = dockDrag.hut
    BY <2>1
  <2>4. moved # None
    BY <2>3, NoneAssumption
  <2>5. Shown(dockDrag.hut, docked \ {dockDrag.window}) \subseteq Windows
    BY <2>2, ShownType
  <2> HIDE DEF moved
  <2>6. r \in {[space |-> sp, docked |-> docked, drag |-> dockDrag],
               [space |-> IF dockDrag.window \in FloatsOf(dockDrag.hut)
                            THEN [sp EXCEPT ![dockDrag.hut] = @ \cup {dockDrag.window}] ELSE sp,
                docked |-> docked, drag |-> dockDrag],
               [space |-> [sp EXCEPT ![dockDrag.hut] =
                             Shown(dockDrag.hut, docked \ {dockDrag.window})],
                docked |-> IF dockDrag.window \in FloatsOf(dockDrag.hut)
                             THEN docked \ {dockDrag.window} ELSE docked,
                drag |-> moved]}
    BY <1>2 DEF Advanced, moved
  <2>7. r.space \in [Huts -> SUBSET Windows] /\ r.docked \subseteq docked
    BY <2>2, <2>5, <2>6
  <2>8. r.drag = dockDrag \/ r.drag = moved
    BY <2>6
  <2> QED BY <1>2, <2>1, <2>3, <2>4, <2>7, <2>8
<1> QED BY <1>1, <1>2

\* DragMotion keeps the inductive invariant.
LEMMA DragMotionKeeps == ASSUME IInv, NEW h \in Huts, DragMotion(h) PROVE IInv'
<1> DEFINE crossed == IF h = focused \/ dragging = h THEN space
                      ELSE [space EXCEPT ![h] = Shown(h, docked)]
           moved(sp) == IF grab # None /\ grab.hut \in Live
                          THEN [sp EXCEPT ![grab.hut] = @ \cup {grab.window}] ELSE sp
<1>1. TabTypes /\ ChildTypes /\ PointerTypes /\ SpaceType
  BY DEF IInv, ListsHalf, ViewHalf
<1>2. crossed \in [Huts -> SUBSET Windows]
  BY <1>1, ShownType DEF SpaceType
<1>3. PICK r \in Advanced(crossed) :
        docked' = r.docked /\ dockDrag' = r.drag /\ space' = moved(r.space)
  BY DEF DragMotion
<1> HIDE DEF crossed
<1>4. /\ r.space \in [Huts -> SUBSET Windows]
      /\ r.docked \subseteq docked
      /\ r.drag \in [hut : Huts, window : Windows, detached : BOOLEAN] \cup {None}
      /\ r.drag # None <=> dockDrag # None
      /\ dockDrag # None => r.drag.hut = dockDrag.hut
  BY <1>1, <1>2, AdvancedTypes
<1>5. ListsHalf'
  BY <1>3, <1>4, DragLists DEF IInv, DragMotion
<1>6. SpaceType'
  <2>1. grab # None => grab.hut \in Huts /\ grab.window \in Windows
    BY <1>1 DEF PointerTypes
  <2> QED BY <1>3, <1>4, <2>1 DEF SpaceType
<1>7. KeyboardType' /\ KeyboardOnView'
  BY <1>5, <1>6, SyncKeyboardFacts DEF ListsHalf, DragMotion
<1>8. PointerTypes'
  BY <1>1, <1>3, <1>4 DEF PointerTypes, DragMotion
<1>9. MarkMeansDrag'
  <2>1. UNCHANGED <<grab, dragging>> /\ (dockDrag' # None <=> dockDrag # None)
        /\ (dockDrag # None => dockDrag'.hut = dockDrag.hut)
    BY <1>3, <1>4 DEF DragMotion
  <2> QED BY <2>1 DEF IInv, ViewHalf, MarkMeansDrag
<1> QED BY <1>5, <1>6, <1>7, <1>8, <1>9 DEF IInv, ViewHalf

\* Frame keeps the inductive invariant.
LEMMA FrameKeeps == ASSUME IInv, NEW h \in Huts, Frame(h) PROVE IInv'
<1>1. ListsHalf'
  BY ListsUntouched DEF IInv, Frame, hutVars, ListsHalf, HutTypes
<1>2. SpaceType' /\ KeyboardType' /\ PointerTypes' /\ MarkMeansDrag'
  BY DEF IInv, ViewHalf, SpaceType, KeyboardType, PointerTypes, MarkMeansDrag, Frame, pointerVars
<1>3. KeyboardOnView'
  <2>1. focused \in Huts
    BY DEF IInv, ListsHalf, HutTypes
  <2>2. Alive' = Alive /\ ActiveTab(focused)' = ActiveTab(focused) /\ keyboard' = keyboard
    BY DEF Frame, Alive, ActiveTab, lifeVars, tabVars, hutVars
  <2>3. space[focused] \cap Alive \subseteq space'[focused] /\ focused' = focused
    BY <2>1 DEF IInv, ViewHalf, SpaceType, Frame, hutVars
  <2> QED BY <2>2, <2>3 DEF IInv, ViewHalf, KeyboardOnView
<1> QED BY <1>1, <1>2, <1>3 DEF IInv, ViewHalf

\* Thumbnail keeps the inductive invariant.
LEMMA ThumbnailKeeps == ASSUME IInv, NEW h \in Huts, Thumbnail(h) PROVE IInv'
<1>1. ListsHalf'
  BY ListsUntouched DEF IInv, Thumbnail, hutVars, ListsHalf, HutTypes
<1>2. Shown(h, docked) \subseteq Windows
  BY ShownType DEF IInv, ListsHalf
<1>3. SpaceType' /\ KeyboardType' /\ PointerTypes' /\ MarkMeansDrag'
  BY <1>2 DEF IInv, ViewHalf, SpaceType, KeyboardType, PointerTypes, MarkMeansDrag, Thumbnail,
              pointerVars
<1>4. KeyboardOnView'
  <2>1. focused \in Huts /\ h # focused
    BY DEF IInv, ListsHalf, HutTypes, Thumbnail
  <2>2. Alive' = Alive /\ ActiveTab(focused)' = ActiveTab(focused) /\ keyboard' = keyboard
    BY DEF Thumbnail, Alive, ActiveTab, lifeVars, tabVars, hutVars
  <2>3. space'[focused] = space[focused] /\ focused' = focused
    BY <2>1 DEF IInv, ViewHalf, SpaceType, Thumbnail, hutVars
  <2> QED BY <2>2, <2>3 DEF IInv, ViewHalf, KeyboardOnView
<1> QED BY <1>1, <1>3, <1>4 DEF IInv, ViewHalf

-----------------------------------------------------------------------------
(* Toplevels that open, go and are tagged, and shells that exit.           *)

\* What the action property says of one step and one hut.
TabKept(h) ==
    LET m == ActiveTab(h)
    IN mains[h] # mains'[h] /\ m # None =>
          \/ ActiveTab(h)' = m
          \/ m \notin Tabs(h)'
          \/ ActiveTab(h)' \in FloatsOf(h) \cup AlertsOf(h)

\* The active tab is the one the index names.
LEMMA ActiveTabIs ==
    ASSUME TabTypes, ListsInv, NEW h \in Huts, ActiveTab(h) # None
    PROVE  /\ active[h] \in 1..Len(mains[h])
           /\ ActiveTab(h) = mains[h][active[h]]
           /\ mains[h] # <<>>
           /\ mains[h] \in Seq(Windows)
<1>1. mains[h] \in Seq(Windows)
  BY DEF TabTypes
<1>2. active[h] \in DOMAIN mains[h]
  BY DEF ActiveTab
<1> QED BY <1>1, <1>2 DEF ActiveTab

\* NewToplevel keeps the inductive invariant.
LEMMA NewToplevelKeeps ==
    ASSUME IInv, NEW w \in Windows, NEW h \in Huts, NewToplevel(w, h)
    PROVE  IInv' /\ \A g \in Huts : TabKept(g)
<1> USE DEF IInv, ListsHalf
<1>0. TabSets \in [Huts -> SUBSET Windows]
  BY TabSetsType
<1>1. w \notin Alive /\ Alive' = Alive \cup {w} /\ life' \in [Windows -> {"unborn", "alive", "dead"}]
  BY DEF NewToplevel, Alive, LifeTypes
<1>2. w \notin Tabs(h)
  BY <1>0, <1>1 DEF AttendedInv, Attended, Listed, TabSets
<1>3. mains[h] \in Seq(Windows) /\ IsInjective(mains[h]) /\ Len(mains[h]) \in Nat
  BY DEF TabTypes, ListsInv
<1> DEFINE new == Append(mains[h], w)
<1>4. /\ new \in Seq(Windows)
      /\ IsInjective(new)
      /\ ToSet(new) = ToSet(mains[h]) \cup {w}
      /\ Len(new) = Len(mains[h]) + 1
      /\ \A j \in 1..Len(mains[h]) : new[j] = mains[h][j]
      /\ new[Len(mains[h]) + 1] = w
  BY <1>2, <1>3, Appended DEF Tabs
<1>5. mains' \in [Huts -> Seq(Windows)] /\ \A g \in Huts : mains'[g] = IF g = h THEN new ELSE mains[g]
  BY <1>4 DEF NewToplevel, TabTypes
<1> HIDE DEF new
<1>6. TabTypes'
  <2>1. active' \in [Huts -> Nat \ {0}]
    BY DEF NewToplevel, TabTypes
  <2>2. terminal' \in [Huts -> BOOLEAN]
    BY DEF NewToplevel, TabTypes
  <2> QED BY <1>5, <2>1, <2>2 DEF TabTypes
<1>7. HutTypes' /\ LifeTypes' /\ ChildTypes'
  BY <1>1 DEF NewToplevel, HutTypes, LifeTypes, ChildTypes, hutVars, childVars
<1>8. ListsInv'
  <2> SUFFICES ASSUME NEW g \in Huts
               PROVE  /\ IsInjective(mains'[g])
                      /\ mains'[g] # <<>> => phase'[g] = "live" /\ active'[g] \in 1..Len(mains'[g])
                      /\ ~terminal'[g] => mains'[g] # <<>>
    BY DEF ListsInv
  <2>1. CASE g # h
    <3>1. mains'[g] = mains[g] /\ active'[g] = active[g] /\ terminal'[g] = terminal[g]
          /\ phase'[g] = phase[g]
      BY <2>1, <1>5 DEF NewToplevel, TabTypes, hutVars
    <3> QED BY <3>1 DEF ListsInv
  <2>2. CASE g = h
    <3>1. mains'[g] = new /\ phase'[g] = "live"
      BY <2>2, <1>5 DEF NewToplevel, Live, hutVars
    <3>2. active'[g] = IF mains[h] = <<>> THEN 1 ELSE active[h]
      BY <2>2 DEF NewToplevel, TabTypes
    <3>3. new # <<>> /\ (mains[h] = <<>> => Len(mains[h]) = 0)
      BY <1>3, <1>4
    <3>4. active'[g] \in 1..Len(new)
      BY <3>2, <1>3, <1>4 DEF ListsInv
    <3> QED BY <3>1, <3>3, <3>4, <1>4
  <2> QED BY <2>1, <2>2
<1>9. PlacedInv' /\ AttendedInv'
  <2>1. TabSets' \in [Huts -> SUBSET Windows]
        /\ \A g \in Huts : TabSets'[g] = IF g = h THEN TabSets[h] \cup {w} ELSE TabSets[g]
    <3>1. \A g \in Huts : TabSets'[g] = IF g = h THEN TabSets[h] \cup {w} ELSE TabSets[g]
      BY <1>4, <1>5 DEF TabSets, Tabs
    <3>2. TabSets' = [g \in Huts |-> TabSets'[g]]
      BY DEF TabSets
    <3> QED BY <3>1, <3>2, <1>0
  <2>2. /\ floating \in [Windows -> SUBSET Windows]
        /\ alerts \in [Windows -> SUBSET Windows]
        /\ Placed(TabSets, floating, alerts)
        /\ Attended(TabSets, floating, alerts, Alive, asked, docked)
    BY DEF PlacedInv, AttendedInv, ChildTypes
  <2>3. /\ Placed(TabSets', floating, alerts)
        /\ Attended(TabSets', floating, alerts, Alive \cup {w}, asked, docked)
    BY <2>1, <2>2, <1>0, <1>1, PlaceNew
  <2>4. UNCHANGED <<floating, alerts, docked, asked>>
    BY DEF NewToplevel, childVars
  <2> QED BY <2>3, <2>4, <1>1 DEF PlacedInv, AttendedInv
<1>10. ListsHalf'
  BY <1>6, <1>7, <1>8, <1>9
<1>11. ViewHalf'
  BY <1>10, SyncedView DEF NewToplevel, Sync
<1>12. ASSUME NEW g \in Huts PROVE TabKept(g)
  <2>1. CASE g # h
    BY <2>1, <1>5 DEF TabKept
  <2>2. CASE g = h /\ ActiveTab(h) # None
    <3>1. /\ active[h] \in 1..Len(mains[h])
          /\ ActiveTab(h) = mains[h][active[h]]
          /\ mains[h] # <<>>
      BY <2>2, ActiveTabIs
    <3>2. active'[h] = active[h] /\ mains'[h] = new
      BY <3>1, <1>5 DEF NewToplevel
    <3>3. active[h] \in DOMAIN new /\ new[active[h]] = mains[h][active[h]]
      BY <1>3, <1>4, <3>1
    <3>4. ActiveTab(h)' = ActiveTab(h)
      BY <3>1, <3>2, <3>3 DEF ActiveTab
    <3> QED BY <2>2, <3>4 DEF TabKept
  <2> QED BY <2>1, <2>2 DEF TabKept
<1> QED BY <1>10, <1>11, <1>12

\* A list that is not empty has a tab.
LEMMA TabsOfList ==
    ASSUME TabTypes, NEW h \in Huts
    PROVE  Tabs(h) = {} <=> mains[h] = <<>>
<1>1. mains[h] \in Seq(Windows)
  BY DEF TabTypes
<1>2. CASE mains[h] = <<>>
  BY <1>2 DEF Tabs, ToSet
<1>3. CASE mains[h] # <<>>
  <2>1. 1 \in DOMAIN mains[h]
    BY <1>1, <1>3
  <2>2. mains[h][1] \in Tabs(h)
    BY <2>1 DEF Tabs, ToSet
  <2> QED BY <1>3, <2>2
<1> QED BY <1>2, <1>3

\* A Main Window that is destroyed.
LEMMA MainGone ==
    ASSUME ListsHalf, NEW h \in Huts, NEW w \in Tabs(h), RemoveMain(h, w),
           life' = [life EXCEPT ![w] = "dead"], UNCHANGED hutVars
    PROVE  ListsHalf' /\ \A g \in Huts : TabKept(g)
<1> USE DEF ListsHalf
<1> DEFINE i    == IndexIn(mains[h], w)
           left == RemoveAt(mains[h], i)
           orphans == floating[w] \cup alerts[w]
<1>0. TabSets \in [Huts -> SUBSET Windows] /\ w \in Windows
  BY TabSetsType, ActiveTabType
<1>1. mains[h] \in Seq(Windows) /\ IsInjective(mains[h]) /\ w \in ToSet(mains[h])
      /\ Len(mains[h]) \in Nat
  BY DEF TabTypes, ListsInv, Tabs
<1>2. /\ i \in 1..Len(mains[h])
      /\ left \in Seq(Windows)
      /\ IsInjective(left)
      /\ ToSet(left) = ToSet(mains[h]) \ {w}
      /\ Len(left) = Len(mains[h]) - 1
  BY <1>1, TakenOut
<1>3. /\ mains' = [mains EXCEPT ![h] = left]
      /\ active' = [active EXCEPT ![h] = ShiftActive(active[h], i, Len(mains[h]) - 1)]
      /\ terminal' = [terminal EXCEPT ![h] = TerminalAfter(h, Len(mains[h]) - 1)]
      /\ floating' = [floating EXCEPT ![w] = {}]
      /\ alerts' = [alerts EXCEPT ![w] = {}]
      /\ docked' = docked \ orphans
      /\ asked' = (asked \cup orphans) \ {w}
  BY DEF RemoveMain, IndexIn, WithoutEntry, SendClose
<1>a. active[h] \in 1..Len(mains[h]) /\ phase[h] = "live"
  BY <1>1, <1>2 DEF ListsInv
<1>s. mains[h][active[h]] # w =>
        /\ ShiftActive(active[h], i, Len(mains[h]) - 1) \in 1..(Len(mains[h]) - 1)
        /\ left[ShiftActive(active[h], i, Len(mains[h]) - 1)] = mains[h][active[h]]
  BY <1>1, <1>a, ShiftFollows
<1>4. /\ mains' \in [Huts -> Seq(Windows)]
      /\ \A g \in Huts : mains'[g] = IF g = h THEN left ELSE mains[g]
  BY <1>2, <1>3 DEF TabTypes
<1> HIDE DEF i, left
<1>5. /\ ShiftActive(active[h], i, Len(mains[h]) - 1) \in Nat \ {0}
      /\ Len(mains[h]) > 1 =>
            ShiftActive(active[h], i, Len(mains[h]) - 1) \in 1..(Len(mains[h]) - 1)
  BY <1>1, <1>2, <1>a, ShiftInRange
<1>6. TabTypes'
  <2>1. active' \in [Huts -> Nat \ {0}]
    BY <1>3, <1>5 DEF TabTypes
  <2>2. terminal' \in [Huts -> BOOLEAN]
    BY <1>3 DEF TabTypes, TerminalAfter
  <2> QED BY <1>4, <2>1, <2>2 DEF TabTypes
<1>7. HutTypes' /\ LifeTypes' /\ ChildTypes'
  <2>1. ChildTypes'
    BY <1>3 DEF ChildTypes
  <2>2. orphans \subseteq Windows
    BY <1>0 DEF ChildTypes
  <2>3. asked' \subseteq Windows
    BY <1>3, <2>2 DEF LifeTypes
  <2>4. life' \in [Windows -> {"unborn", "alive", "dead"}]
    BY DEF LifeTypes
  <2> QED BY <2>1, <2>3, <2>4 DEF HutTypes, LifeTypes, hutVars
<1>8. ListsInv'
  <2> SUFFICES ASSUME NEW g \in Huts
               PROVE  /\ IsInjective(mains'[g])
                      /\ mains'[g] # <<>> => phase'[g] = "live" /\ active'[g] \in 1..Len(mains'[g])
                      /\ ~terminal'[g] => mains'[g] # <<>>
    BY DEF ListsInv
  <2>1. CASE g # h
    <3>1. mains'[g] = mains[g] /\ active'[g] = active[g] /\ terminal'[g] = terminal[g]
          /\ phase'[g] = phase[g]
      BY <2>1, <1>3, <1>4 DEF TabTypes, hutVars
    <3> QED BY <3>1 DEF ListsInv
  <2>2. CASE g = h
    <3>1. mains'[g] = left /\ phase'[g] = "live"
      BY <2>2, <1>a, <1>4 DEF hutVars
    <3>2. active'[g] = ShiftActive(active[h], i, Len(mains[h]) - 1)
          /\ terminal'[g] = TerminalAfter(h, Len(mains[h]) - 1)
      BY <2>2, <1>3 DEF TabTypes
    <3>3. left # <<>> => Len(mains[h]) > 1
      BY <1>1, <1>2
    <3>4. left = <<>> => Len(mains[h]) - 1 = 0
      BY <1>1, <1>2
    <3>5. ~terminal'[g] => left # <<>>
      BY <3>2, <3>4 DEF TerminalAfter
    <3> QED BY <3>1, <3>2, <3>3, <3>5, <1>2, <1>5
  <2> QED BY <2>1, <2>2
<1>9. PlacedInv' /\ AttendedInv'
  <2>1. TabSets' \in [Huts -> SUBSET Windows]
        /\ \A g \in Huts : TabSets'[g] = IF g = h THEN TabSets[h] \ {w} ELSE TabSets[g]
    <3>1. \A g \in Huts : TabSets'[g] = IF g = h THEN TabSets[h] \ {w} ELSE TabSets[g]
      BY <1>2, <1>4 DEF TabSets, Tabs
    <3>2. TabSets' = [g \in Huts |-> TabSets'[g]]
      BY DEF TabSets
    <3> QED BY <3>1, <3>2, <1>0
  <2>2. /\ floating \in [Windows -> SUBSET Windows]
        /\ alerts \in [Windows -> SUBSET Windows]
        /\ Placed(TabSets, floating, alerts)
        /\ Attended(TabSets, floating, alerts, Alive, asked, docked)
        /\ w \in TabSets[h]
    BY DEF PlacedInv, AttendedInv, ChildTypes, TabSets
  <2>3. /\ floating' \in [Windows -> SUBSET Windows]
        /\ alerts' \in [Windows -> SUBSET Windows]
        /\ \A m \in Windows : floating'[m] = IF m = w THEN {} ELSE floating[m]
        /\ \A m \in Windows : alerts'[m] = IF m = w THEN {} ELSE alerts[m]
    BY <1>3, <1>7, <2>2 DEF ChildTypes
  <2>4. /\ Placed(TabSets', floating', alerts')
        /\ Attended(TabSets', floating', alerts', Alive \ {w},
                    (asked \cup (floating[w] \cup alerts[w])) \ {w},
                    docked \ (floating[w] \cup alerts[w]))
    <3>1. MainGoes(TabSets, floating, alerts, h, w, TabSets', floating', alerts')
      BY <2>1, <2>2, <2>3, <1>0 DEF MainGoes
    <3> QED BY <2>2, <3>1, PlaceMainGone
  <2>5. Alive' = Alive \ {w}
    BY <1>0 DEF Alive, LifeTypes
  <2> QED BY <2>4, <2>5, <1>3 DEF PlacedInv, AttendedInv
<1>10. ASSUME NEW g \in Huts PROVE TabKept(g)
  <2>1. CASE g # h
    BY <2>1, <1>4 DEF TabKept
  <2>2. CASE g = h /\ ActiveTab(h) # None
    <3>1. ActiveTab(h) = mains[h][active[h]]
      BY <2>2, ActiveTabIs
    <3>2. CASE ActiveTab(h) = w
      <4>1. w \notin Tabs(h)'
        BY <1>2, <1>4 DEF Tabs
      <4> QED BY <2>2, <3>2, <4>1 DEF TabKept
    <3>3. CASE ActiveTab(h) # w
      <4>1. /\ mains'[h] = left
            /\ active'[h] = ShiftActive(active[h], i, Len(mains[h]) - 1)
        BY <1>3, <1>4 DEF TabTypes
      <4>2. /\ ShiftActive(active[h], i, Len(mains[h]) - 1) \in 1..(Len(mains[h]) - 1)
            /\ left[ShiftActive(active[h], i, Len(mains[h]) - 1)] = mains[h][active[h]]
        BY <1>s, <3>1, <3>3 DEF i, left
      <4>3. DOMAIN left = 1..(Len(mains[h]) - 1)
        BY <1>2
      <4>4. ActiveTab(h)' = ActiveTab(h)
        BY <3>1, <4>1, <4>2, <4>3 DEF ActiveTab
      <4> QED BY <2>2, <4>4 DEF TabKept
    <3> QED BY <3>2, <3>3
  <2> QED BY <2>1, <2>2 DEF TabKept
<1> QED BY <1>6, <1>7, <1>8, <1>9, <1>10

\* A Floating Window, an Alert or a forgotten window that is destroyed.
LEMMA ChildGone ==
    ASSUME ListsHalf, NEW w \in Windows, \A h \in Huts : w \notin Tabs(h), RemoveChild(w),
           life' = [life EXCEPT ![w] = "dead"], UNCHANGED hutVars
    PROVE  ListsHalf' /\ \A g \in Huts : TabKept(g)
<1> USE DEF ListsHalf
<1>1. HutTypes' /\ LifeTypes' /\ TabTypes' /\ ChildTypes'
  BY DEF HutTypes, LifeTypes, TabTypes, ChildTypes, RemoveChild, hutVars, tabVars
<1>2. ListsInv'
  BY DEF ListsInv, RemoveChild, hutVars, tabVars
<1>3. PlacedInv' /\ AttendedInv'
  <2>1. TabSets' = TabSets /\ TabSets \in [Huts -> SUBSET Windows] /\ \A h \in Huts : w \notin TabSets[h]
    BY TabSetsType DEF TabSets, Tabs, RemoveChild, tabVars
  <2>2. /\ floating \in [Windows -> SUBSET Windows]
        /\ alerts \in [Windows -> SUBSET Windows]
        /\ Placed(TabSets, floating, alerts)
        /\ Attended(TabSets, floating, alerts, Alive, asked, docked)
    BY DEF PlacedInv, AttendedInv, ChildTypes
  <2>3. /\ floating' \in [Windows -> SUBSET Windows]
        /\ alerts' \in [Windows -> SUBSET Windows]
        /\ \A m \in Windows : floating'[m] = floating[m] \ {w}
        /\ \A m \in Windows : alerts'[m] = alerts[m] \ {w}
    BY <1>1 DEF ChildTypes, RemoveChild
  <2>4. /\ Placed(TabSets, floating', alerts')
        /\ Attended(TabSets, floating', alerts', Alive \ {w}, asked \ {w}, docked \ {w})
    BY <2>1, <2>2, <2>3, PlaceChildGone
  <2>5. Alive' = Alive \ {w}
    BY DEF Alive, LifeTypes
  <2> QED BY <2>1, <2>4, <2>5 DEF PlacedInv, AttendedInv, RemoveChild
<1>4. \A g \in Huts : TabKept(g)
  BY DEF TabKept, RemoveChild, tabVars
<1> QED BY <1>1, <1>2, <1>3, <1>4

\* ToplevelDestroyed keeps the inductive invariant.
LEMMA ToplevelDestroyedKeeps ==
    ASSUME IInv, NEW w \in Windows, ToplevelDestroyed(w)
    PROVE  IInv' /\ \A g \in Huts : TabKept(g)
<1>1. life' = [life EXCEPT ![w] = "dead"] /\ UNCHANGED <<hutVars, pointerVars>>
  BY DEF ToplevelDestroyed
<1>2. /\ ListsHalf' /\ \A g \in Huts : TabKept(g)
      /\ UNCHANGED space \/ \E h \in Huts : SyncSpace(h)
  <2>1. CASE \E h \in HutOf(w) : /\ w \in Tabs(h)
                                 /\ RemoveMain(h, w)
                                 /\ IF ActiveTab(h) = w THEN SyncSpace(h) ELSE UNCHANGED space
    <3>1. PICK h \in HutOf(w) : /\ w \in Tabs(h)
                                /\ RemoveMain(h, w)
                                /\ IF ActiveTab(h) = w THEN SyncSpace(h) ELSE UNCHANGED space
      BY <2>1
    <3>2. h \in Huts
      BY DEF HutOf, Live
    <3>3. ListsHalf' /\ \A g \in Huts : TabKept(g)
      BY <1>1, <3>1, <3>2, MainGone DEF IInv
    <3> QED BY <3>1, <3>2, <3>3
  <2>2. CASE /\ \A h \in HutOf(w) : w \notin Tabs(h)
             /\ RemoveChild(w)
             /\ UNCHANGED space
    <3>1. ASSUME NEW h \in Huts, w \in Tabs(h) PROVE FALSE
      <4>1. mains[h] # <<>>
        BY <3>1, TabsOfList DEF IInv, ListsHalf
      <4>2. h \in HutOf(w)
        BY <3>1, <4>1 DEF IInv, ListsHalf, ListsInv, HutOf, Live, WindowsOf
      <4> QED BY <2>2, <3>1, <4>2
    <3>2. ListsHalf' /\ \A g \in Huts : TabKept(g)
      BY <1>1, <2>2, <3>1, ChildGone DEF IInv
    <3> QED BY <2>2, <3>2
  <2> QED BY <2>1, <2>2 DEF ToplevelDestroyed
<1>3. SpaceType'
  <2>1. CASE UNCHANGED space
    BY <2>1 DEF IInv, ViewHalf, SpaceType
  <2>2. CASE \E h \in Huts : SyncSpace(h)
    BY <2>2, <1>2, SyncSpaceType DEF IInv, ViewHalf, ListsHalf
  <2> QED BY <1>2, <2>1, <2>2
<1>4. KeyboardType' /\ KeyboardOnView'
  BY <1>2, <1>3, SyncKeyboardFacts DEF ListsHalf, ToplevelDestroyed
<1>5. PointerTypes' /\ MarkMeansDrag'
  BY <1>1 DEF IInv, ViewHalf, PointerTypes, MarkMeansDrag, pointerVars
<1> QED BY <1>2, <1>3, <1>4, <1>5 DEF IInv, ViewHalf

\* A window that a hut lists is tagged: its list, its children and its dock.
LEMMA RetagLists ==
    ASSUME ListsHalf, NEW h \in Huts, phase[h] = "live", NEW w \in WindowsOf(h),
           NEW m \in Windows, NEW role \in {"main", "floating", "alert"},
           RetagInStack(h, w, role, m), UNCHANGED <<hutVars, life>>
    PROVE  ListsHalf' /\ \A g \in Huts : TabKept(g)
<1> USE DEF ListsHalf
<1> DEFINE bare    == w \in Tabs(h)
           i       == IndexIn(mains[h], w)
           taken   == IF bare THEN RemoveAt(mains[h], i) ELSE mains[h]
           shifted == IF bare THEN ShiftActive(active[h], i, Len(taken)) ELSE active[h]
           makeActive == IF bare THEN ActiveTab(h) = w \/ taken = <<>> ELSE TRUE
           nested  == role # "main" /\ m \in ToSet(taken)
           orphans == IF nested THEN floating[w] \cup alerts[w] ELSE {}
           new     == IF nested THEN taken ELSE Append(taken, w)
           now     == IF nested \/ ~makeActive THEN shifted ELSE Len(taken) + 1
<1>0. TabSets \in [Huts -> SUBSET Windows] /\ Tabs(h) \subseteq Windows
  BY TabSetsType, ActiveTabType
<1>l. mains[h] \in Seq(Windows) /\ IsInjective(mains[h]) /\ Len(mains[h]) \in Nat
  BY DEF TabTypes, ListsInv
<1>w. /\ w \in Windows
      /\ Listed(w, TabSets, floating, alerts)
      /\ \A g \in Huts : w \in TabSets[g] => g = h
      /\ ~bare => w \in FloatsOf(h) \cup AlertsOf(h)
  <2>1. w \in Tabs(h) \/ \E p \in Tabs(h) : w \in floating[p] \cup alerts[p]
    BY DEF WindowsOf, FloatsOf, AlertsOf
  <2>2. w \in Windows
    BY <2>1, <1>0 DEF ChildTypes
  <2>3. Listed(w, TabSets, floating, alerts)
    BY <2>1, <1>0 DEF Listed, TabSets
  <2>4. \A g \in Huts : w \in TabSets[g] => g = h
    BY <2>1, <2>2, <1>0 DEF PlacedInv, Placed, TabSets
  <2>5. ~bare => w \in FloatsOf(h) \cup AlertsOf(h)
    BY DEF WindowsOf
  <2> QED BY <2>2, <2>3, <2>4, <2>5
<1>e. /\ mains' = [mains EXCEPT ![h] = new]
      /\ active' = [active EXCEPT ![h] = now]
      /\ floating' = [p \in Windows |->
            IF p = w /\ nested THEN {}
            ELSE IF p = m /\ nested /\ role = "floating" THEN floating[p] \cup {w}
            ELSE floating[p] \ {w}]
      /\ alerts' = [p \in Windows |->
            IF p = w /\ nested THEN {}
            ELSE IF p = m /\ nested /\ role = "alert" THEN alerts[p] \cup {w}
            ELSE alerts[p] \ {w}]
      /\ docked' = (docked \ (orphans \cup {w})) \cup
                      (IF nested /\ role = "floating" THEN {w} ELSE {})
      /\ asked' = asked \cup orphans
      /\ UNCHANGED terminal
  BY DEF RetagInStack, IndexIn, SendClose
<1>t. /\ taken \in Seq(Windows)
      /\ IsInjective(taken)
      /\ ToSet(taken) = Tabs(h) \ {w}
      /\ Len(taken) = IF bare THEN Len(mains[h]) - 1 ELSE Len(mains[h])
  <2>1. CASE bare
    BY <2>1, <1>l, TakenOut DEF Tabs
  <2>2. CASE ~bare
    BY <2>2, <1>l DEF Tabs
  <2> QED BY <2>1, <2>2
<1>s. /\ shifted \in Nat \ {0}
      /\ taken # <<>> => shifted \in 1..Len(taken)
  <2>1. CASE bare
    <3>1. i \in 1..Len(mains[h]) /\ active[h] \in 1..Len(mains[h])
      BY <2>1, <1>l, TakenOut DEF Tabs, ListsInv
    <3>2. Len(taken) = Len(mains[h]) - 1
      BY <2>1, <1>t
    <3>3. taken # <<>> => Len(mains[h]) > 1
      BY <3>2, <1>l, <1>t
    <3>4. shifted = ShiftActive(active[h], i, Len(mains[h]) - 1)
      BY <2>1, <3>2
    <3> HIDE DEF i, taken, shifted
    <3>5. /\ shifted \in Nat \ {0}
          /\ Len(mains[h]) > 1 => shifted \in 1..(Len(mains[h]) - 1)
      BY <3>1, <3>4, <1>l, ShiftInRange
    <3> QED BY <3>2, <3>3, <3>5
  <2>2. CASE ~bare
    BY <2>2, <1>l DEF ListsInv, TabTypes
  <2> QED BY <2>1, <2>2
<1>f. bare /\ ActiveTab(h) # w /\ ActiveTab(h) # None =>
         /\ shifted \in 1..Len(taken)
         /\ taken[shifted] = ActiveTab(h)
         /\ ActiveTab(h) \in ToSet(taken)
  <2> SUFFICES ASSUME bare, ActiveTab(h) # w, ActiveTab(h) # None
               PROVE  shifted \in 1..Len(taken) /\ taken[shifted] = ActiveTab(h)
                      /\ ActiveTab(h) \in ToSet(taken)
    OBVIOUS
  <2>1. active[h] \in 1..Len(mains[h]) /\ ActiveTab(h) = mains[h][active[h]]
    BY ActiveTabIs
  <2>2. shifted = ShiftActive(active[h], i, Len(mains[h]) - 1) /\ taken = RemoveAt(mains[h], i)
        /\ Len(taken) = Len(mains[h]) - 1
    BY <1>t
  <2>3. /\ ShiftActive(active[h], i, Len(mains[h]) - 1) \in 1..(Len(mains[h]) - 1)
        /\ RemoveAt(mains[h], i)[ShiftActive(active[h], i, Len(mains[h]) - 1)] = mains[h][active[h]]
    BY <2>1, <1>l, ShiftFollows DEF Tabs
  <2>4. ActiveTab(h) \in Tabs(h)
    BY ActiveTabType
  <2> QED BY <2>1, <2>2, <2>3, <2>4, <1>t
<1>b. bare => w # None /\ mains[h] # <<>>
  BY <1>w, NamesAssumption, TabsOfList
<1> HIDE DEF i, taken, shifted
<1>a. /\ Append(taken, w) \in Seq(Windows)
      /\ IsInjective(Append(taken, w))
      /\ ToSet(Append(taken, w)) = ToSet(taken) \cup {w}
      /\ Len(Append(taken, w)) = Len(taken) + 1
      /\ \A j \in 1..Len(taken) : Append(taken, w)[j] = taken[j]
      /\ Append(taken, w)[Len(taken) + 1] = w
  BY <1>t, <1>w, Appended
<1>n. /\ new \in Seq(Windows)
      /\ IsInjective(new)
      /\ ToSet(new) = IF nested THEN Tabs(h) \ {w} ELSE Tabs(h) \cup {w}
      /\ new # <<>>
      /\ now \in 1..Len(new)
      /\ Len(taken) \in Nat
  <2>1. CASE nested
    <3>1. taken # <<>>
      BY <2>1, <1>t DEF ToSet
    <3> QED BY <2>1, <3>1, <1>t, <1>s
  <2>2. CASE ~nested
    <3>1. new = Append(taken, w) /\ Len(taken) \in Nat
      BY <2>2, <1>t
    <3>2. ToSet(new) = Tabs(h) \cup {w}
      BY <3>1, <1>a, <1>t
    <3>3. new # <<>> /\ Len(new) = Len(taken) + 1
      BY <3>1, <1>a
    <3>4. now \in 1..(Len(taken) + 1)
      <4>1. CASE makeActive
        BY <4>1, <2>2, <3>1
      <4>2. CASE ~makeActive
        BY <4>2, <2>2, <3>1, <1>s
      <4> QED BY <4>1, <4>2
    <3> HIDE DEF now
    <3> QED BY <2>2, <3>1, <3>2, <3>3, <3>4, <1>a
  <2> QED BY <2>1, <2>2
<1>4. \A g \in Huts : mains'[g] = IF g = h THEN new ELSE mains[g]
  BY <1>e, <1>n DEF TabTypes
<1>k. TabKept(h)
  <2> SUFFICES ASSUME ActiveTab(h) # None, mains[h] # new
               PROVE  \/ ActiveTab(h)' = ActiveTab(h)
                      \/ ActiveTab(h) \notin Tabs(h)'
                      \/ ActiveTab(h)' \in FloatsOf(h) \cup AlertsOf(h)
    BY <1>4 DEF TabKept
  <2>1. mains'[h] = new /\ active'[h] = now
    BY <1>4, <1>e DEF TabTypes
  <2>2. DOMAIN new = 1..Len(new)
    BY <1>n
  <2>3. ActiveTab(h)' = new[now]
    BY <1>n, <2>1, <2>2 DEF ActiveTab
  <2>4. CASE nested /\ bare /\ ActiveTab(h) = w
    <3>1. w \notin Tabs(h)'
      BY <2>1, <2>4, <1>n DEF Tabs
    <3> QED BY <2>4, <3>1
  <2>5. CASE nested /\ bare /\ ActiveTab(h) # w
    BY <2>3, <2>5, <1>f
  <2>6. CASE nested /\ ~bare
    BY <2>6 DEF taken
  <2>7. CASE ~nested /\ bare /\ ActiveTab(h) = w
    BY <2>3, <2>7, <1>a
  <2>8. CASE ~nested /\ bare /\ ActiveTab(h) # w
    <3>1. taken # <<>>
      BY <2>8, <1>f DEF ToSet
    <3> QED BY <2>3, <2>8, <3>1, <1>a, <1>f
  <2>9. CASE ~nested /\ ~bare
    BY <2>3, <2>9, <1>a, <1>w
  <2> QED BY <2>4, <2>5, <2>6, <2>7, <2>8, <2>9
<1>k2. ASSUME NEW g \in Huts PROVE TabKept(g)
  BY <1>k, <1>4 DEF TabKept
<1>o. orphans \subseteq Windows
  BY <1>w DEF ChildTypes
<1>m. nested => m \in Tabs(h) \ {w} /\ role \in {"floating", "alert"}
  BY <1>t
<1> HIDE DEF now, nested, orphans
<1>6. TabTypes'
  BY <1>4, <1>e, <1>n DEF TabTypes
<1>7. HutTypes' /\ LifeTypes' /\ ChildTypes'
  <2>1. orphans \subseteq Windows
    BY <1>o
  <2>2. floating' \in [Windows -> SUBSET Windows]
    BY <1>e, <1>w DEF ChildTypes
  <2>3. alerts' \in [Windows -> SUBSET Windows]
    BY <1>e, <1>w DEF ChildTypes
  <2>4. docked' \subseteq Windows
    BY <1>e, <1>w DEF ChildTypes
  <2>5. LifeTypes'
    BY <1>e, <2>1 DEF LifeTypes
  <2> QED BY <2>2, <2>3, <2>4, <2>5 DEF HutTypes, ChildTypes, hutVars
<1>8. ListsInv'
  <2> SUFFICES ASSUME NEW g \in Huts
               PROVE  /\ IsInjective(mains'[g])
                      /\ mains'[g] # <<>> => phase'[g] = "live" /\ active'[g] \in 1..Len(mains'[g])
                      /\ ~terminal'[g] => mains'[g] # <<>>
    BY DEF ListsInv
  <2>1. CASE g # h
    <3>1. mains'[g] = mains[g] /\ active'[g] = active[g] /\ terminal'[g] = terminal[g]
          /\ phase'[g] = phase[g]
      BY <2>1, <1>4, <1>e DEF TabTypes, hutVars
    <3> QED BY <3>1 DEF ListsInv
  <2>2. CASE g = h
    <3>1. mains'[g] = new /\ phase'[g] = "live" /\ active'[g] = now
      BY <2>2, <1>4, <1>e DEF TabTypes, hutVars
    <3> QED BY <3>1, <1>n
  <2> QED BY <2>1, <2>2
<1>9. PlacedInv' /\ AttendedInv'
  <2>1. TabSets' = [g \in Huts |-> TabSets'[g]]
        /\ \A g \in Huts : TabSets'[g] = IF g = h THEN ToSet(new) ELSE TabSets[g]
    BY <1>4 DEF TabSets, Tabs
  <2>2. /\ floating \in [Windows -> SUBSET Windows]
        /\ alerts \in [Windows -> SUBSET Windows]
        /\ Placed(TabSets, floating, alerts)
        /\ Attended(TabSets, floating, alerts, Alive, asked, docked)
    BY DEF PlacedInv, AttendedInv, ChildTypes
  <2>3. Alive' = Alive /\ TabSets[h] = Tabs(h)
        /\ floating' \in [Windows -> SUBSET Windows]
        /\ alerts' \in [Windows -> SUBSET Windows]
    BY <1>7 DEF Alive, TabSets, ChildTypes
  <2>4. CASE nested
    <3>1. TabSets' \in [Huts -> SUBSET Windows]
          /\ \A g \in Huts : TabSets'[g] = IF g = h THEN TabSets[h] \ {w} ELSE TabSets[g]
      BY <2>1, <2>3, <2>4, <1>0, <1>n
    <3>2. m \in TabSets[h] \ {w} /\ role \in {"floating", "alert"}
      BY <2>3, <2>4, <1>m
    <3>3. \A p \in Windows : floating'[p] =
             IF p = w THEN {} ELSE IF p = m /\ role = "floating" THEN floating[p] \cup {w}
             ELSE floating[p] \ {w}
      BY <2>4, <1>e
    <3>4. \A p \in Windows : alerts'[p] =
             IF p = w THEN {} ELSE IF p = m /\ ~(role = "floating") THEN alerts[p] \cup {w}
             ELSE alerts[p] \ {w}
      BY <2>4, <3>2, <1>e
    <3>5. docked' = (docked \ (floating[w] \cup alerts[w] \cup {w})) \cup
                       (IF role = "floating" THEN {w} ELSE {})
      BY <2>4, <1>e DEF orphans
    <3>6. BecomesChild(TabSets, floating, alerts, h, w, m, role = "floating",
                       TabSets', floating', alerts')
      BY <2>2, <2>3, <3>1, <3>2, <3>3, <3>4, <1>0, <1>w DEF BecomesChild
    <3>7. /\ Placed(TabSets', floating', alerts')
          /\ Attended(TabSets', floating', alerts', Alive,
                      asked \cup (floating[w] \cup alerts[w]),
                      (docked \ (floating[w] \cup alerts[w] \cup {w})) \cup
                         (IF role = "floating" THEN {w} ELSE {}))
      BY <2>2, <3>6, PlaceChild
    <3> QED BY <2>3, <2>4, <3>5, <3>7, <1>e DEF PlacedInv, AttendedInv, orphans
  <2>5. CASE ~nested
    <3>1. TabSets' \in [Huts -> SUBSET Windows]
          /\ \A g \in Huts : TabSets'[g] = IF g = h THEN TabSets[h] \cup {w} ELSE TabSets[g]
      BY <2>1, <2>3, <2>5, <1>0, <1>n, <1>w
    <3>2. /\ \A p \in Windows : floating'[p] = floating[p] \ {w}
          /\ \A p \in Windows : alerts'[p] = alerts[p] \ {w}
      BY <2>5, <1>e
    <3>3. docked' = docked \ {w} /\ asked' = asked
      BY <2>5, <1>e DEF orphans
    <3>a. BecomesTab(TabSets, floating, alerts, h, w, TabSets', floating', alerts')
      BY <2>2, <2>3, <3>1, <3>2, <1>0, <1>w DEF BecomesTab
    <3>4. /\ Placed(TabSets', floating', alerts')
          /\ Attended(TabSets', floating', alerts', Alive, asked, docked \ {w})
      BY <2>2, <3>a, PlaceTab
    <3> QED BY <2>3, <3>3, <3>4 DEF PlacedInv, AttendedInv
  <2> QED BY <2>4, <2>5
<1> QED BY <1>6, <1>7, <1>8, <1>9, <1>k2

\* Retag keeps the inductive invariant.
LEMMA RetagKeeps ==
    ASSUME IInv, NEW w \in Windows, NEW h \in HutOf(w), NEW m \in Windows,
           NEW role \in {"main", "floating", "alert"}, Retag(h, w, role, m)
    PROVE  IInv' /\ \A g \in Huts : TabKept(g)
<1>1. h \in Huts /\ phase[h] = "live" /\ w \in WindowsOf(h)
  BY DEF HutOf, Live
<1>2. ListsHalf' /\ \A g \in Huts : TabKept(g)
  BY <1>1, RetagLists DEF IInv, Retag
<1>3. SpaceType'
  BY <1>1, <1>2, SyncSpaceType DEF IInv, ViewHalf, ListsHalf, Retag
<1>4. KeyboardType' /\ KeyboardOnView'
  <2>1. CASE \E k : SyncKeyboard(k)
    BY <1>2, <1>3, <2>1, SyncKeyboardFacts DEF ListsHalf
  <2>2. CASE keyboard' = w /\ h = focused /\ w \in space'[h]
    BY <2>2 DEF Retag, hutVars, KeyboardType, KeyboardOnView
  <2> QED BY <2>1, <2>2 DEF Retag
<1>5. PointerTypes' /\ MarkMeansDrag'
  BY DEF IInv, ViewHalf, PointerTypes, MarkMeansDrag, Retag, pointerVars
<1> QED BY <1>2, <1>3, <1>4, <1>5 DEF IInv, ViewHalf

\* The lists of a hut whose shell exits.
LEMMA HutExitLists ==
    ASSUME ListsHalf, NEW h \in Huts, NEW next \in Huts, HutExit(h, next)
    PROVE  ListsHalf' /\ \A g \in Huts : TabKept(g)
<1> USE DEF ListsHalf
<1>0. TabSets \in [Huts -> SUBSET Windows] /\ Tabs(h) \subseteq Windows
  BY TabSetsType, ActiveTabType
<1>1. /\ mains' = [mains EXCEPT ![h] = <<>>]
      /\ active' = [active EXCEPT ![h] = 1]
      /\ terminal' = [terminal EXCEPT ![h] = TRUE]
      /\ floating' = [m \in Windows |-> IF m \in Tabs(h) THEN {} ELSE floating[m]]
      /\ alerts' = [m \in Windows |-> IF m \in Tabs(h) THEN {} ELSE alerts[m]]
      /\ docked' = docked \ FloatsOf(h)
      /\ asked' = asked \cup WindowsOf(h)
      /\ life' = life
  BY DEF HutExit, SendClose
<1>2. /\ phase' \in [Huts -> {"unborn", "live", "gone"}]
      /\ \A g \in Huts \ {h} : phase[g] = "live" => phase'[g] = "live"
  BY DEF HutExit, HutTypes, Live, Departed
<1>3. \A g \in Huts : mains'[g] = IF g = h THEN <<>> ELSE mains[g]
  BY <1>1 DEF TabTypes
<1>4. TabTypes' /\ HutTypes'
  <2>1. focused' \in Huts
    BY DEF HutExit, HutTypes
  <2>2. mains' \in [Huts -> Seq(Windows)]
    BY <1>1 DEF TabTypes
  <2>3. active' \in [Huts -> Nat \ {0}] /\ terminal' \in [Huts -> BOOLEAN]
    BY <1>1 DEF TabTypes
  <2> QED BY <1>2, <2>1, <2>2, <2>3 DEF TabTypes, HutTypes
<1>5. WindowsOf(h) \subseteq Windows
  BY <1>0 DEF WindowsOf, FloatsOf, AlertsOf, ChildTypes
<1>6. ChildTypes' /\ LifeTypes'
  BY <1>1, <1>5 DEF ChildTypes, LifeTypes
<1>7. ListsInv'
  <2> SUFFICES ASSUME NEW g \in Huts
               PROVE  /\ IsInjective(mains'[g])
                      /\ mains'[g] # <<>> => phase'[g] = "live" /\ active'[g] \in 1..Len(mains'[g])
                      /\ ~terminal'[g] => mains'[g] # <<>>
    BY DEF ListsInv
  <2>1. CASE g # h
    <3>1. mains'[g] = mains[g] /\ active'[g] = active[g] /\ terminal'[g] = terminal[g]
      BY <2>1, <1>1, <1>3 DEF TabTypes
    <3> QED BY <2>1, <3>1, <1>2 DEF ListsInv
  <2>2. CASE g = h
    <3>1. mains'[g] = <<>> /\ terminal'[g]
      BY <2>2, <1>1, <1>3 DEF TabTypes
    <3>2. IsInjective(<<>>)
      BY DEF IsInjective
    <3> QED BY <3>1, <3>2
  <2> QED BY <2>1, <2>2
<1>8. PlacedInv' /\ AttendedInv'
  <2>1. TabSets' = [g \in Huts |-> TabSets'[g]] /\ TabSets[h] = Tabs(h)
        /\ \A g \in Huts : TabSets'[g] = IF g = h THEN {} ELSE TabSets[g]
    BY <1>3 DEF TabSets, Tabs, ToSet
  <2>2. TabSets' \in [Huts -> SUBSET Windows]
    BY <2>1, <1>0
  <2>3. /\ Placed(TabSets, floating, alerts)
        /\ Attended(TabSets, floating, alerts, Alive, asked, docked)
    BY DEF PlacedInv, AttendedInv
  <2>4. HutGoes(TabSets, floating, alerts, h, TabSets', floating', alerts')
    BY <2>1, <2>2, <1>0, <1>1, <1>6 DEF HutGoes, ChildTypes
  <2>5. /\ Placed(TabSets', floating', alerts')
        /\ Attended(TabSets', floating', alerts', Alive,
                    asked \cup TabSets[h] \cup (UNION {floating[m] : m \in TabSets[h]})
                          \cup (UNION {alerts[m] : m \in TabSets[h]}),
                    docked \ (UNION {floating[m] : m \in TabSets[h]}))
    BY <2>3, <2>4, PlaceHutGone
  <2>6. asked' = asked \cup TabSets[h] \cup (UNION {floating[m] : m \in TabSets[h]})
                       \cup (UNION {alerts[m] : m \in TabSets[h]})
    <3>1. asked' = asked \cup (Tabs(h) \cup FloatsOf(h) \cup AlertsOf(h))
      BY <1>1 DEF WindowsOf
    <3>2. FloatsOf(h) = UNION {floating[m] : m \in TabSets[h]}
      BY <2>1 DEF FloatsOf
    <3>3. AlertsOf(h) = UNION {alerts[m] : m \in TabSets[h]}
      BY <2>1 DEF AlertsOf
    <3> QED BY <3>1, <3>2, <3>3, <2>1
  <2>7. docked' = docked \ (UNION {floating[m] : m \in TabSets[h]})
    BY <1>1, <2>1 DEF FloatsOf
  <2>8. Alive' = Alive
    BY <1>1 DEF Alive
  <2> QED BY <2>5, <2>6, <2>7, <2>8 DEF PlacedInv, AttendedInv
<1>9. ASSUME NEW g \in Huts PROVE TabKept(g)
  <2>1. CASE g # h
    BY <2>1, <1>3 DEF TabKept
  <2>2. CASE g = h
    <3>1. Tabs(h)' = {}
      BY <1>3 DEF Tabs, ToSet
    <3> QED BY <2>2, <3>1 DEF TabKept
  <2> QED BY <2>1, <2>2
<1> QED BY <1>4, <1>6, <1>7, <1>8, <1>9

\* HutExit keeps the inductive invariant.
LEMMA HutExitKeeps ==
    ASSUME IInv, NEW h \in Huts, NEW next \in Huts, HutExit(h, next)
    PROVE  IInv' /\ \A g \in Huts : TabKept(g)
<1>1. ListsHalf' /\ \A g \in Huts : TabKept(g)
  BY HutExitLists DEF IInv
<1>2. Shown(next, docked) \subseteq Windows
  BY ShownType DEF IInv, ListsHalf
<1>3. SpaceType'
  BY <1>2 DEF IInv, ViewHalf, SpaceType, HutExit
<1>4. KeyboardType' /\ KeyboardOnView'
  BY <1>1, <1>3, SyncKeyboardFacts DEF ListsHalf, HutExit
<1>5. PointerTypes' /\ MarkMeansDrag'
  BY DEF IInv, ViewHalf, PointerTypes, MarkMeansDrag, HutExit, pointerVars
<1> QED BY <1>1, <1>3, <1>4, <1>5 DEF IInv, ViewHalf

-----------------------------------------------------------------------------
(* Every step.                                                             *)

\* The inductive invariant holds at the start.
LEMMA InitIInv == ASSUME Init PROVE IInv
<1>1. HutTypes /\ LifeTypes /\ TabTypes /\ ChildTypes
  BY DEF Init, HutTypes, LifeTypes, TabTypes, ChildTypes
<1>2. ListsInv
  BY DEF Init, ListsInv, IsInjective
<1>3. \A h \in Huts : TabSets[h] = {}
  BY DEF Init, TabSets, Tabs, ToSet
<1>4. PlacedInv
  BY <1>3 DEF Init, PlacedInv, Placed
<1>5. AttendedInv
  BY <1>3 DEF Init, AttendedInv, Attended, Listed, Alive
<1>6. SpaceType /\ KeyboardType /\ PointerTypes /\ MarkMeansDrag
  BY DEF Init, SpaceType, KeyboardType, PointerTypes, MarkMeansDrag
<1>7. KeyboardOnView
  BY NamesAssumption DEF Init, KeyboardOnView, Alive
<1> QED BY <1>1, <1>2, <1>4, <1>5, <1>6, <1>7 DEF IInv, ListsHalf, ViewHalf

\* A step that changes nothing keeps it.
LEMMA StutterKeeps == ASSUME IInv, UNCHANGED vars PROVE IInv'
<1> USE DEF vars, hutVars, lifeVars, tabVars, childVars, pointerVars
<1>1. ListsHalf'
  BY ListsUntouched DEF IInv, ListsHalf, HutTypes
<1>2. ViewHalf'
  BY DEF IInv, ViewHalf, SpaceType, KeyboardType, PointerTypes, MarkMeansDrag, KeyboardOnView,
         Alive, ActiveTab
<1> QED BY <1>1, <1>2 DEF IInv

\* A step that changes no list of tabs keeps every active tab's promise.
LEMMA SameListsKeepTabs == ASSUME UNCHANGED mains PROVE \A g \in Huts : TabKept(g)
  BY DEF TabKept

\* Every step of a client keeps it.
LEMMA ClientKeeps == ASSUME IInv, Client PROVE IInv' /\ \A g \in Huts : TabKept(g)
<1>1. ASSUME NEW w \in Windows, NEW h \in Huts, NewToplevel(w, h)
      PROVE  IInv' /\ \A g \in Huts : TabKept(g)
  BY <1>1, NewToplevelKeeps
<1>2. ASSUME NEW w \in Windows, ToplevelDestroyed(w)
      PROVE  IInv' /\ \A g \in Huts : TabKept(g)
  BY <1>2, ToplevelDestroyedKeeps
<1>3. ASSUME NEW w \in Windows, NEW h \in HutOf(w), Retag(h, w, "main", w)
      PROVE  IInv' /\ \A g \in Huts : TabKept(g)
  BY <1>3, RetagKeeps
<1>4. ASSUME NEW w \in Windows, NEW h \in HutOf(w), NEW m \in Tabs(h),
             NEW role \in {"floating", "alert"}, Retag(h, w, role, m)
      PROVE  IInv' /\ \A g \in Huts : TabKept(g)
  <2>1. m \in Windows
    BY ActiveTabType DEF IInv, ListsHalf, HutOf, Live
  <2>2. role \in {"main", "floating", "alert"}
    OBVIOUS
  <2> QED BY <1>4, <2>1, <2>2, RetagKeeps
<1>5. ASSUME NEW w \in Windows, MoveRequest(w)
      PROVE  IInv' /\ \A g \in Huts : TabKept(g)
  <2>1. UNCHANGED mains
    BY <1>5 DEF MoveRequest, tabVars
  <2> QED BY <1>5, <2>1, MoveRequestKeeps, SameListsKeepTabs
<1> QED BY <1>1, <1>2, <1>3, <1>4, <1>5 DEF Client

\* Every step of the user keeps it.
LEMMA UserKeeps == ASSUME IInv, User PROVE IInv' /\ UNCHANGED mains
<1>1. ASSUME ToggleTerminal PROVE IInv' /\ UNCHANGED mains
  BY <1>1, ToggleTerminalKeeps DEF ToggleTerminal
<1>2. ASSUME NEW step \in {-1, 1}, CycleTab(step) PROVE IInv' /\ UNCHANGED mains
  BY <1>2, CycleTabKeeps DEF CycleTab
<1>3. ASSUME NEW h \in Huts, FocusHut(h) PROVE IInv' /\ UNCHANGED mains
  BY <1>3, FocusHutKeeps DEF FocusHut, tabVars
<1>4. ASSUME NEW h \in Huts, SpawnHut(h) PROVE IInv' /\ UNCHANGED mains
  BY <1>4, SpawnHutKeeps DEF SpawnHut, tabVars
<1>5. ASSUME NEW h \in Huts, DragMotion(h) PROVE IInv' /\ UNCHANGED mains
  BY <1>5, DragMotionKeeps DEF DragMotion, tabVars
<1>u. Under \subseteq BOOLEAN
  BY DEF Under
<1>6. ASSUME NEW u \in Under, NEW i \in 0..Len(mains[focused]), PressTab(i, u)
      PROVE  IInv' /\ UNCHANGED mains
  BY <1>6, <1>u, PressTabKeeps DEF PressTab
<1>7. ASSUME NEW u \in Under, NEW w \in Windows, StartDrag(w, u)
      PROVE  IInv' /\ UNCHANGED mains
  BY <1>7, <1>u, StartDragKeeps DEF StartDrag, tabVars
<1>8. ASSUME NEW t, PressElsewhere(t) PROVE IInv' /\ UNCHANGED mains
  BY <1>8, PressElsewhereKeeps DEF PressElsewhere, tabVars
<1>9. ASSUME NEW w \in Windows, PressWindow(w) PROVE IInv' /\ UNCHANGED mains
  BY <1>9, PressWindowKeeps DEF PressWindow, tabVars
<1>10. ASSUME Release PROVE IInv' /\ UNCHANGED mains
  BY <1>10, ReleaseKeeps DEF Release, tabVars
<1> QED BY <1>1, <1>2, <1>3, <1>4, <1>5, <1>6, <1>7, <1>8, <1>9, <1>10 DEF User

\* Every other step keeps it.
LEMMA SystemKeeps == ASSUME IInv, System PROVE IInv' /\ \A g \in Huts : TabKept(g)
<1>1. ASSUME NEW h \in Huts, Frame(h) PROVE IInv' /\ UNCHANGED mains
  BY <1>1, FrameKeeps DEF Frame, tabVars
<1>2. ASSUME NEW h \in Huts, Thumbnail(h) PROVE IInv' /\ UNCHANGED mains
  BY <1>2, ThumbnailKeeps DEF Thumbnail, tabVars
<1>3. ASSUME NEW h \in Huts, NEW next \in Huts, HutExit(h, next)
      PROVE  IInv' /\ \A g \in Huts : TabKept(g)
  BY <1>3, HutExitKeeps
<1> QED BY <1>1, <1>2, <1>3, SameListsKeepTabs DEF System

\* Every step keeps it.
LEMMA StepIInv ==
    ASSUME IInv, [Next]_vars PROVE IInv' /\ (Next => \A g \in Huts : TabKept(g))
<1>1. ASSUME Next PROVE IInv' /\ \A g \in Huts : TabKept(g)
  BY <1>1, ClientKeeps, UserKeeps, SystemKeeps, SameListsKeepTabs DEF Next
<1>2. CASE UNCHANGED vars
  BY <1>1, <1>2, StutterKeeps
<1> QED BY <1>1, <1>2

-----------------------------------------------------------------------------
(* What the invariant says in the words of HutWindows.                     *)

\* A set whose members are all the same has one of them at most.
LEMMA AtMostOne ==
    ASSUME NEW S, \A x, y \in S : x = y
    PROVE  Cardinality(S) <= 1
<1>1. CASE S = {}
  BY <1>1, FS_EmptySet
<1>2. CASE S # {}
  <2>1. PICK x : x \in S
    BY <1>2
  <2>2. S = {x}
    BY <2>1
  <2>3. Cardinality({x}) = 1
    BY FS_Singleton
  <2> QED BY <2>2, <2>3
<1> QED BY <1>1, <1>2

\* The invariant implies the parts of WindowsAreSound.
LEMMA OnePlaceFollows == ASSUME IInv PROVE OnePlace
<1> USE DEF IInv, ListsHalf
<1>0. TabSets \in [Huts -> SUBSET Windows] /\ \A h \in Huts : TabSets[h] = Tabs(h) /\ Tabs(h) \subseteq Windows
  BY TabSetsType, ActiveTabType DEF TabSets
<1>1. \A h \in Huts : IsInjective(mains[h])
  BY DEF ListsInv
<1>2. \A g, h \in Huts : g # h => Tabs(g) \cap Tabs(h) = {}
  BY <1>0 DEF PlacedInv, Placed
<1>3. \A m \in Windows : floating[m] \cup alerts[m] # {} => \E h \in Live : m \in Tabs(h)
  <2> SUFFICES ASSUME NEW m \in Windows, NEW v \in floating[m] \cup alerts[m]
               PROVE  \E h \in Live : m \in Tabs(h)
    OBVIOUS
  <2>1. v \in Windows
    BY DEF ChildTypes
  <2>2. PICK h \in Huts : m \in Tabs(h)
    BY <2>1, <1>0 DEF PlacedInv, Placed
  <2>3. mains[h] # <<>>
    BY <2>2, TabsOfList
  <2>4. h \in Live
    BY <2>3 DEF ListsInv, Live
  <2> QED BY <2>2, <2>4
<1>4. ASSUME NEW w \in Windows
      PROVE  Cardinality({h \in Huts : w \in Tabs(h)} \cup
                         ({m \in Windows : w \in floating[m]} \X {"floating"}) \cup
                         ({m \in Windows : w \in alerts[m]} \X {"alert"})) <= 1
  <2> DEFINE tab == {h \in Huts : w \in Tabs(h)}
             fl  == {m \in Windows : w \in floating[m]}
             al  == {m \in Windows : w \in alerts[m]}
             S   == tab \cup (fl \X {"floating"}) \cup (al \X {"alert"})
  <2>1. \A g, h \in tab : g = h
    BY <1>0 DEF PlacedInv, Placed
  <2>2. \A m \in fl \cup al : tab = {} /\ \A p \in fl \cup al : p = m
    BY <1>0 DEF PlacedInv, Placed
  <2>3. fl \cap al = {}
    BY DEF PlacedInv, Placed
  <2> HIDE DEF tab, fl, al
  <2>4. \A x, y \in S : x = y
    <3>1. CASE fl \cup al = {}
      BY <3>1, <2>1
    <3>2. CASE fl \cup al # {}
      <4>1. PICK m : m \in fl \cup al
        BY <3>2
      <4>2. tab = {} /\ ((fl = {m} /\ al = {}) \/ (fl = {} /\ al = {m}))
        BY <4>1, <2>2, <2>3
      <4>3. fl \X {"floating"} \subseteq {<<m, "floating">>} /\ al \X {"alert"} \subseteq {<<m, "alert">>}
        BY <4>2
      <4>4. fl \X {"floating"} = {} \/ al \X {"alert"} = {}
        BY <4>2
      <4> QED BY <4>2, <4>3, <4>4
    <3> QED BY <3>1, <3>2
  <2>5. Cardinality(S) <= 1
    BY <2>4, AtMostOne
  <2> QED BY <2>5 DEF tab, fl, al
<1>5. docked \subseteq UNION {floating[m] : m \in Windows}
  <2> SUFFICES ASSUME NEW v \in docked PROVE v \in UNION {floating[m] : m \in Windows}
    OBVIOUS
  <2>1. PICK m \in Windows : v \in floating[m]
    BY DEF AttendedInv, Attended, ChildTypes
  <2> QED BY <2>1
<1>6. ASSUME NEW h \in Huts PROVE WindowsOf(h) \subseteq Alive
  <2> SUFFICES ASSUME NEW v \in WindowsOf(h) PROVE v \in Alive
    OBVIOUS
  <2>1. v \in Tabs(h) \/ \E m \in Tabs(h) : v \in floating[m] \cup alerts[m]
    BY DEF WindowsOf, FloatsOf, AlertsOf
  <2>2. v \in Windows /\ Listed(v, TabSets, floating, alerts)
    BY <2>1, <1>0 DEF Listed, ChildTypes
  <2> QED BY <2>2 DEF AttendedInv, Attended
<1> QED BY <1>1, <1>2, <1>3, <1>4, <1>5, <1>6 DEF OnePlace

\* (the shown tab exists)
LEMMA ShownTabFollows == ASSUME IInv PROVE ShownTabExists
  BY DEF IInv, ListsHalf, ListsInv, TabTypes, ShownTabExists, Live

\* Who has no place was asked to close.
LEMMA AskedFollows == ASSUME IInv PROVE ForgottenWereAsked
<1> SUFFICES ASSUME NEW w \in Alive, HutOf(w) = {} PROVE w \in asked
  BY DEF ForgottenWereAsked
<1> USE DEF IInv, ListsHalf
<1>1. w \in Windows
  BY DEF Alive
<1>2. ASSUME NEW h \in Huts, w \in Tabs(h) PROVE FALSE
  <2>1. h \in Live
    BY <1>2, TabsOfList DEF ListsInv, Live
  <2> QED BY <2>1, <1>2 DEF HutOf, WindowsOf
<1>3. ASSUME NEW m \in Windows, w \in floating[m] \cup alerts[m] PROVE FALSE
  <2>1. PICK h \in Live : m \in Tabs(h)
    BY <1>3, OnePlaceFollows DEF OnePlace
  <2>2. w \in FloatsOf(h) \cup AlertsOf(h)
    BY <2>1, <1>3 DEF FloatsOf, AlertsOf
  <2> QED BY <2>1, <2>2 DEF HutOf, WindowsOf
<1>4. ~Listed(w, TabSets, floating, alerts)
  BY <1>2, <1>3 DEF Listed, TabSets
<1> QED BY <1>1, <1>4 DEF AttendedInv, Attended

-----------------------------------------------------------------------------
(* The theorems.                                                           *)

\* The inductive invariant: types, tab lists and their active indexes,
\* placement as sets, the mark of the drags and the keyboard.
THEOREM Inductive == Spec => []IInv
<1>1. Init => IInv
  BY InitIInv
<1>2. IInv /\ [Next]_vars => IInv'
  BY StepIInv
<1> QED BY <1>1, <1>2, PTL DEF Spec

\* For any toplevels and huts a toplevel is in one place at most, only a live
\* one is listed, and outside the terminal there is a tab to show and the index
\* names it, whatever is opened, destroyed, tagged and retagged
\* (console_hut.rs, main_window.rs).
THEOREM WindowsStaySound == Spec => []WindowsAreSound
<1>1. IInv => WindowsAreSound
  BY OnePlaceFollows, ShownTabFollows, Types DEF WindowsAreSound, IInv, ListsHalf, ViewHalf
<1> QED BY <1>1, Inductive, PTL

\* A live toplevel that no hut lists any more was told to close (remove_window,
\* retag, close_all_windows).
THEOREM NobodyForgotten == Spec => []ForgottenWereAsked
<1>1. IInv => ForgottenWereAsked
  BY AskedFollows
<1> QED BY <1>1, Inductive, PTL

\* dragging_hut_id is set exactly while a dock drag or a move is live, on its
\* hut, however the two overlap (docks.rs, grabs.rs).
THEOREM MarkFollowsDrag == Spec => []MarkMeansDrag
<1>1. IInv => MarkMeansDrag
  BY DEF IInv, ViewHalf
<1> QED BY <1>1, Inductive, PTL

\* A live window with the keyboard is mapped in the hut on view or its active
\* tab (sync_keyboard_focus_to_view).
THEOREM KeyboardStaysOnView == Spec => []KeyboardOnView
<1>1. IInv => KeyboardOnView
  BY DEF IInv, ViewHalf
<1> QED BY <1>1, Inductive, PTL

\* A list of tabs that changes never moves the user to another tab, for lists of
\* any length and whichever entry goes (hut.rs, shift_active).
THEOREM TabsAreKept == Spec => ListKeepsTab
<1> DEFINE Kept == \A h \in Live :
                     LET m == ActiveTab(h)
                     IN mains[h] # mains'[h] /\ m # None =>
                           \/ ActiveTab(h)' = m
                           \/ m \notin Tabs(h)'
                           \/ ActiveTab(h)' \in FloatsOf(h) \cup AlertsOf(h)
<1>1. IInv /\ [Next]_vars => [Kept]_vars
  <2>1. (\A g \in Huts : TabKept(g)) => Kept
    BY DEF TabKept, Live
  <2> QED BY <2>1, StepIInv
<1> QED BY <1>1, Inductive, PTL DEF Spec, ListKeepsTab
=============================================================================
