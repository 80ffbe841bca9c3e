------------------------- MODULE SessionLock_proofs -------------------------
(***************************************************************************)
(* What holds of SessionLock for every set of crtcs and locks: its         *)
(* inductive invariant, and that it keeps the promise of LockPromise.      *)
(***************************************************************************)
EXTENDS SessionLock, TLAPS

-----------------------------------------------------------------------------
(* Sequences.                                                              *)

\* RemoveAt drops one position and keeps the others in order.
LEMMA RemoveAtFacts ==
    ASSUME NEW S, NEW s \in Seq(S), NEW i \in DOMAIN s
    PROVE  /\ RemoveAt(s, i) \in Seq(S)
           /\ Len(RemoveAt(s, i)) = Len(s) - 1
           /\ \A j \in 1..(Len(s) - 1) :
                RemoveAt(s, i)[j] = IF j < i THEN s[j] ELSE s[j + 1]
<1> DEFINE front == SubSeq(s, 1, i - 1)
           back  == SubSeq(s, i + 1, Len(s))
<1>0. i \in 1..Len(s)
  OBVIOUS
<1>1. /\ front \in Seq(S)
      /\ Len(front) = i - 1
      /\ \A j \in 1..(i - 1) : front[j] = s[j]
  OBVIOUS
<1>2. /\ back \in Seq(S)
      /\ Len(back) = Len(s) - i
      /\ \A j \in 1..(Len(s) - i) : back[j] = s[i + j]
  OBVIOUS
<1>3. RemoveAt(s, i) = front \o back
  BY DEF RemoveAt
<1> HIDE DEF front, back
<1>4. /\ front \o back \in Seq(S)
      /\ Len(front \o back) = Len(s) - 1
  BY <1>1, <1>2
<1>5. ASSUME NEW j \in 1..(Len(s) - 1)
      PROVE  (front \o back)[j] = IF j < i THEN s[j] ELSE s[j + 1]
  <2>1. CASE j < i
    BY <2>1, <1>1, <1>2
  <2>2. CASE ~(j < i)
    BY <2>2, <1>0, <1>1, <1>2
  <2> QED BY <2>1, <2>2
<1> QED BY <1>3, <1>4, <1>5

-----------------------------------------------------------------------------
(* A render pass.                                                          *)

\* What a pass does to the tables it is given: it only adds locked or session
\* frames, as the state wants, to displays without a pending one; it confirms
\* only outputs it leaves covered; and it answers the locker only when every
\* slot is confirmed.
RenderOutcome(surf, fl, scr, act) ==
    /\ surfaces' \in [Plugged -> Surfaces]
    /\ \A c \in Plugged : /\ surfaces'[c].output = surf[c].output
                          /\ surfaces'[c].index = surf[c].index
                          /\ surf[c].framePending => surfaces'[c].framePending
    /\ screen' = scr
    /\ flight' \in [Crtcs -> Pictures]
    /\ \A c \in Crtcs : \/ flight'[c] = fl[c]
                        \/ /\ c \in Plugged
                           /\ act
                           /\ ~surf[c].framePending
                           /\ surfaces'[c].framePending
                           /\ flight'[c] = Wanted
    /\ confirmed' \subseteq Outputs
    /\ confirmed \subseteq confirmed'
    /\ \A o \in confirmed' \ confirmed :
          /\ locked
          /\ \E c \in Plugged :
                /\ surf[c].output = o
                /\ ~surf[c].framePending
                /\ \/ flight'[c] = Wanted
                   \/ flight'[c] = fl[c] /\ scr[c] = Wanted
    /\ pendingLock' \in BOOLEAN
    /\ pendingLock' => pendingLock
    /\ pendingLock /\ ~pendingLock' => ToSet(slots) \subseteq confirmed'

\* Every pass has that outcome.
LEMMA RenderFacts ==
    ASSUME NEW cs \in SUBSET Crtcs, NEW surf, NEW fl, NEW scr, NEW act \in BOOLEAN,
           TypeOK,
           surf \in [Plugged -> Surfaces],
           fl \in [Crtcs -> Pictures],
           scr \in [Crtcs -> Pictures],
           Render(cs, surf, fl, scr, act)
    PROVE  RenderOutcome(surf, fl, scr, act)
<1> DEFINE Outcomes == {"skipped", "queued", "undamaged", "failed"}
<1>1. PICK result \in [cs -> Outcomes] :
        /\ \A c \in cs : result[c] \in Results(c, surf, scr, act)
        /\ LET queued == {c \in cs : result[c] = "queued"}
               marks  == IF locked /\ pendingLock
                         THEN {surf[c].output : c \in Marked(result)} ELSE {}
           IN  /\ surfaces' = [c \in DOMAIN surf |->
                     [surf[c] EXCEPT !.framePending = @ \/ c \in queued]]
               /\ flight' = [c \in Crtcs |->
                     IF c \in queued THEN Wanted ELSE fl[c]]
               /\ screen' = scr
               /\ confirmed' = confirmed \cup marks
               /\ pendingLock' =
                     (pendingLock /\ ~(marks # {} /\ AllConfirmed(confirmed')))
  BY DEF Render
<1> DEFINE queued == {c \in cs : result[c] = "queued"}
           marks  == IF locked /\ pendingLock
                     THEN {surf[c].output : c \in Marked(result)} ELSE {}
<1>2. ASSUME NEW c \in cs, result[c] \in {"queued", "undamaged"}
      PROVE  /\ c \in Plugged
             /\ ~surf[c].framePending
             /\ act
             /\ result[c] = "undamaged" => scr[c] = Wanted
  <2>1. result[c] \in Results(c, surf, scr, act)
    BY <1>1
  <2>2. ~(c \notin DOMAIN surf \/ surf[c].framePending)
    BY <2>1, <1>2 DEF Results
  <2> QED BY <2>1, <2>2, <1>2 DEF Results
<1>3. Wanted \in Pictures
  BY DEF Wanted, Pictures
<1>4. surfaces' = [c \in Plugged |-> [surf[c] EXCEPT !.framePending = @ \/ c \in queued]]
  BY <1>1
<1>5. ASSUME NEW c \in Plugged
      PROVE  /\ surfaces'[c] \in Surfaces
             /\ surfaces'[c].output = surf[c].output
             /\ surfaces'[c].index = surf[c].index
             /\ surfaces'[c].framePending = (surf[c].framePending \/ c \in queued)
  <2>1. surf[c] \in Surfaces
    OBVIOUS
  <2>2. surfaces'[c] = [surf[c] EXCEPT !.framePending = @ \/ c \in queued]
    BY <1>4
  <2>3. (surf[c].framePending \/ c \in queued) \in BOOLEAN
    OBVIOUS
  <2> HIDE DEF queued
  <2> QED BY <2>1, <2>2, <2>3 DEF Surfaces
<1>6. flight' = [c \in Crtcs |-> IF c \in queued THEN Wanted ELSE fl[c]]
  BY <1>1
<1>7. \A c \in Crtcs : \/ flight'[c] = fl[c]
                       \/ /\ c \in Plugged
                          /\ act
                          /\ ~surf[c].framePending
                          /\ surfaces'[c].framePending
                          /\ flight'[c] = Wanted
  <2> SUFFICES ASSUME NEW c \in Crtcs, flight'[c] # fl[c]
               PROVE  /\ c \in Plugged
                      /\ act
                      /\ ~surf[c].framePending
                      /\ surfaces'[c].framePending
                      /\ flight'[c] = Wanted
    OBVIOUS
  <2>1. c \in queued /\ flight'[c] = Wanted
    BY <1>6
  <2>2. c \in Plugged /\ act /\ ~surf[c].framePending
    BY <2>1, <1>2
  <2> QED BY <2>1, <2>2, <1>5
<1>8. confirmed' = confirmed \cup marks
  BY <1>1
<1>9. ASSUME NEW o \in marks
      PROVE  /\ locked
             /\ pendingLock
             /\ o \in Outputs
             /\ \E c \in Plugged :
                   /\ surf[c].output = o
                   /\ ~surf[c].framePending
                   /\ \/ flight'[c] = Wanted
                      \/ flight'[c] = fl[c] /\ scr[c] = Wanted
  <2>1. locked /\ pendingLock
    OBVIOUS
  <2>2. PICK c \in Marked(result) : surf[c].output = o
    BY <2>1
  <2>3. c \in cs /\ result[c] \in {"queued", "undamaged"}
    BY DEF Marked
  <2>4. c \in Plugged /\ ~surf[c].framePending
    BY <2>3, <1>2
  <2>5. o \in Outputs
    BY <2>2, <2>4 DEF Surfaces
  <2>6. flight'[c] = Wanted \/ (flight'[c] = fl[c] /\ scr[c] = Wanted)
    BY <2>3, <1>2, <1>6
  <2> QED BY <2>1, <2>2, <2>4, <2>5, <2>6
<1>10. pendingLock' = (pendingLock /\ ~(marks # {} /\ AllConfirmed(confirmed')))
  BY <1>1
<1>11. confirmed \subseteq Outputs
  BY DEF TypeOK
<1> HIDE DEF marks, queued
<1>12. surfaces' \in [Plugged -> Surfaces]
  BY <1>4, <1>5
<1>13. flight' \in [Crtcs -> Pictures]
  BY <1>3, <1>6
<1>14. pendingLock' \in BOOLEAN /\ (pendingLock' => pendingLock)
  BY <1>10
<1>15. pendingLock /\ ~pendingLock' => ToSet(slots) \subseteq confirmed'
  BY <1>10 DEF AllConfirmed
<1>16. \A c \in Plugged : surf[c].framePending => surfaces'[c].framePending
  BY <1>5
<1>17. screen' = scr
  BY <1>1
<1> QED BY <1>5, <1>7, <1>8, <1>9, <1>11, <1>12, <1>13, <1>14, <1>15, <1>16, <1>17
   DEF RenderOutcome

-----------------------------------------------------------------------------
(* The steps that render.                                                  *)

CoveredBy(f, s) == f = "locked" \/ (f = "nothing" /\ s # "content")

\* A pass from tables in which every covered display is still covered, and
\* every frame in flight still known, keeps the invariant and uncovers
\* nothing while locked.
LEMMA RenderStep ==
    ASSUME NEW cs \in SUBSET Crtcs, NEW surf, NEW fl, NEW scr, NEW act \in BOOLEAN,
           IInv,
           surf \in [Plugged -> Surfaces],
           \A c \in Plugged : /\ surf[c].output = surfaces[c].output
                              /\ surf[c].index = surfaces[c].index,
           fl \in [Crtcs -> Pictures],
           scr \in [Crtcs -> Pictures],
           \A c \in Plugged : fl[c] # "nothing" => surf[c].framePending,
           \A c \in Crtcs \ Plugged : fl[c] = "nothing" /\ scr[c] = "nothing",
           ~act => \A c \in Crtcs : fl[c] = "nothing",
           \A c \in Plugged : Covered(c) => CoveredBy(fl[c], scr[c]),
           Render(cs, surf, fl, scr, act),
           active' = act,
           UNCHANGED <<hotplugVars, lockVars>>,
           idle' \subseteq Crtcs,
           ping' \in BOOLEAN
    PROVE  /\ IInv'
           /\ pendingLock' => pendingLock
           /\ locked => Exposed' \subseteq Exposed
<1> USE DEF hotplugVars, lockVars
<1>0. TypeOK
  BY DEF IInv
<1>out. RenderOutcome(surf, fl, scr, act)
  BY <1>0, RenderFacts
<1>1. /\ surfaces' \in [Plugged -> Surfaces]
      /\ \A c \in Plugged : /\ surfaces'[c].output = surf[c].output
                            /\ surfaces'[c].index = surf[c].index
                            /\ surf[c].framePending => surfaces'[c].framePending
      /\ screen' = scr
      /\ flight' \in [Crtcs -> Pictures]
      /\ \A c \in Crtcs : \/ flight'[c] = fl[c]
                          \/ /\ c \in Plugged
                             /\ act
                             /\ ~surf[c].framePending
                             /\ surfaces'[c].framePending
                             /\ flight'[c] = Wanted
      /\ confirmed' \subseteq Outputs
      /\ \A o \in confirmed' \ confirmed :
            /\ locked
            /\ \E c \in Plugged :
                  /\ surf[c].output = o
                  /\ ~surf[c].framePending
                  /\ \/ flight'[c] = Wanted
                     \/ flight'[c] = fl[c] /\ scr[c] = Wanted
      /\ pendingLock' \in BOOLEAN
      /\ pendingLock' => pendingLock
      /\ pendingLock /\ ~pendingLock' => ToSet(slots) \subseteq confirmed'
  BY <1>out DEF RenderOutcome
<1>same. \A c \in Plugged : /\ surfaces'[c].output = surfaces[c].output
                         /\ surfaces'[c].index = surfaces[c].index
  BY <1>1
<1>2. Plugged' = Plugged
  BY <1>1 DEF Plugged
<1>3. Plugged \subseteq Crtcs
  BY <1>0 DEF TypeOK
<1>4. ASSUME locked, NEW c \in Plugged, Covered(c)
      PROVE  Covered(c)'
  <2>1. CoveredBy(fl[c], scr[c])
    BY <1>4
  <2>2. flight'[c] = fl[c] \/ flight'[c] = "locked"
    BY <1>1, <1>3, <1>4 DEF Wanted
  <2>3. screen'[c] = scr[c]
    BY <1>1
  <2> QED BY <2>1, <2>2, <2>3 DEF Covered, CoveredBy
<1>5. TypeOK'
  BY <1>0, <1>1, <1>2 DEF TypeOK
<1>6. slots' # <<>> /\ (pendingLock' => locked') /\ (~locked' => holder' = NoLock)
  BY <1>1 DEF IInv
<1>7. SlotsFollowSurfaces'
  BY <1>same, <1>2 DEF IInv, SlotsFollowSurfaces
<1>8. OutputsDistinct'
  BY <1>same, <1>2 DEF IInv, OutputsDistinct
<1>9. FramesTracked'
  <2>1. ASSUME NEW c \in Plugged, flight'[c] # "nothing"
        PROVE  surfaces'[c].framePending
    BY <2>1, <1>1, <1>3
  <2>2. ASSUME NEW c \in Crtcs \ Plugged
        PROVE  flight'[c] = "nothing" /\ screen'[c] = "nothing"
    BY <2>2, <1>1
  <2>3. ASSUME ~act, NEW c \in Crtcs
        PROVE  flight'[c] = "nothing"
    BY <2>3, <1>1
  <2> QED BY <2>1, <2>2, <2>3, <1>2 DEF FramesTracked
<1>10. ConfirmedAreCovered'
  <2> SUFFICES ASSUME locked, NEW c \in Plugged,
                      ~pendingLock' \/ surfaces[c].output \in confirmed'
               PROVE  Covered(c)'
    BY <1>same, <1>2 DEF ConfirmedAreCovered
  <2>1. surfaces[c].output \in ToSet(slots)
    BY DEF IInv, SlotsFollowSurfaces, ToSet
  <2>2. CASE Covered(c)
    BY <2>2, <1>4
  <2>3. CASE ~Covered(c)
    <3>1. pendingLock /\ surfaces[c].output \notin confirmed
      BY <2>3 DEF IInv, ConfirmedAreCovered
    <3>2. surfaces[c].output \in confirmed' \ confirmed
      BY <3>1, <2>1, <1>1
    <3>3. PICK d \in Plugged : /\ surf[d].output = surfaces[c].output
                               /\ ~surf[d].framePending
                               /\ \/ flight'[d] = Wanted
                                  \/ flight'[d] = fl[d] /\ scr[d] = Wanted
      BY <3>2, <1>1
    <3>4. d = c
      BY <3>3 DEF IInv, OutputsDistinct
    <3>5. fl[c] = "nothing" /\ Wanted = "locked"
      BY <3>3, <3>4 DEF Wanted
    <3> QED BY <3>3, <3>4, <3>5, <1>1 DEF Covered
  <2> QED BY <2>2, <2>3
<1>11. OnlyHolderShown'
  BY DEF IInv, OnlyHolderShown
<1>12. locked => Exposed' \subseteq Exposed
  BY <1>2, <1>4 DEF Exposed
<1> QED BY <1>1, <1>5, <1>6, <1>7, <1>8, <1>9, <1>10, <1>11, <1>12 DEF IInv

\* The steps that render from the tables as they stand.
LEMMA PlainRender ==
    ASSUME IInv, NEW cs \in SUBSET Crtcs,
           Render(cs, surfaces, flight, screen, active),
           active' = active,
           UNCHANGED <<hotplugVars, lockVars>>,
           idle' \subseteq Crtcs,
           ping' \in BOOLEAN
    PROVE  /\ IInv'
           /\ pendingLock' => pendingLock
           /\ locked => Exposed' \subseteq Exposed
<1>1. TypeOK /\ FramesTracked
  BY DEF IInv
<1>2. /\ surfaces \in [Plugged -> Surfaces]
      /\ flight \in [Crtcs -> Pictures]
      /\ screen \in [Crtcs -> Pictures]
      /\ active \in BOOLEAN
  BY <1>1 DEF TypeOK
<1>3. \A c \in Plugged : Covered(c) => CoveredBy(flight[c], screen[c])
  BY DEF Covered, CoveredBy
<1>4. /\ \A c \in Plugged : flight[c] # "nothing" => surfaces[c].framePending
      /\ \A c \in Crtcs \ Plugged : flight[c] = "nothing" /\ screen[c] = "nothing"
      /\ ~active => \A c \in Crtcs : flight[c] = "nothing"
  BY <1>1 DEF FramesTracked
<1> HIDE DEF IInv
<1> QED BY <1>2, <1>3, <1>4, RenderStep

\* A vertical blank keeps the invariant.
LEMMA VblankStep ==
    ASSUME IInv, NEW c \in Crtcs, Vblank(c)
    PROVE  /\ IInv'
           /\ pendingLock' => pendingLock
           /\ locked => Exposed' \subseteq Exposed
<1> DEFINE surf == [surfaces EXCEPT ![c].framePending = FALSE]
           fl   == [flight EXCEPT ![c] = "nothing"]
           scr  == [screen EXCEPT ![c] = flight[c]]
<1>1. TypeOK /\ FramesTracked
  BY DEF IInv
<1>2. c \in Plugged /\ flight[c] # "nothing" /\ active
  BY <1>1 DEF Vblank, FramesTracked, TypeOK
<1>3. /\ fl \in [Crtcs -> Pictures]
      /\ scr \in [Crtcs -> Pictures]
      /\ active \in BOOLEAN
  BY <1>1 DEF TypeOK, Pictures
<1>4. /\ surf \in [Plugged -> Surfaces]
      /\ \A d \in Plugged : /\ surf[d].output = surfaces[d].output
                            /\ surf[d].index = surfaces[d].index
                            /\ d # c => surf[d] = surfaces[d]
  BY <1>1, <1>2 DEF TypeOK, Surfaces
<1>5. \A d \in Plugged : fl[d] # "nothing" => surf[d].framePending
  <2> SUFFICES ASSUME NEW d \in Plugged, fl[d] # "nothing"
               PROVE  surf[d].framePending
    OBVIOUS
  <2>1. d \in Crtcs
    BY <1>1 DEF TypeOK
  <2>2. d # c /\ fl[d] = flight[d]
    BY <2>1, <1>1 DEF TypeOK
  <2> QED BY <2>2, <1>1, <1>4 DEF FramesTracked
<1>6. \A d \in Crtcs \ Plugged : fl[d] = "nothing" /\ scr[d] = "nothing"
  BY <1>1, <1>2 DEF TypeOK, FramesTracked
<1>7. \A d \in Plugged : Covered(d) => CoveredBy(fl[d], scr[d])
  BY <1>1, <1>2 DEF TypeOK, Covered, CoveredBy
<1>8. /\ Render({c}, surf, fl, scr, active)
      /\ active' = active
      /\ UNCHANGED <<hotplugVars, lockVars>>
      /\ idle' = idle
      /\ ping' = ping
  BY DEF Vblank
<1>9. idle' \subseteq Crtcs /\ ping' \in BOOLEAN
  BY <1>1, <1>8 DEF TypeOK
<1>10. {c} \in SUBSET Crtcs
  OBVIOUS
<1>11. \A d \in Plugged : /\ surf[d].output = surfaces[d].output
                          /\ surf[d].index = surfaces[d].index
  BY <1>4
<1>12. ~active => \A d \in Crtcs : fl[d] = "nothing"
  BY <1>2
<1> HIDE DEF surf, fl, scr
<1> QED BY <1>2, <1>3, <1>4, <1>5, <1>6, <1>7, <1>8, <1>9, <1>10, <1>11, <1>12, RenderStep

\* A session switched back to keeps it.
LEMMA ActivateStep ==
    ASSUME IInv, NEW ok \in BOOLEAN, Activate(ok)
    PROVE  /\ IInv'
           /\ pendingLock' => pendingLock
           /\ locked => Exposed' \subseteq Exposed
<1>1. TypeOK /\ FramesTracked
  BY DEF IInv
<1>2. \A c \in Crtcs : flight[c] = "nothing"
  BY <1>1 DEF Activate, FramesTracked
<1>3. /\ Resumed \in [Plugged -> Surfaces]
      /\ \A c \in Plugged : /\ Resumed[c].output = surfaces[c].output
                            /\ Resumed[c].index = surfaces[c].index
  BY <1>1 DEF TypeOK, Surfaces, Resumed
<1>4. /\ flight \in [Crtcs -> Pictures]
      /\ screen \in [Crtcs -> Pictures]
      /\ Plugged \in SUBSET Crtcs
  BY <1>1 DEF TypeOK
<1>5. \A c \in Plugged : Covered(c) => CoveredBy(flight[c], screen[c])
  BY DEF Covered, CoveredBy
<1>6. \A c \in Crtcs \ Plugged : flight[c] = "nothing" /\ screen[c] = "nothing"
  BY <1>1 DEF FramesTracked
<1>7. /\ Render(Plugged, Resumed, flight, screen, ok)
      /\ active' = ok
      /\ UNCHANGED <<hotplugVars, lockVars>>
      /\ idle' \subseteq Crtcs
      /\ ping' \in BOOLEAN
  BY <1>1 DEF Activate, TypeOK
<1> QED BY <1>2, <1>3, <1>4, <1>5, <1>6, <1>7, RenderStep

-----------------------------------------------------------------------------
(* The steps that do not.                                                  *)

\* The requests of clients, which touch no table of the kernel's.
LEMMA RequestSteps ==
    ASSUME IInv, NEW l, NEW o,
           \/ l \in Locks /\ Lock(l)
           \/ Unlock
           \/ l \in Locks /\ o \in Outputs /\ NewSurface(l, o)
           \/ RequestRedraw
    PROVE  IInv'
<1>1. UNCHANGED <<scanned, slots, nextOutput, surfaces, flight, screen, idle, active>>
  BY DEF Lock, Unlock, NewSurface, RequestRedraw, hotplugVars, kernelVars
<1>2. Plugged' = Plugged
  BY <1>1 DEF Plugged
<1>3. /\ locked' \in BOOLEAN
      /\ pendingLock' \in BOOLEAN
      /\ pendingLock' => locked'
      /\ ~locked' => holder' = NoLock
      /\ holder' \in Locks \cup {NoLock}
      /\ confirmed' \subseteq Outputs
      /\ lockSurfaces' \subseteq Outputs \X Locks
      /\ ping' \in BOOLEAN
  <2>1. CASE l \in Locks /\ Lock(l)
    BY <2>1 DEF Lock
  <2>2. CASE Unlock
    BY <2>2 DEF Unlock
  <2>3. CASE l \in Locks /\ o \in Outputs /\ NewSurface(l, o)
    BY <2>3 DEF IInv, TypeOK, NewSurface, waitVars
  <2>4. CASE RequestRedraw
    BY <2>4 DEF IInv, TypeOK, RequestRedraw, lockVars, waitVars
  <2> QED BY <2>1, <2>2, <2>3, <2>4
<1>4. TypeOK'
  BY <1>1, <1>2, <1>3 DEF IInv, TypeOK
<1>5. SlotsFollowSurfaces'
  BY <1>1, <1>2 DEF IInv, SlotsFollowSurfaces
<1>6. OutputsDistinct'
  BY <1>1, <1>2 DEF IInv, OutputsDistinct
<1>7. FramesTracked'
  BY <1>1, <1>2 DEF IInv, FramesTracked
<1>8. ConfirmedAreCovered'
  <2>1. CASE l \in Locks /\ Lock(l)
    BY <2>1 DEF Lock, ConfirmedAreCovered
  <2>2. CASE Unlock
    BY <2>2 DEF Unlock, ConfirmedAreCovered
  <2>3. CASE NewSurface(l, o) \/ RequestRedraw
    <3>1. UNCHANGED <<locked, pendingLock, confirmed>>
      BY <2>3 DEF NewSurface, RequestRedraw, lockVars, waitVars
    <3> QED BY <3>1, <1>1, <1>2 DEF IInv, ConfirmedAreCovered, Covered
  <2> QED BY <2>1, <2>2, <2>3
<1>9. OnlyHolderShown'
  <2>1. CASE Lock(l) \/ Unlock
    BY <2>1 DEF Lock, Unlock, OnlyHolderShown
  <2>2. CASE l \in Locks /\ o \in Outputs /\ NewSurface(l, o)
    <3>1. /\ l = holder /\ l \in Locks
          /\ UNCHANGED <<holder, locked>>
          /\ lockSurfaces' = {s \in lockSurfaces : s[1] # o} \cup {<<o, l>>}
      BY <2>2 DEF NewSurface
    <3>2. \A s \in lockSurfaces' : s[2] = holder'
      BY <3>1 DEF IInv, OnlyHolderShown
    <3>3. \A s, t \in lockSurfaces' : s[1] = t[1] => s = t
      BY <3>1 DEF IInv, OnlyHolderShown
    <3>4. locked
      BY <3>1, LockAssumption DEF IInv
    <3> QED BY <3>1, <3>2, <3>3, <3>4 DEF OnlyHolderShown
  <2>3. CASE RequestRedraw
    BY <2>3 DEF RequestRedraw, lockVars, IInv, OnlyHolderShown
  <2> QED BY <2>1, <2>2, <2>3
<1>10. slots' # <<>>
  BY <1>1 DEF IInv
<1> QED BY <1>3, <1>4, <1>5, <1>6, <1>7, <1>8, <1>9, <1>10 DEF IInv

\* A session switched away from keeps it.
LEMMA PauseStep ==
    ASSUME IInv, Pause
    PROVE  IInv' /\ (locked => Exposed' \subseteq Exposed)
<1>1. /\ UNCHANGED <<scanned, slots, nextOutput, locked, holder, lockSurfaces,
                     pendingLock, confirmed, surfaces, idle, ping>>
      /\ active' = FALSE
      /\ flight' = [c \in Crtcs |-> "nothing"]
      /\ screen' = [c \in Crtcs |-> "nothing"]
  BY DEF Pause, hotplugVars, lockVars, waitVars
<1>2. Plugged' = Plugged
  BY <1>1 DEF Plugged
<1>3. TypeOK'
  BY <1>1, <1>2 DEF IInv, TypeOK, Pictures
<1>4. SlotsFollowSurfaces' /\ OutputsDistinct'
  BY <1>1, <1>2 DEF IInv, SlotsFollowSurfaces, OutputsDistinct
<1>5. FramesTracked'
  BY <1>1, <1>2 DEF IInv, TypeOK, FramesTracked
<1>6. \A c \in Crtcs : Covered(c)'
  BY <1>1 DEF Covered
<1>7. Plugged \subseteq Crtcs
  BY DEF IInv, TypeOK
<1>8. ConfirmedAreCovered' /\ Exposed' \subseteq Exposed
  BY <1>2, <1>6, <1>7 DEF ConfirmedAreCovered, Exposed
<1>9. OnlyHolderShown'
  BY <1>1 DEF IInv, OnlyHolderShown
<1> QED BY <1>1, <1>3, <1>4, <1>5, <1>8, <1>9 DEF IInv

\* A connector that comes or goes without a display changes the scanner's
\* memory and nothing else.
LEMMA UnusedSteps ==
    ASSUME IInv, NEW c \in Crtcs, ConnectFails(c) \/ DisconnectUnused(c)
    PROVE  IInv' /\ UNCHANGED <<Phase, Exposed>>
<1>1. /\ UNCHANGED <<slots, nextOutput, surfaces, flight, screen, locked, holder,
                     lockSurfaces, pendingLock, confirmed, idle, ping, active>>
      /\ scanned' = scanned \cup {c} \/ (scanned' = scanned \ {c} /\ c \notin Plugged)
  BY DEF ConnectFails, DisconnectUnused, kernelVars, lockVars, waitVars
<1>2. Plugged' = Plugged
  BY <1>1 DEF Plugged
<1>3. \A d \in Plugged : Covered(d)' = Covered(d)
  BY <1>1 DEF Covered
<1>4. TypeOK'
  BY <1>1, <1>2 DEF IInv, TypeOK
<1>5. SlotsFollowSurfaces' /\ OutputsDistinct' /\ FramesTracked'
  BY <1>1, <1>2 DEF IInv, SlotsFollowSurfaces, OutputsDistinct, FramesTracked
<1>6. ConfirmedAreCovered'
  BY <1>1, <1>2, <1>3 DEF IInv, ConfirmedAreCovered
<1>7. OnlyHolderShown'
  BY <1>1 DEF IInv, OnlyHolderShown
<1>8. UNCHANGED <<Phase, Exposed>>
  BY <1>1, <1>2, <1>3 DEF Phase, Exposed
<1> QED BY <1>1, <1>4, <1>5, <1>6, <1>7, <1>8 DEF IInv

\* A new connector keeps it.
LEMMA ConnectStep ==
    ASSUME IInv, NEW c \in Crtcs, Connect(c)
    PROVE  IInv' /\ Exposed' = Exposed
<1> DEFINE index == IF NoDisplay THEN 1 ELSE Len(slots) + 1
           fresh == [output |-> nextOutput, framePending |-> FALSE, index |-> index]
<1>1. /\ c \notin scanned
      /\ active
      /\ nextOutput <= MaxPlugs
      /\ scanned' = scanned \cup {c}
      /\ nextOutput' = nextOutput + 1
      /\ slots' = IF NoDisplay THEN [slots EXCEPT ![1] = nextOutput]
                  ELSE Append(slots, nextOutput)
      /\ surfaces' = [d \in Plugged \cup {c} |-> IF d = c THEN fresh ELSE surfaces[d]]
      /\ idle' = idle \cup {c}
      /\ UNCHANGED <<locked, holder, lockSurfaces, pendingLock, confirmed,
                     flight, screen, active>>
  BY DEF Connect, lockVars, waitVars
<1>2. ping' \in BOOLEAN
  BY DEF Connect, IInv, TypeOK
<1>3. /\ TypeOK /\ SlotsFollowSurfaces /\ OutputsDistinct /\ FramesTracked
      /\ slots # <<>>
  BY DEF IInv
<1>4. /\ Plugged' = Plugged \cup {c}
      /\ c \notin Plugged
      /\ Plugged \subseteq Crtcs
  BY <1>1, <1>3 DEF TypeOK, Plugged
<1>5. surfaces'[c] = fresh /\ \A d \in Plugged : surfaces'[d] = surfaces[d]
  BY <1>1, <1>4
<1>6. /\ slots \in Seq(Outputs)
      /\ nextOutput \in Outputs
      /\ nextOutput \in Nat
      /\ Len(slots) \in Nat \ {0}
  BY <1>1, <1>3, LockAssumption DEF TypeOK, Outputs
<1>7. NoDisplay => Len(slots) = 1
  BY <1>3, <1>6 DEF NoDisplay, SlotsFollowSurfaces
<1>8. /\ slots' \in Seq(Outputs)
      /\ Len(slots') = index
      /\ slots'[index] = nextOutput
      /\ ~NoDisplay => \A i \in 1..Len(slots) : slots'[i] = slots[i]
  <2>1. CASE NoDisplay
    BY <2>1, <1>1, <1>6, <1>7
  <2>2. CASE ~NoDisplay
    BY <2>2, <1>1, <1>6
  <2> QED BY <2>1, <2>2
<1>9. index \in Nat \ {0}
  BY <1>6
<1>10. fresh \in Surfaces
  BY <1>6, <1>9 DEF Surfaces
<1>11. surfaces' \in [Plugged' -> Surfaces]
  <2>1. \A d \in Plugged : surfaces[d] \in Surfaces
    BY <1>3 DEF TypeOK
  <2> HIDE DEF fresh
  <2> QED BY <2>1, <1>1, <1>4, <1>10
<1>12. TypeOK'
  <2>1. nextOutput' \in 1..(MaxPlugs + 1)
    BY <1>1, <1>3, LockAssumption DEF TypeOK
  <2> HIDE DEF index, fresh
  <2> QED BY <2>1, <1>1, <1>2, <1>3, <1>4, <1>8, <1>11 DEF TypeOK
<1>13. SlotsFollowSurfaces'
  <2>1. ASSUME NEW d \in Plugged
        PROVE  ~NoDisplay /\ surfaces[d].index \in 1..Len(slots)
    BY <1>3, <1>6 DEF NoDisplay, SlotsFollowSurfaces
  <2>2. ASSUME NEW d \in Plugged'
        PROVE  /\ surfaces'[d].index \in DOMAIN slots'
               /\ slots'[surfaces'[d].index] = surfaces'[d].output
    <3>1. CASE d = c
      BY <3>1, <1>5, <1>8, <1>9
    <3>2. CASE d \in Plugged
      BY <3>2, <2>1, <1>3, <1>5, <1>6, <1>8 DEF SlotsFollowSurfaces
    <3> QED BY <3>1, <3>2, <1>4
  <2>3. ASSUME NEW d \in Plugged', NEW e \in Plugged',
               surfaces'[d].index = surfaces'[e].index
        PROVE  d = e
    <3>1. \A f \in Plugged : surfaces'[f].index # surfaces'[c].index
      BY <2>1, <1>5, <1>6
    <3> QED BY <3>1, <2>3, <1>3, <1>4, <1>5 DEF SlotsFollowSurfaces
  <2>4. ASSUME NEW i \in DOMAIN slots'
        PROVE  \E d \in Plugged' : surfaces'[d].index = i
    <3>1. CASE i = index
      BY <3>1, <1>4, <1>5
    <3>2. CASE i # index
      <4>1. ~NoDisplay /\ i \in DOMAIN slots
        BY <3>2, <1>6, <1>7, <1>8
      <4>2. PICK d \in Plugged : surfaces[d].index = i
        BY <4>1, <1>3 DEF NoDisplay, SlotsFollowSurfaces
      <4> QED BY <4>2, <1>4, <1>5
    <3> QED BY <3>1, <3>2
  <2> QED BY <2>2, <2>3, <2>4 DEF SlotsFollowSurfaces
<1>14. OutputsDistinct'
  <2>1. \A d \in Plugged : surfaces[d].output \in Nat /\ surfaces[d].output < nextOutput
    BY <1>3 DEF TypeOK, OutputsDistinct, Surfaces, Outputs
  <2>2. surfaces'[c].output = nextOutput
    BY <1>5
  <2>3. \A d \in Plugged' : surfaces'[d].output < nextOutput'
    BY <2>1, <2>2, <1>1, <1>4, <1>5, <1>6
  <2>4. ASSUME NEW d \in Plugged', NEW e \in Plugged',
               surfaces'[d].output = surfaces'[e].output
        PROVE  d = e
    <3>1. \A f \in Plugged : surfaces'[f].output # surfaces'[c].output
      BY <2>1, <2>2, <1>5, <1>6
    <3> QED BY <3>1, <2>4, <1>3, <1>4, <1>5 DEF OutputsDistinct
  <2> QED BY <2>3, <2>4 DEF OutputsDistinct
<1>15. FramesTracked'
  BY <1>1, <1>3, <1>4, <1>5 DEF FramesTracked
<1>16. Covered(c) /\ \A d \in Crtcs : Covered(d)' = Covered(d)
  BY <1>1, <1>3, <1>4 DEF FramesTracked, Covered
<1>17. ConfirmedAreCovered'
  BY <1>1, <1>4, <1>5, <1>16 DEF IInv, ConfirmedAreCovered
<1>18. OnlyHolderShown'
  BY <1>1 DEF IInv, OnlyHolderShown
<1>19. Exposed' = Exposed
  BY <1>4, <1>16 DEF Exposed
<1>20. slots' # <<>>
  BY <1>8, <1>9
<1> QED BY <1>1, <1>12, <1>13, <1>14, <1>15, <1>17, <1>18, <1>19, <1>20 DEF IInv

\* A lost connector keeps it.
LEMMA DisconnectStep ==
    ASSUME IInv, NEW c \in Crtcs, Disconnect(c)
    PROVE  /\ IInv'
           /\ pendingLock' => pendingLock
           /\ Exposed' \subseteq Exposed
<1> DEFINE gone == surfaces[c].output
           i    == surfaces[c].index
<1>1. /\ c \in Plugged
      /\ scanned' = scanned \ {c}
      /\ lockSurfaces' = {s \in lockSurfaces : s[1] # gone}
      /\ confirmed' = confirmed \ {gone}
      /\ flight' = [flight EXCEPT ![c] = "nothing"]
      /\ screen' = [screen EXCEPT ![c] = "nothing"]
      /\ surfaces' = Shifted(c)
      /\ Len(slots) > 1 =>
            /\ slots' = RemoveAt(slots, i)
            /\ pendingLock' = (pendingLock /\ ~(ToSet(slots') \subseteq confirmed'))
      /\ ~(Len(slots) > 1) => slots' = slots /\ pendingLock' = FALSE
      /\ UNCHANGED <<nextOutput, locked, holder, idle, active>>
  BY DEF Disconnect
<1>2. /\ TypeOK /\ SlotsFollowSurfaces /\ OutputsDistinct /\ FramesTracked
      /\ ConfirmedAreCovered /\ OnlyHolderShown
      /\ slots # <<>>
  BY DEF IInv
<1>3. /\ ping' \in BOOLEAN
      /\ pendingLock' \in BOOLEAN
      /\ pendingLock' => pendingLock
  <2>1. ping' \in BOOLEAN
    BY <1>2 DEF Disconnect, TypeOK
  <2> QED BY <2>1, <1>1, <1>2 DEF TypeOK
<1>4. /\ Plugged' = Plugged \ {c}
      /\ Plugged \subseteq Crtcs
      /\ Plugged \subseteq scanned
  BY <1>1, <1>2 DEF TypeOK, Plugged, Shifted
<1>5. /\ slots \in Seq(Outputs)
      /\ Len(slots) \in Nat \ {0}
      /\ i \in 1..Len(slots)
      /\ slots[i] = gone
  BY <1>1, <1>2 DEF TypeOK, SlotsFollowSurfaces
<1>6. ASSUME NEW d \in Plugged \ {c}
      PROVE  /\ surfaces[d] \in Surfaces
             /\ surfaces'[d] \in Surfaces
             /\ surfaces'[d].output = surfaces[d].output
             /\ surfaces'[d].framePending = surfaces[d].framePending
             /\ surfaces'[d].index = IF surfaces[d].index > i
                                     THEN surfaces[d].index - 1
                                     ELSE surfaces[d].index
             /\ surfaces[d].index \in 1..Len(slots)
             /\ surfaces[d].index # i
             /\ slots[surfaces[d].index] = surfaces[d].output
  <2>1. /\ surfaces[d] \in Surfaces
        /\ surfaces[d].index \in 1..Len(slots)
        /\ slots[surfaces[d].index] = surfaces[d].output
    BY <1>2, <1>5 DEF TypeOK, SlotsFollowSurfaces
  <2>2. surfaces[d].index # i
    BY <1>1, <1>2 DEF SlotsFollowSurfaces
  <2>3. surfaces'[d] = IF surfaces[d].index > i
                       THEN [surfaces[d] EXCEPT !.index = @ - 1] ELSE surfaces[d]
    BY <1>1 DEF Shifted
  <2>4. i \in Nat
    BY <1>5
  <2>5. surfaces[d].index > i => surfaces[d].index - 1 \in Nat
    BY <2>1, <2>4
  <2> HIDE DEF i
  <2> QED BY <2>1, <2>2, <2>3, <2>4, <2>5 DEF Surfaces
<1>7. ASSUME Len(slots) > 1
      PROVE  /\ slots' \in Seq(Outputs)
             /\ slots' # <<>>
             /\ SlotsFollowSurfaces'
             /\ pendingLock /\ ~pendingLock' =>
                   Plugged \ {c} = {} \/ ToSet(slots') \subseteq confirmed'
  <2>1. /\ slots' = RemoveAt(slots, i)
        /\ pendingLock' = (pendingLock /\ ~(ToSet(slots') \subseteq confirmed'))
    BY <1>1, <1>7
  <2>2. /\ slots' \in Seq(Outputs)
        /\ Len(slots') = Len(slots) - 1
        /\ \A j \in 1..(Len(slots) - 1) :
             slots'[j] = IF j < i THEN slots[j] ELSE slots[j + 1]
    BY <2>1, <1>5, RemoveAtFacts
  <2>3. slots' # <<>>
    BY <2>2, <1>5, <1>7
  <2> HIDE DEF i
  <2>4. ASSUME NEW d \in Plugged \ {c}
        PROVE  /\ surfaces'[d].index \in DOMAIN slots'
               /\ slots'[surfaces'[d].index] = surfaces'[d].output
    BY <2>2, <1>5, <1>6
  <2>5. ASSUME NEW d \in Plugged \ {c}, NEW e \in Plugged \ {c},
               surfaces'[d].index = surfaces'[e].index
        PROVE  d = e
    <3>1. surfaces[d].index = surfaces[e].index
      BY <2>5, <1>5, <1>6
    <3> QED BY <3>1, <1>2 DEF SlotsFollowSurfaces
  <2>6. ASSUME NEW j \in DOMAIN slots'
        PROVE  \E d \in Plugged \ {c} : surfaces'[d].index = j
    <3> DEFINE old == IF j < i THEN j ELSE j + 1
    <3>1. old \in DOMAIN slots /\ old # i
      BY <2>2, <1>5
    <3>2. PICK d \in Plugged : surfaces[d].index = old
      BY <3>1, <1>1, <1>2 DEF SlotsFollowSurfaces
    <3>3. d # c
      BY <3>1, <3>2 DEF i
    <3>4. j \in Nat /\ i \in Nat
      BY <2>2, <1>5
    <3>5. surfaces'[d].index = IF old > i THEN old - 1 ELSE old
      BY <3>2, <3>3, <1>6
    <3>6. surfaces'[d].index = j
      BY <3>4, <3>5
    <3> QED BY <3>3, <3>6
  <2>7. SlotsFollowSurfaces'
    BY <2>4, <2>5, <2>6, <1>4 DEF SlotsFollowSurfaces
  <2>8. pendingLock /\ ~pendingLock' => ToSet(slots') \subseteq confirmed'
    BY <2>1
  <2> QED BY <2>2, <2>3, <2>7, <2>8
<1>8. ASSUME ~(Len(slots) > 1)
      PROVE  /\ slots' \in Seq(Outputs)
             /\ slots' # <<>>
             /\ SlotsFollowSurfaces'
             /\ pendingLock /\ ~pendingLock' =>
                   Plugged \ {c} = {} \/ ToSet(slots') \subseteq confirmed'
  <2>1. slots' = slots /\ Len(slots) = 1
    <3>1. slots' = slots
      BY <1>1, <1>8, Zenon
    <3>2. Len(slots) \in Nat \ {0} /\ ~(Len(slots) > 1)
      BY <1>5, <1>8
    <3>3. \A n \in Nat \ {0} : ~(n > 1) => n = 1
      OBVIOUS
    <3>4. Len(slots) = 1
      BY <3>2, <3>3, Zenon
    <3> QED BY <3>1, <3>4
  <2>2. Plugged \ {c} = {}
    <3>1. \A d \in Plugged \ {c} : FALSE
      BY <2>1, <1>5, <1>6
    <3> QED BY <3>1
  <2>3. SlotsFollowSurfaces'
    BY <2>1, <2>2, <1>4 DEF SlotsFollowSurfaces
  <2> QED BY <2>1, <2>2, <2>3, <1>2, <1>5
<1>9. /\ slots' \in Seq(Outputs)
      /\ slots' # <<>>
      /\ SlotsFollowSurfaces'
      /\ pendingLock /\ ~pendingLock' =>
            Plugged \ {c} = {} \/ ToSet(slots') \subseteq confirmed'
  BY <1>7, <1>8
<1>10. surfaces' \in [Plugged' -> Surfaces]
  <2>1. surfaces' = [d \in Plugged \ {c} |-> surfaces'[d]]
    BY <1>1 DEF Shifted
  <2> QED BY <2>1, <1>4, <1>6
<1>11. TypeOK'
  <2>1. flight' \in [Crtcs -> Pictures] /\ screen' \in [Crtcs -> Pictures]
    BY <1>1, <1>2 DEF TypeOK, Pictures
  <2> HIDE DEF gone, i
  <2> QED BY <2>1, <1>1, <1>2, <1>3, <1>4, <1>9, <1>10 DEF TypeOK
<1>12. OutputsDistinct'
  BY <1>1, <1>2, <1>4, <1>6 DEF OutputsDistinct
<1>13. FramesTracked'
  BY <1>1, <1>2, <1>4, <1>6 DEF TypeOK, FramesTracked
<1>14. \A d \in Plugged \ {c} : Covered(d)' = Covered(d)
  BY <1>1, <1>2, <1>4 DEF TypeOK, Covered
<1>15. ConfirmedAreCovered'
  <2> SUFFICES ASSUME locked, NEW d \in Plugged \ {c},
                      ~pendingLock' \/ surfaces[d].output \in confirmed'
               PROVE  Covered(d)
    BY <1>1, <1>4, <1>6, <1>14 DEF ConfirmedAreCovered
  <2>1. CASE ~pendingLock
    BY <2>1, <1>2 DEF ConfirmedAreCovered
  <2>2. CASE surfaces[d].output \in confirmed'
    BY <2>2, <1>1, <1>2 DEF ConfirmedAreCovered
  <2>3. CASE pendingLock /\ ~pendingLock'
    <3>1. ToSet(slots') \subseteq confirmed'
      BY <2>3, <1>9
    <3>2. surfaces[d].output \in ToSet(slots')
      BY <1>4, <1>6, <1>9 DEF SlotsFollowSurfaces, ToSet
    <3> QED BY <3>1, <3>2, <1>1, <1>2 DEF ConfirmedAreCovered
  <2> QED BY <2>1, <2>2, <2>3
<1>16. OnlyHolderShown'
  BY <1>1, <1>2 DEF OnlyHolderShown
<1>17. Exposed' \subseteq Exposed
  BY <1>4, <1>14 DEF Exposed
<1>18. (pendingLock' => locked') /\ (~locked' => holder' = NoLock)
  BY <1>1, <1>3 DEF IInv
<1> QED BY <1>3, <1>9, <1>11, <1>12, <1>13, <1>15, <1>16, <1>17, <1>18 DEF IInv

-----------------------------------------------------------------------------
(* The theorems.                                                           *)

\* The inductive invariant holds at the start.
LEMMA InitIInv == ASSUME Init PROVE IInv
<1>1. /\ Plugged = {}
      /\ slots = <<0>> /\ Len(slots) = 1
      /\ surfaces = [c \in {} |-> 0]
  BY DEF Init, Plugged
<1>2. TypeOK
  <2>1. surfaces \in [Plugged -> Surfaces]
    BY <1>1
  <2>2. slots \in Seq(Outputs) /\ nextOutput \in 1..(MaxPlugs + 1)
    BY <1>1, LockAssumption DEF Init, Outputs
  <2> QED BY <2>1, <2>2, <1>1 DEF Init, TypeOK, Pictures
<1>3. SlotsFollowSurfaces /\ OutputsDistinct /\ FramesTracked /\ ConfirmedAreCovered
  BY <1>1 DEF Init, SlotsFollowSurfaces, OutputsDistinct, FramesTracked, ConfirmedAreCovered
<1>4. OnlyHolderShown
  BY DEF Init, OnlyHolderShown
<1> QED BY <1>1, <1>2, <1>3, <1>4 DEF Init, IInv

\* A step that keeps the lock, asks for no new wait and uncovers nothing under
\* a lock is a step of LockPromise, or invisible to it.
LEMMA QuietStep ==
    ASSUME IInv, IInv',
           locked' = locked,
           pendingLock' => pendingLock,
           locked => Exposed' \subseteq Exposed
    PROVE  [Promise!Next]_(Promise!vars)
<1>1. /\ Exposed \subseteq Crtcs /\ Exposed' \subseteq Crtcs
      /\ locked \in BOOLEAN /\ pendingLock \in BOOLEAN /\ pendingLock' \in BOOLEAN
  BY DEF IInv, TypeOK, Exposed
<1>2. CASE ~locked
  <2>1. Phase = "unlocked" /\ Phase' = "unlocked"
    BY <1>2 DEF Phase
  <2> QED BY <2>1, <1>1 DEF Promise!Next, Promise!Show
<1>3. CASE locked /\ pendingLock /\ pendingLock'
  <2>1. Phase = "asked" /\ Phase' = "asked"
    BY <1>3 DEF Phase
  <2> QED BY <2>1, <1>3 DEF Promise!Next, Promise!Cover
<1>4. CASE locked /\ pendingLock /\ ~pendingLock'
  <2>1. Phase = "asked" /\ Phase' = "told"
    BY <1>4 DEF Phase
  <2>2. Exposed' = {}
    BY <1>4 DEF IInv, ConfirmedAreCovered, Exposed
  <2> QED BY <2>1, <2>2 DEF Promise!Next, Promise!Tell
<1>5. CASE locked /\ ~pendingLock
  <2>1. Phase = "told" /\ Phase' = "told"
    BY <1>5 DEF Phase
  <2>2. Exposed = {}
    BY <1>5 DEF IInv, ConfirmedAreCovered, Exposed
  <2> QED BY <2>1, <2>2, <1>5 DEF Promise!vars
<1> QED BY <1>1, <1>2, <1>3, <1>4, <1>5

\* Every step keeps the invariant and is one LockPromise allows.
LEMMA StepLemma ==
    ASSUME IInv, [Next]_vars
    PROVE  IInv' /\ [Promise!Next]_(Promise!vars)
<1>0. TypeOK
  BY DEF IInv
<1>1. ASSUME NEW l \in Locks, Lock(l)
      PROVE  IInv' /\ [Promise!Next]_(Promise!vars)
  <2>1. IInv'
    BY <1>1, RequestSteps
  <2>2. Phase = "unlocked" /\ Phase' = "asked"
    BY <1>1 DEF Lock, Phase
  <2>3. Exposed' = Exposed
    BY <1>1 DEF Lock, kernelVars, Exposed, Covered, Plugged
  <2> QED BY <2>1, <2>2, <2>3 DEF Promise!Next, Promise!Ask
<1>2. ASSUME Unlock
      PROVE  IInv' /\ [Promise!Next]_(Promise!vars)
  <2>1. IInv'
    BY <1>2, RequestSteps
  <2>2. Phase = "told" /\ Phase' = "unlocked"
    BY <1>2 DEF Unlock, Phase
  <2>3. Exposed' = Exposed
    BY <1>2 DEF Unlock, kernelVars, Exposed, Covered, Plugged
  <2> QED BY <2>1, <2>2, <2>3 DEF Promise!Next, Promise!Release
<1>3. ASSUME \/ \E l \in Locks, o \in Outputs : NewSurface(l, o)
             \/ RequestRedraw
      PROVE  IInv' /\ [Promise!Next]_(Promise!vars)
  <2>1. IInv'
    BY <1>3, RequestSteps
  <2>2. UNCHANGED <<surfaces, flight, screen, locked, pendingLock>>
    BY <1>3 DEF NewSurface, RequestRedraw, kernelVars, lockVars, waitVars
  <2>3. UNCHANGED <<Phase, Exposed>>
    BY <2>2 DEF Phase, Exposed, Covered, Plugged
  <2> QED BY <2>1, <2>3 DEF Promise!vars
<1>4. ASSUME Redraw
      PROVE  IInv' /\ [Promise!Next]_(Promise!vars)
  <2>1. /\ Render(Plugged, surfaces, flight, screen, active)
        /\ ping' \in BOOLEAN
        /\ active' = active
        /\ UNCHANGED <<hotplugVars, lockVars>>
        /\ idle' \subseteq Crtcs
        /\ Plugged \in SUBSET Crtcs
    BY <1>0, <1>4 DEF Redraw, TypeOK
  <2>2. IInv' /\ (pendingLock' => pendingLock) /\ (locked => Exposed' \subseteq Exposed)
    BY <2>1, PlainRender
  <2> QED BY <2>1, <2>2, QuietStep DEF lockVars
<1>5. ASSUME NEW c \in Crtcs, FirstFrame(c)
      PROVE  IInv' /\ [Promise!Next]_(Promise!vars)
  <2>1. /\ Render({c}, surfaces, flight, screen, active)
        /\ ping' \in BOOLEAN
        /\ active' = active
        /\ UNCHANGED <<hotplugVars, lockVars>>
        /\ idle' \subseteq Crtcs
        /\ {c} \in SUBSET Crtcs
    BY <1>0, <1>5 DEF FirstFrame, TypeOK
  <2>2. IInv' /\ (pendingLock' => pendingLock) /\ (locked => Exposed' \subseteq Exposed)
    BY <2>1, PlainRender
  <2> QED BY <2>1, <2>2, QuietStep DEF lockVars
<1>6. ASSUME NEW c \in Crtcs, Vblank(c)
      PROVE  IInv' /\ [Promise!Next]_(Promise!vars)
  <2>1. locked' = locked
    BY <1>6 DEF Vblank, lockVars
  <2> QED BY <2>1, <1>6, VblankStep, QuietStep
<1>7. ASSUME Pause
      PROVE  IInv' /\ [Promise!Next]_(Promise!vars)
  <2>1. locked' = locked /\ pendingLock' = pendingLock
    BY <1>7 DEF Pause, lockVars, waitVars
  <2> QED BY <2>1, <1>7, PauseStep, QuietStep
<1>8. ASSUME NEW ok \in BOOLEAN, Activate(ok)
      PROVE  IInv' /\ [Promise!Next]_(Promise!vars)
  <2>1. locked' = locked
    BY <1>8 DEF Activate, lockVars
  <2> QED BY <2>1, <1>8, ActivateStep, QuietStep
<1>9. ASSUME NEW c \in Crtcs, Connect(c)
      PROVE  IInv' /\ [Promise!Next]_(Promise!vars)
  <2>1. locked' = locked /\ pendingLock' = pendingLock
    BY <1>9 DEF Connect, lockVars, waitVars
  <2> QED BY <2>1, <1>9, ConnectStep, QuietStep
<1>10. ASSUME NEW c \in Crtcs, ConnectFails(c) \/ DisconnectUnused(c)
       PROVE  IInv' /\ [Promise!Next]_(Promise!vars)
  BY <1>10, UnusedSteps DEF Promise!vars
<1>11. ASSUME NEW c \in Crtcs, Disconnect(c)
       PROVE  IInv' /\ [Promise!Next]_(Promise!vars)
  <2>1. locked' = locked
    BY <1>11 DEF Disconnect
  <2> QED BY <2>1, <1>11, DisconnectStep, QuietStep
<1>12. ASSUME UNCHANGED vars
       PROVE  IInv' /\ [Promise!Next]_(Promise!vars)
  <2>1. UNCHANGED <<scanned, surfaces, slots, nextOutput, idle, ping, active, flight,
                    screen, locked, holder, pendingLock, confirmed, lockSurfaces>>
    BY <1>12 DEF vars, hotplugVars, kernelVars, lockVars, waitVars
  <2>2. IInv'
    BY <2>1 DEF IInv, TypeOK, SlotsFollowSurfaces, OutputsDistinct, FramesTracked,
                ConfirmedAreCovered, Covered, OnlyHolderShown, Plugged
  <2>3. UNCHANGED <<Phase, Exposed>>
    BY <2>1 DEF Phase, Exposed, Covered, Plugged
  <2> QED BY <2>2, <2>3 DEF Promise!vars
<1> HIDE DEF IInv
<1> QED BY <1>1, <1>2, <1>3, <1>4, <1>5, <1>6, <1>7, <1>8, <1>9, <1>10, <1>11, <1>12
        DEF Next

\* The inductive invariant holds in every state a run can reach: among others,
\* types, ConfirmedAreCovered, SlotsFollowSurfaces and OnlyHolderShown.
THEOREM InvariantHolds == Spec => []IInv
<1>1. Init => IInv
  BY InitIInv
<1>2. IInv /\ [Next]_vars => IInv'
  BY StepLemma
<1> QED BY <1>1, <1>2, PTL DEF Spec

\* Once the locker was told, every display shows its surface or black, whatever
\* is plugged, lost or paused meanwhile (handlers/session_lock.rs, render.rs).
THEOREM LockSafe == Spec => []ConfirmedAreCovered
<1>1. IInv => ConfirmedAreCovered
  BY DEF IInv
<1> QED BY <1>1, InvariantHolds, PTL

\* The session lock is sound for any displays and lockers: the slots of the
\* surfaces follow hotplug, and only the holder's surfaces are kept.
THEOREM LockStaysSound == Spec => []LockIsSound
<1>1. IInv => LockIsSound
  BY DEF IInv, LockIsSound
<1> QED BY <1>1, InvariantHolds, PTL

\* The compositor implements LockPromise: once told, a locker can rely on no
\* display showing the session until it unlocks - for any number of displays.
THEOREM PromiseHolds == Spec => PromiseKept
<1>1. Init => Promise!Init
  BY DEF Init, Promise!Init, Phase, Exposed, Plugged
<1>2. IInv /\ [Next]_vars => [Promise!Next]_(Promise!vars)
  BY StepLemma
<1> QED BY <1>1, <1>2, InvariantHolds, PTL DEF Spec, PromiseKept, Promise!Spec
=============================================================================
