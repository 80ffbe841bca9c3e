---------------------------- MODULE Frames_proofs ----------------------------
(***************************************************************************)
(* What holds of FrameDamage for any monitors, any number of changes and   *)
(* any number of faults; and of TermFrames, which brings a terminal's      *)
(* changes to the texture that FrameDamage takes versions of.              *)
(***************************************************************************)
EXTENDS FrameDamage, TermFrames, FiniteSetTheorems, TLAPS

-----------------------------------------------------------------------------
(* The inductive invariant.                                                *)

\* What a target's tracker takes the texture to hold, the texture does hold.
KnownIsHeld ==
    \A i \in Index : target[i] # None => target[i].known \in {None, target[i].shows}

\* Unless it has news to come, a monitor's last frame shows what the target it
\* refers to was last drawn with, as far as anybody knows; and so for its label.
ContentReached(m) ==
    m \notin news /\ seen[m].content # None /\ target[seen[m].content] # None =>
       target[seen[m].content].known \in {None, screen[m].content}
LabelReached(m) == m \notin labelNews /\ seen[m].label => screen[m].label = label[m]

SeenIsShown ==
    \A m \in Monitors : seen[m] # None /\ trouble[m] # "show" =>
       screen[m] # None /\ ContentReached(m) /\ LabelReached(m)

\* A frame that was taken as shown and was not had everything in it, so that one
\* that lacks something differs from it.
LostWasWhole ==
    \A m \in Monitors : seen[m] # None /\ trouble[m] = "show" =>
       seen[m].content # None /\ seen[m].label

IInv == TypeOK /\ KnownIsHeld /\ SeenIsShown /\ LostWasWhole /\ RestIsCurrent /\ CaptureIsCurrent

-----------------------------------------------------------------------------
(* The connected monitors and their indexes.                               *)

\* The types but for the slots, the caches and what is shown.
SlotTypes  == slots \in Seq(Monitors) /\ IsInjective(slots)
CacheTypes == /\ target \in [Index -> Targets \cup {None}]
              /\ label \in [Monitors -> Nat \cup {None}]
WorldTypes == /\ version \in [Monitors -> Nat] /\ title \in [Monitors -> Nat]
              /\ mode \in [Monitors -> Modes]
ShowTypes  == /\ seen \in [Monitors -> Frames \cup {None}]
              /\ screen \in [Monitors -> Pictures \cup {None}]
              /\ trouble \in [Monitors -> {"none", "build", "show"}]
FlagTypes  == /\ {news, labelNews, pending, idle, due, preview, unasked} \subseteq SUBSET Monitors
              /\ pending \cup preview \subseteq Connected
              /\ pinged \in BOOLEAN
              /\ changes \in 0..MaxChanges /\ faults \in 0..MaxFaults
PictureType == picture = None \/ picture.shows \in Pictures

\* The types, by what they are about.
LEMMA Types ==
    TypeOK <=> SlotTypes /\ CacheTypes /\ WorldTypes /\ ShowTypes /\ FlagTypes /\ PictureType
BY DEF TypeOK, SlotTypes, CacheTypes, WorldTypes, ShowTypes, FlagTypes, PictureType

\* A connected monitor has an index, which is among those there are targets for.
LEMMA Indexes ==
    ASSUME SlotTypes
    PROVE  /\ Connected \subseteq Monitors
           /\ DOMAIN slots \subseteq Index
           /\ \A m \in Connected : IndexOf(m) \in Index /\ IndexOf(m) \in DOMAIN slots
                                   /\ slots[IndexOf(m)] = m
<1>1. /\ slots \in [1..Len(slots) -> Monitors] /\ Len(slots) \in Nat
      /\ DOMAIN slots = 1..Len(slots)
  BY DEF SlotTypes
<1>2. slots \in Injection(1..Len(slots), Monitors)
  BY <1>1 DEF SlotTypes, IsInjective, Injection
<1>3. Cardinality(1..Len(slots)) <= Cardinality(Monitors)
  BY <1>2, MonitorsAssumption, FS_Injection
<1>4. Cardinality(1..Len(slots)) = Len(slots)
  <2> DEFINE n == Len(slots)
  <2>1. 1 \in Int /\ n \in Int /\ n \in Nat
    BY <1>1
  <2> HIDE DEF n
  <2>2. Cardinality(1..n) = IF 1 > n THEN 0 ELSE n - 1 + 1
    BY <2>1, FS_Interval, Zenon
  <2>3. Cardinality(1..n) = n
    BY <2>1, <2>2
  <2> QED BY <2>3 DEF n
<1>5. Cardinality(Monitors) \in Nat
  BY MonitorsAssumption, FS_CardinalityType
<1>6. DOMAIN slots \subseteq Index
  BY <1>1, <1>3, <1>4, <1>5 DEF Index
<1>7. Connected \subseteq Monitors
  BY <1>1 DEF Connected
<1>8. ASSUME NEW m \in Connected
      PROVE  IndexOf(m) \in DOMAIN slots /\ slots[IndexOf(m)] = m
  BY DEF Connected, IndexOf
<1> QED BY <1>6, <1>7, <1>8
-----------------------------------------------------------------------------
(* Targets.                                                                *)

\* None is none of the values it stands beside.
LEMMA NoneIsNone ==
    /\ \A i \in Index : i # None
    /\ \A c \in Contents : c # None
    /\ \A p \in Pictures : p # None
    /\ \A t \in Targets : t # None
    /\ \A f \in Frames : f # None
  BY NoneAssumption DEF Index

\* ensure_content_target leaves a target of the monitor's own size, and drawing
\* makes it hold, and known to hold, the monitor's content.
LEMMA TargetFacts ==
    ASSUME SlotTypes, CacheTypes, WorldTypes, NEW m \in Connected
    PROVE  /\ Target(m) \in Targets /\ Blank(m) \in Targets
           /\ Blank(m).known = None
           /\ Target(m) = target[IndexOf(m)] \/ Target(m) = Blank(m)
           /\ Picture(m, mode[m]) \in Contents
           /\ Drawn(m) \in Targets
           /\ Drawn(m).known = Picture(m, mode[m])
           /\ Drawn(m).shows = Picture(m, mode[m])
<1>1. m \in Monitors /\ IndexOf(m) \in Index
  BY Indexes
<1>2. Picture(m, mode[m]) \in Contents
  BY <1>1 DEF Picture, Contents, WorldTypes
<1>3. Blank(m) \in Targets /\ Blank(m).known = None /\ Blank(m).mode = mode[m]
  BY <1>1 DEF Blank, Targets, WorldTypes
<1>4. /\ Target(m) \in Targets /\ Target(m).mode = mode[m]
      /\ Target(m) = target[IndexOf(m)] \/ Target(m) = Blank(m)
  BY <1>1, <1>3 DEF Target, CacheTypes
<1> DEFINE t == Target(m)
           p == Picture(m, mode[m])
<1>5. Drawn(m) = [t EXCEPT !.shows = p, !.known = p]
  BY <1>4 DEF Drawn
<1> HIDE DEF t, p
<1>6. t \in Targets /\ p \in Contents
  BY <1>2, <1>4 DEF t, p
<1>7. /\ [t EXCEPT !.shows = p, !.known = p] \in Targets
      /\ [t EXCEPT !.shows = p, !.known = p].known = p
      /\ [t EXCEPT !.shows = p, !.known = p].shows = p
  BY <1>6 DEF Targets
<1> QED BY <1>2, <1>3, <1>4, <1>5, <1>7 DEF p

\* Drawing that reports no damage found the target as it leaves it.
LEMMA Undamaged ==
    ASSUME SlotTypes, CacheTypes, WorldTypes, NEW m \in Connected, ~Damaged(m)
    PROVE  /\ target[IndexOf(m)] \in Targets
           /\ target[IndexOf(m)].known = Picture(m, mode[m])
<1>1. Target(m).known = Picture(m, mode[m])
  BY TargetFacts DEF Damaged
<1>2. Target(m) # Blank(m)
  BY <1>1, TargetFacts, NoneIsNone
<1> QED BY <1>1, <1>2, TargetFacts

-----------------------------------------------------------------------------
(* Building a frame's elements.                                            *)

\* The elements of a frame name the monitor's own index, or no content.
LEMMA ElementFacts ==
    ASSUME SlotTypes, FlagTypes, NEW m \in Connected, NEW e \in Elements(m)
    PROVE  /\ e \in Frames /\ Whole(m) \in Elements(m)
           /\ e.content # None => e.content = IndexOf(m)
           /\ ~e.label => IsStale(m)
           /\ e.popup <=> m \in preview
           /\ e.content # None /\ e.label <=> e = Whole(m)
<1>1. IndexOf(m) \in Index /\ IndexOf(m) # None
  BY Indexes, NoneIsNone
<1>2. PICK i \in {IndexOf(m), None}, l \in {TRUE, ~IsStale(m)} :
        e = [content |-> i, label |-> l, popup |-> m \in preview]
  BY DEF Elements
<1>3. e.content = i /\ (e.label <=> l) /\ (e.popup <=> m \in preview)
  BY <1>2
<1>4. l \in BOOLEAN
  OBVIOUS
<1>5. e \in Frames
  BY <1>1, <1>2, <1>4 DEF Frames
<1>6. Whole(m) \in Elements(m)
  BY DEF Whole, Elements
<1>7. i # None /\ l <=> e = Whole(m)
  <2>1. ASSUME i # None, l PROVE e = Whole(m)
    BY <2>1, <1>2, <1>4 DEF Whole
  <2>2. ASSUME e = Whole(m) PROVE e.content = IndexOf(m) /\ e.label
    BY <2>2 DEF Whole
  <2> QED BY <2>1, <2>2, <1>1, <1>3
<1> QED BY <1>1, <1>3, <1>5, <1>6, <1>7
\* What a build leaves in the targets: the monitor's own one drawn, or not known
\* to hold anything it did not hold before.
LEMMA Targeted ==
    ASSUME SlotTypes, CacheTypes, WorldTypes, FlagTypes, KnownIsHeld,
           NEW m \in Connected, NEW e \in Elements(m), Composite(m, e)
    PROVE  /\ target' \in [Index -> Targets \cup {None}] /\ KnownIsHeld'
           /\ \A i \in Index \ {IndexOf(m)} : target'[i] = target[i]
           /\ e.content # None => target'[IndexOf(m)] = Drawn(m)
           /\ e.content = None => \/ target'[IndexOf(m)] = target[IndexOf(m)]
                                  \/ target'[IndexOf(m)].known = None
<1> DEFINE i == IndexOf(m)
<1>1. i \in Index /\ target \in [Index -> Targets \cup {None}]
  BY Indexes DEF CacheTypes
<1>2. PICK t \in Targets \cup {None} :
        /\ target' = [target EXCEPT ![i] = t]
        /\ e.content # None => t = Drawn(m)
        /\ e.content = None => t = target[i] \/ t = Blank(m)
  <2>1. Drawn(m) \in Targets /\ Blank(m) \in Targets /\ Target(m) \in Targets
        /\ (Target(m) = target[i] \/ Target(m) = Blank(m))
    BY TargetFacts
  <2>2. target = [target EXCEPT ![i] = target[i]] /\ target[i] \in Targets \cup {None}
    BY <1>1
  <2> QED BY <2>1, <2>2 DEF Composite
<1>3. target'[i] = t /\ \A j \in Index \ {i} : target'[j] = target[j]
  BY <1>1, <1>2
<1>4. e.content = None => t = target[i] \/ t.known = None
  BY <1>2, TargetFacts
<1>5. t # None => t.known \in {None, t.shows}
  BY <1>1, <1>2, TargetFacts DEF KnownIsHeld
<1>6. KnownIsHeld'
  BY <1>3, <1>5 DEF KnownIsHeld
<1> QED BY <1>1, <1>2, <1>3, <1>4, <1>6

\* What a build leaves in the labels.
LEMMA Labelled ==
    ASSUME CacheTypes, WorldTypes, NEW m \in Monitors, NEW e, Label(m, e)
    PROVE  /\ label' \in [Monitors -> Nat \cup {None}]
           /\ \A o \in Monitors \ {m} : label'[o] = label[o]
           /\ e.label => label'[m] = title[m]
           /\ m \notin LabelNews(m, e) => label' = label
<1>1. CASE e.label /\ IsStale(m)
  BY <1>1 DEF Label, LabelNews, CacheTypes, WorldTypes
<1>2. CASE ~(e.label /\ IsStale(m))
  BY <1>2 DEF Label, LabelNews, CacheTypes, WorldTypes, IsStale
<1> QED BY <1>1, <1>2

\* A frame with everything in it shows the monitor as it has to be.
LEMMA ShownFacts ==
    ASSUME SlotTypes, CacheTypes, WorldTypes, FlagTypes, KnownIsHeld,
           NEW m \in Connected, NEW e \in Elements(m), Build(m, e)
    PROVE  /\ Shown(m, e) \in Pictures
           /\ e.content # None => Shown(m, e).content = Picture(m, mode[m])
           /\ e.label => Shown(m, e).label = label'[m]
           /\ e = Whole(m) => Shown(m, e) = Now(m)
<1>1. m \in Monitors /\ Composite(m, e) /\ Label(m, e)
  BY Indexes DEF Build
<1>2. e.content # None => target'[e.content].shows = Picture(m, mode[m])
                          /\ Picture(m, mode[m]) \in Contents
  BY <1>1, Targeted, TargetFacts, ElementFacts
<1>3. label'[m] \in Nat \cup {None} /\ (e.label => label'[m] = title[m])
  BY <1>1, Labelled
<1> DEFINE c == IF e.content = None THEN None ELSE target'[e.content].shows
           l == IF e.label THEN label'[m] ELSE None
<1>4. c \in Contents \cup {None} /\ l \in Nat \cup {None}
  BY <1>2, <1>3
<1>5. Shown(m, e) = [content |-> c, label |-> l]
  BY DEF Shown
<1>6. /\ e.content # None => c = Picture(m, mode[m])
      /\ e.label => l = label'[m] /\ l = title[m]
  BY <1>2, <1>3
<1> HIDE DEF c, l
<1>7. Shown(m, e) \in Pictures /\ Shown(m, e).content = c /\ Shown(m, e).label = l
  BY <1>4, <1>5 DEF Pictures
<1>8. ASSUME e = Whole(m) PROVE Shown(m, e) = Now(m)
  <2>1. e.content # None /\ e.label
    BY <1>8, ElementFacts
  <2> QED BY <2>1, <1>5, <1>6 DEF Now
<1> QED BY <1>3, <1>6, <1>7, <1>8, Zenon DEF l

\* After a build, whoever has no news to come still shows what is known of the
\* targets and the labels: a build that changes a target tells everyone whose last
\* frame refers to it, by the same index, and one that changes a label its monitor.
LEMMA NewsReaches ==
    ASSUME SlotTypes, CacheTypes, WorldTypes, ShowTypes, FlagTypes, KnownIsHeld, SeenIsShown,
           NEW m \in Connected, NEW e \in Elements(m), Build(m, e),
           NEW o \in Monitors, seen[o] # None, trouble[o] # "show"
    PROVE  /\ screen[o] # None
           /\ o \notin ContentNews(m, e) /\ seen[o].content # None
                /\ target'[seen[o].content] # None =>
                target'[seen[o].content].known \in {None, screen[o].content}
           /\ o \notin LabelNews(m, e) /\ seen[o].label => screen[o].label = label'[o]
<1> DEFINE i == seen[o].content
<1>1. /\ screen[o] # None /\ ContentReached(o) /\ LabelReached(o)
      /\ m \in Monitors /\ Composite(m, e) /\ Label(m, e)
  BY Indexes DEF SeenIsShown, Build
<1>2. i \in Index \cup {None}
  BY DEF ShowTypes, Frames
<1>3. ASSUME o \notin ContentNews(m, e), i # None, target'[i] # None
      PROVE  target'[i].known \in {None, screen[o].content}
  <2>1. o \notin news
    BY <1>3 DEF ContentNews
  <2>2. target[i] # None => target[i].known \in {None, screen[o].content}
    BY <2>1, <1>1, <1>3 DEF ContentReached
  <2>3. CASE i # IndexOf(m)
    BY <2>2, <2>3, <1>1, <1>2, <1>3, Targeted
  <2>4. CASE i = IndexOf(m) /\ e.content = None
    BY <2>2, <2>4, <1>1, <1>3, Targeted
  <2>5. CASE i = IndexOf(m) /\ e.content # None
    <3>1. ~Damaged(m)
      BY <2>5, <1>3 DEF ContentNews, Heard
    <3>2. target[i] # None /\ target[i].known = Picture(m, mode[m])
      BY <2>5, <3>1, Undamaged, NoneIsNone
    <3>3. target'[i].known = Picture(m, mode[m])
      BY <2>5, <1>1, Targeted, TargetFacts
    <3> QED BY <2>2, <3>2, <3>3
  <2> QED BY <2>3, <2>4, <2>5
<1>4. ASSUME o \notin LabelNews(m, e), seen[o].label
      PROVE  screen[o].label = label'[o]
  <2>1. o \notin labelNews
    BY <1>4 DEF LabelNews
  <2>2. screen[o].label = label[o]
    BY <2>1, <1>1, <1>4 DEF LabelReached
  <2>3. label'[o] = label[o]
    BY <1>1, <1>4, Labelled
  <2> QED BY <2>2, <2>3
<1> QED BY <1>1, <1>3, <1>4
-----------------------------------------------------------------------------
(* A frame.                                                                *)

\* The parts of the invariant about caches and what is shown.
ShowInv == KnownIsHeld /\ SeenIsShown /\ LostWasWhole

\* What one Render builds and makes of it.
RenderWith(m, e) ==
    /\ Build(m, e)
    /\ \/ Fault(e # Whole(m)) /\ (Rest(m, e) \/ Queue(m, e))
       \/ Fault(TRUE) /\ e = Whole(m) /\ QueueFails(m, e)

\* A frame that lacks something and rests follows no frame that was lost.
LEMMA RestAfterLoss ==
    ASSUME IInv, NEW m \in Connected, NEW e \in Elements(m), Rest(m, e),
           Outcome(m, e) # "show" \/ e # Whole(m)
    PROVE  seen[m] = e /\ seen[m] # None /\ trouble[m] # "show"
<1>1. seen[m] = e /\ e # None
  BY Types, ElementFacts, NoneIsNone DEF Rest, Differs, IInv
<1>2. m \in Monitors
  BY Indexes, Types DEF IInv
<1>3. ASSUME trouble[m] = "show" PROVE FALSE
  <2>1. e.content # None /\ e.label
    BY <1>1, <1>2, <1>3 DEF IInv, LostWasWhole
  <2>2. e = Whole(m)
    BY <2>1, ElementFacts, Types DEF IInv
  <2> QED BY <1>1, <1>3, <2>2 DEF Outcome
<1> QED BY <1>1, <1>3

\* A frame without a failure, queued or not, leaves the monitor showing what it
\* has to.
LEMMA FrameShows ==
    ASSUME IInv, NEW m \in Connected, NEW e \in Elements(m), RenderWith(m, e),
           trouble'[m] = "none"
    PROVE  screen'[m] = Now(m) /\ Now(m) \in Pictures
<1>1. /\ SlotTypes /\ CacheTypes /\ WorldTypes /\ ShowTypes /\ FlagTypes
      /\ KnownIsHeld /\ SeenIsShown
  BY Types DEF IInv
<1>2. m \in Monitors /\ trouble \in [Monitors -> {"none", "build", "show"}]
      /\ screen \in [Monitors -> Pictures \cup {None}]
  BY <1>1, Indexes DEF ShowTypes
<1>3. CASE QueueFails(m, e)
  BY <1>2, <1>3 DEF QueueFails
<1>4. CASE Queue(m, e)
  <2>1. trouble'[m] = Outcome(m, e) /\ screen'[m] = Shown(m, e)
    BY <1>2, <1>4 DEF Queue
  <2>2. e = Whole(m)
    BY <2>1 DEF Outcome
  <2> QED BY <1>1, <2>1, <2>2, ShownFacts DEF RenderWith
<1>5. CASE Rest(m, e)
  <2>1. trouble'[m] = Outcome(m, e) /\ screen' = screen
    BY <1>2, <1>5 DEF Rest
  <2>2. e = Whole(m) /\ e.content = IndexOf(m) /\ e.content # None /\ e.label
    BY <2>1, <1>1, ElementFacts DEF Outcome
  <2>3. seen[m] = e /\ seen[m] # None /\ trouble[m] # "show"
    BY <1>5, <2>1, RestAfterLoss
  <2>4. m \notin ContentNews(m, e) /\ m \notin LabelNews(m, e)
    BY <1>5, <2>2 DEF Rest, Differs
  <2>5. Build(m, e) /\ Composite(m, e) /\ Label(m, e)
    BY DEF RenderWith, Build
  <2>6. target'[e.content] = Drawn(m)
    BY <1>1, <2>2, <2>5, Targeted
  <2>7. screen[m] # None /\ screen[m].content = Picture(m, mode[m])
    BY <1>1, <1>2, <2>2, <2>3, <2>4, <2>5, <2>6, NewsReaches, TargetFacts, NoneIsNone
  <2>8. screen[m].label = label'[m] /\ label'[m] = title[m]
    BY <1>1, <1>2, <2>2, <2>3, <2>4, <2>5, NewsReaches, Labelled
  <2>9. screen[m] \in Pictures
    BY <1>2, <2>7
  <2>10. screen[m] = Now(m)
    BY <2>7, <2>8, <2>9 DEF Pictures, Now
  <2> QED BY <2>1, <2>9, <2>10
<1> QED BY <1>3, <1>4, <1>5 DEF RenderWith

\* ... and the caches and what is shown as the invariant wants them.
LEMMA FrameKeepsShow ==
    ASSUME IInv, NEW m \in Connected, NEW e \in Elements(m), RenderWith(m, e)
    PROVE  ShowInv'
<1>1. /\ SlotTypes /\ CacheTypes /\ WorldTypes /\ ShowTypes /\ FlagTypes
      /\ KnownIsHeld /\ SeenIsShown /\ LostWasWhole
  BY Types DEF IInv
<1>2. m \in Monitors /\ trouble \in [Monitors -> {"none", "build", "show"}]
      /\ screen \in [Monitors -> Pictures \cup {None}] /\ seen \in [Monitors -> Frames \cup {None}]
  BY <1>1, Indexes DEF ShowTypes
<1>3. Build(m, e) /\ Composite(m, e) /\ Label(m, e)
  BY DEF RenderWith, Build
<1>4. KnownIsHeld'
  BY <1>1, <1>3, Targeted
<1>5. ASSUME NEW o \in Monitors \ {m}
      PROVE  seen'[o] = seen[o] /\ screen'[o] = screen[o] /\ trouble'[o] = trouble[o]
  BY <1>2 DEF RenderWith, Rest, Queue, QueueFails, Notice
<1>6. ASSUME NEW o \in Monitors \ {m}
      PROVE  /\ o \in ContentNews(m, e) => o \in news'
             /\ o \in LabelNews(m, e) => o \in labelNews'
  BY DEF RenderWith, Rest, Queue, QueueFails, Notice
<1>7. e \in Frames /\ e # None
  BY <1>1, ElementFacts, NoneIsNone
<1>8. SeenIsShown'
  <2> SUFFICES ASSUME NEW o \in Monitors, seen'[o] # None, trouble'[o] # "show"
               PROVE  screen'[o] # None /\ ContentReached(o)' /\ LabelReached(o)'
    BY DEF SeenIsShown
  <2>1. CASE o # m
    <3>1. seen[o] # None /\ trouble[o] # "show"
      BY <2>1, <1>5
    <3> QED BY <2>1, <3>1, <1>1, <1>3, <1>5, <1>6, NewsReaches DEF ContentReached, LabelReached
  <2>2. CASE o = m /\ QueueFails(m, e)
    BY <2>2, <1>2 DEF QueueFails
  <2>3. CASE o = m /\ Queue(m, e)
    <3>1. seen'[m] = e /\ screen'[m] = Shown(m, e)
      BY <2>3, <1>2 DEF Queue, Notice
    <3>2. Shown(m, e) \in Pictures
          /\ (e.content # None => Shown(m, e).content = Picture(m, mode[m]))
          /\ (e.label => Shown(m, e).label = label'[m])
      BY <1>1, <1>3, ShownFacts
    <3>3. e.content # None => target'[e.content].known = Picture(m, mode[m])
      BY <1>1, <1>3, Targeted, TargetFacts, ElementFacts
    <3> QED BY <2>3, <3>1, <3>2, <3>3, NoneIsNone DEF ContentReached, LabelReached
  <2>4. CASE o = m /\ Rest(m, e)
    <3>1. /\ seen' = seen /\ screen' = screen /\ trouble'[m] = Outcome(m, e)
          /\ news' = ContentNews(m, e) /\ labelNews' = LabelNews(m, e)
      BY <2>4, <1>2 DEF Rest
    <3>2. seen[m] # None /\ trouble[m] # "show"
      BY <2>4, <3>1, RestAfterLoss
    <3> QED BY <2>4, <3>1, <3>2, <1>1, <1>2, <1>3, NewsReaches DEF ContentReached, LabelReached
  <2> QED BY <2>1, <2>2, <2>3, <2>4 DEF RenderWith
<1>9. LostWasWhole'
  <2> SUFFICES ASSUME NEW o \in Monitors, seen'[o] # None, trouble'[o] = "show"
               PROVE  seen'[o].content # None /\ seen'[o].label
    BY DEF LostWasWhole
  <2>1. CASE o # m
    BY <2>1, <1>1, <1>5 DEF LostWasWhole
  <2>2. e = Whole(m) => e.content # None /\ e.label
    BY <1>1, ElementFacts
  <2>3. CASE o = m /\ e = Whole(m) /\ QueueFails(m, e)
    <3>1. seen'[m] = e \/ seen'[m] = None
      BY <2>3, <1>2, <1>7 DEF QueueFails, Notice
    <3> QED BY <2>2, <2>3, <3>1
  <2>4. CASE o = m /\ Queue(m, e)
    <3>1. seen'[m] = e /\ trouble'[m] = Outcome(m, e)
      BY <2>4, <1>2 DEF Queue, Notice
    <3> QED BY <2>2, <2>4, <3>1 DEF Outcome
  <2>5. CASE o = m /\ Rest(m, e)
    <3>1. seen' = seen /\ trouble'[m] = Outcome(m, e)
      BY <2>5, <1>2 DEF Rest
    <3>2. trouble[m] = "show"
      BY <2>5, <3>1 DEF Outcome
    <3> QED BY <2>5, <3>1, <3>2, <1>1 DEF LostWasWhole
  <2> QED BY <2>1, <2>3, <2>4, <2>5 DEF RenderWith
<1> QED BY <1>4, <1>8, <1>9 DEF ShowInv
-----------------------------------------------------------------------------
(* The steps.                                                              *)

\* The invariant, by what its parts are about.
Parts ==
    /\ SlotTypes /\ CacheTypes /\ WorldTypes /\ ShowTypes /\ FlagTypes /\ PictureType
    /\ ShowInv /\ RestIsCurrent /\ CaptureIsCurrent

\* The invariant is its parts.
LEMMA ByParts == IInv <=> Parts
  BY Types DEF IInv, Parts, ShowInv

\* (after a step)
LEMMA ByPartsNext == IInv' <=> Parts'
  BY ByParts, PTL

\* A step that leaves caches and what is shown alone keeps what relates them.
LEMMA SameShow ==
    ASSUME CacheTypes, ShowTypes, ShowInv,
           UNCHANGED <<cacheVars, news, labelNews, seen, screen, trouble>>
    PROVE  CacheTypes' /\ ShowTypes' /\ ShowInv'
BY DEF CacheTypes, ShowTypes, ShowInv, KnownIsHeld, SeenIsShown, LostWasWhole, ContentReached,
       LabelReached, cacheVars

\* Nobody rests once a frame is asked for.
LEMMA PingedRests == pinged' => RestIsCurrent'
  BY DEF RestIsCurrent, Quiet

\* Does a monitor rest with nothing left to be asked for.
Resting(m) == Quiet(m) /\ trouble[m] = "none" /\ m \notin unasked

\* What rests after a step is current if it rested before, with the same content
\* and the same screen.
LEMMA StillCurrent ==
    ASSUME RestIsCurrent,
           \A m \in Connected' : Resting(m)' =>
              /\ m \in Connected /\ Resting(m)
              /\ screen'[m] = screen[m] /\ Now(m)'.content = Now(m).content
    PROVE  RestIsCurrent'
<1> SUFFICES ASSUME NEW m \in Connected', Resting(m)' PROVE ShowsNow(m)'
  BY DEF RestIsCurrent, Resting
<1>1. m \in Connected /\ Resting(m) /\ screen'[m] = screen[m] /\ Now(m)'.content = Now(m).content
  OBVIOUS
<1>2. ShowsNow(m)
  BY <1>1 DEF RestIsCurrent, Resting
<1> QED BY <1>1, <1>2 DEF ShowsNow

\* So it is while content and screen stay as they are.
LEMMA SameRest ==
    ASSUME RestIsCurrent, UNCHANGED <<slots, mode, version, screen>>,
           \A m \in Connected : Resting(m)' => Resting(m)
    PROVE  RestIsCurrent'
<1>1. Connected' = Connected
  BY DEF Connected
<1>2. \A m \in Connected : Now(m)'.content = Now(m).content
  BY DEF Now, Picture
<1> QED BY <1>1, <1>2, StillCurrent

\* Most steps leave no picture behind.
LEMMA NoPicture == picture' = None => PictureType' /\ CaptureIsCurrent'
  BY DEF PictureType, CaptureIsCurrent

\* Render keeps the inductive invariant.
LEMMA RenderKeeps ==
    ASSUME IInv, NEW m \in Monitors, Render(m)
    PROVE  IInv'
<1>1. Parts
  BY ByParts
<1>2. /\ m \in due /\ m \in Connected \ pending /\ due' = due \ {m} /\ picture' = None
      /\ UNCHANGED <<worldVars, pinged, idle, unasked>>
  BY DEF Render, Turn
<1>3. PICK e \in Elements(m) : RenderWith(m, e)
  BY DEF Render, RenderWith
<1>4. Build(m, e) /\ Composite(m, e) /\ Label(m, e)
  BY <1>3 DEF RenderWith, Build
<1>5. SlotTypes' /\ WorldTypes' /\ Connected' = Connected
  BY <1>1, <1>2 DEF Parts, SlotTypes, WorldTypes, worldVars, Connected
<1>6. CacheTypes'
  BY <1>1, <1>2, <1>4, Targeted, Labelled DEF Parts, ShowInv, CacheTypes
<1>7. e \in Frames /\ Shown(m, e) \in Pictures
  BY <1>1, <1>2, <1>4, ElementFacts, ShownFacts DEF Parts, ShowInv
<1>8. ShowTypes'
  <2>1. Outcome(m, e) \in {"none", "build", "show"}
    BY DEF Outcome
  <2>2. /\ seen \in [Monitors -> Frames \cup {None}]
        /\ screen \in [Monitors -> Pictures \cup {None}]
        /\ trouble \in [Monitors -> {"none", "build", "show"}]
    BY <1>1 DEF Parts, ShowTypes
  <2>3. seen' = seen \/ \E f \in Frames \cup {None} : seen' = [seen EXCEPT ![m] = f]
    BY <1>3, <1>7 DEF RenderWith, Rest, Queue, QueueFails, Notice
  <2>4. screen' = screen \/ screen' = [screen EXCEPT ![m] = Shown(m, e)]
    BY <1>3 DEF RenderWith, Rest, Queue, QueueFails
  <2>5. \E t \in {"none", "build", "show"} : trouble' = [trouble EXCEPT ![m] = t]
    BY <1>3, <2>1 DEF RenderWith, Rest, Queue, QueueFails
  <2>6. seen' \in [Monitors -> Frames \cup {None}]
    BY <2>2, <2>3
  <2>7. screen' \in [Monitors -> Pictures \cup {None}]
    BY <2>2, <2>4, <1>7
  <2>8. trouble' \in [Monitors -> {"none", "build", "show"}]
    BY <2>2, <2>5
  <2> QED BY <2>6, <2>7, <2>8 DEF ShowTypes
<1>9. FlagTypes'
  <2>1. ContentNews(m, e) \subseteq Monitors /\ LabelNews(m, e) \subseteq Monitors
    BY <1>1 DEF Parts, FlagTypes, ContentNews, LabelNews, Heard
  <2>2. news' \subseteq Monitors /\ labelNews' \subseteq Monitors
    BY <1>3, <2>1 DEF RenderWith, Rest, Queue, QueueFails, Notice
  <2>3. pending' \subseteq pending \cup {m}
    BY <1>3 DEF RenderWith, Rest, Queue, QueueFails
  <2>4. faults' \in 0..MaxFaults
    BY <1>1, <1>3, BoundAssumption DEF Parts, FlagTypes, RenderWith, Fault
  <2>5. /\ preview' = preview /\ changes' = changes /\ pinged' = pinged /\ idle' = idle
        /\ unasked' = unasked /\ due' \subseteq due
    BY <1>2 DEF worldVars
  <2> QED BY <1>1, <1>2, <1>5, <2>2, <2>3, <2>4, <2>5 DEF Parts, FlagTypes
<1>10. ShowInv'
  BY <1>2, <1>3, FrameKeepsShow
<1>11. RestIsCurrent'
  <2> SUFFICES ASSUME NEW o \in Connected, Quiet(o)', trouble'[o] = "none", o \notin unasked
               PROVE  screen'[o] # None /\ screen'[o].content = Now(o).content
    BY <1>2, <1>5 DEF RestIsCurrent, ShowsNow, Now, Picture, worldVars
  <2>1. CASE o = m
    BY <2>1, <1>2, <1>3, FrameShows, NoneIsNone
  <2>2. CASE o # m
    <3>1. /\ o \in Monitors /\ screen'[o] = screen[o] /\ trouble'[o] = trouble[o]
          /\ o \in pending => o \in pending'
      BY <1>1, <1>3, <2>2, Indexes
         DEF Parts, ShowTypes, RenderWith, Rest, Queue, QueueFails, Notice
    <3>2. Quiet(o)
      BY <1>2, <2>2, <3>1 DEF Quiet
    <3> QED BY <1>1, <3>1, <3>2 DEF Parts, RestIsCurrent, ShowsNow
  <2> QED BY <2>1, <2>2
<1> QED BY <1>2, <1>5, <1>6, <1>8, <1>9, <1>10, <1>11, NoPicture, ByPartsNext DEF Parts
\* Capture keeps the inductive invariant: it builds the same elements through the
\* same caches, and what it draws is news for the monitors.
LEMMA CaptureKeeps ==
    ASSUME IInv, NEW m \in Monitors, Capture(m)
    PROVE  IInv'
<1>1. Parts
  BY ByParts
<1>2. /\ m \in Connected
      /\ UNCHANGED <<worldVars, showVars, pinged, idle, due, unasked>>
  BY DEF Capture
<1>3. PICK e \in Elements(m) :
         /\ Build(m, e)
         /\ news' = ContentNews(m, e) /\ labelNews' = LabelNews(m, e)
         /\ Fault(e # Whole(m))
         /\ picture' = IF e = Whole(m) THEN [of |-> m, shows |-> Shown(m, e)] ELSE None
  BY DEF Capture
<1>4. Composite(m, e) /\ Label(m, e)
  BY <1>3 DEF Build
<1>5. SlotTypes' /\ WorldTypes' /\ ShowTypes' /\ Connected' = Connected
  BY <1>1, <1>2 DEF Parts, SlotTypes, WorldTypes, ShowTypes, worldVars, showVars, Connected
<1>6. CacheTypes' /\ KnownIsHeld'
  BY <1>1, <1>2, <1>4, Targeted, Labelled DEF Parts, ShowInv, CacheTypes
<1>7. FlagTypes'
  <2>1. ContentNews(m, e) \subseteq Monitors /\ LabelNews(m, e) \subseteq Monitors
    BY <1>1 DEF Parts, FlagTypes, ContentNews, LabelNews, Heard
  <2>2. faults' \in 0..MaxFaults
    BY <1>1, <1>3, BoundAssumption DEF Parts, FlagTypes, Fault
  <2>3. UNCHANGED <<preview, changes, pinged, idle, due, pending, unasked>>
    BY <1>2 DEF worldVars, showVars
  <2> QED BY <1>1, <1>3, <1>5, <2>1, <2>2, <2>3 DEF Parts, FlagTypes
<1>8. SeenIsShown'
  <2> SUFFICES ASSUME NEW o \in Monitors, seen'[o] # None, trouble'[o] # "show"
               PROVE  screen'[o] # None /\ ContentReached(o)' /\ LabelReached(o)'
    BY DEF SeenIsShown
  <2>1. seen' = seen /\ screen' = screen /\ trouble' = trouble
    BY <1>2 DEF showVars
  <2> QED BY <2>1, <1>1, <1>2, <1>3, NewsReaches
          DEF Parts, ShowInv, ContentReached, LabelReached
<1>9. LostWasWhole'
  BY <1>1, <1>2 DEF Parts, ShowInv, LostWasWhole, showVars
<1>10. RestIsCurrent'
  <2>1. UNCHANGED <<slots, mode, version, screen, pinged, due, pending, idle, trouble, unasked>>
    BY <1>2 DEF worldVars, showVars
  <2> QED BY <2>1, <1>1, SameRest DEF Parts, Resting, Quiet
<1>11. Shown(m, e) \in Pictures /\ (e = Whole(m) => Shown(m, e) = Now(m))
  BY <1>1, <1>2, <1>3, ShownFacts DEF Parts, ShowInv
<1>12. \/ picture' = None
       \/ e = Whole(m) /\ picture'.of = m /\ picture'.shows = Shown(m, e)
  BY <1>3
<1>13. PictureType' /\ CaptureIsCurrent'
  <2>1. Now(m)' = Now(m)
    BY <1>2 DEF Now, Picture, worldVars
  <2> QED BY <2>1, <1>11, <1>12 DEF PictureType, CaptureIsCurrent
<1> QED BY <1>5, <1>6, <1>7, <1>8, <1>9, <1>10, <1>13, ByPartsNext DEF Parts, ShowInv

\* Skip keeps the inductive invariant.
LEMMA SkipKeeps ==
    ASSUME IInv, NEW m \in Monitors, Skip(m)
    PROVE  IInv'
<1>1. Parts
  BY ByParts
<1>2. /\ m \in pending \/ m \notin Connected
      /\ due' = due \ {m} /\ picture' = None
      /\ UNCHANGED <<worldVars, cacheVars, news, labelNews, showVars, pinged, idle, unasked, faults>>
  BY DEF Skip
<1>3. SlotTypes' /\ WorldTypes' /\ FlagTypes'
  BY <1>1, <1>2 DEF Parts, SlotTypes, WorldTypes, FlagTypes, worldVars, showVars, Connected
<1>4. CacheTypes' /\ ShowTypes' /\ ShowInv'
  BY <1>1, <1>2, SameShow DEF Parts, showVars
<1>5. RestIsCurrent'
  BY <1>1, <1>2, SameRest DEF Parts, Resting, Quiet, worldVars, showVars
<1> QED BY <1>2, <1>3, <1>4, <1>5, NoPicture, ByPartsNext DEF Parts

\* VBlank keeps the inductive invariant.
LEMMA VBlankKeeps ==
    ASSUME IInv, NEW m \in Monitors, VBlank(m)
    PROVE  IInv'
<1>1. Parts
  BY ByParts
<1>2. /\ due = {} /\ pending' = pending \ {m} /\ due' = {m} /\ picture' = None
      /\ UNCHANGED <<worldVars, cacheVars, news, labelNews, seen, screen, trouble, pinged, idle, unasked, faults>>
  BY DEF VBlank, InHandler, AfterBlank
<1>3. SlotTypes' /\ WorldTypes' /\ FlagTypes'
  BY <1>1, <1>2 DEF Parts, SlotTypes, WorldTypes, FlagTypes, worldVars, Connected
<1>4. CacheTypes' /\ ShowTypes' /\ ShowInv'
  BY <1>1, <1>2, SameShow DEF Parts
<1>5. RestIsCurrent'
  BY <1>1, <1>2, SameRest DEF Parts, Resting, Quiet, worldVars
<1> QED BY <1>2, <1>3, <1>4, <1>5, NoPicture, ByPartsNext DEF Parts

\* Ping keeps the inductive invariant: every monitor's turn comes.
LEMMA PingKeeps ==
    ASSUME IInv, Ping
    PROVE  IInv'
<1>1. Parts
  BY ByParts
<1>2. /\ pinged' = FALSE /\ due' = Connected /\ picture' = None
      /\ UNCHANGED <<worldVars, cacheVars, news, labelNews, showVars, idle, unasked, faults>>
  BY DEF Ping
<1>3. SlotTypes' /\ WorldTypes' /\ FlagTypes'
  BY <1>1, <1>2, Indexes
     DEF Parts, SlotTypes, WorldTypes, FlagTypes, worldVars, showVars, Connected
<1>4. CacheTypes' /\ ShowTypes' /\ ShowInv'
  BY <1>1, <1>2, SameShow DEF Parts, showVars
<1>5. RestIsCurrent'
  BY <1>2 DEF RestIsCurrent, Quiet, Connected, worldVars
<1> QED BY <1>2, <1>3, <1>4, <1>5, NoPicture, ByPartsNext DEF Parts

\* FirstFrame keeps the inductive invariant.
LEMMA FirstFrameKeeps ==
    ASSUME IInv, NEW m \in Monitors, FirstFrame(m)
    PROVE  IInv'
<1>1. Parts
  BY ByParts
<1>2. /\ due = {} /\ idle' = idle \ {m} /\ due' = {m} /\ picture' = None
      /\ UNCHANGED <<worldVars, cacheVars, news, labelNews, showVars, pinged, unasked, faults>>
  BY DEF FirstFrame, InHandler
<1>3. SlotTypes' /\ WorldTypes' /\ FlagTypes'
  BY <1>1, <1>2 DEF Parts, SlotTypes, WorldTypes, FlagTypes, worldVars, showVars, Connected
<1>4. CacheTypes' /\ ShowTypes' /\ ShowInv'
  BY <1>1, <1>2, SameShow DEF Parts, showVars
<1>5. RestIsCurrent'
  BY <1>1, <1>2, SameRest DEF Parts, Resting, Quiet, worldVars, showVars
<1> QED BY <1>2, <1>3, <1>4, <1>5, NoPicture, ByPartsNext DEF Parts
\* Draw keeps the inductive invariant: it asks for a frame.
LEMMA DrawKeeps ==
    ASSUME IInv, NEW m \in Monitors, Draw(m)
    PROVE  IInv'
<1>1. Parts
  BY ByParts
<1>2. /\ changes < MaxChanges /\ changes' = changes + 1 /\ picture' = None /\ faults' = faults
      /\ due' = due /\ version' = [version EXCEPT ![m] = @ + 1]
      /\ pinged' = TRUE /\ unasked' = {}
      /\ UNCHANGED <<slots, mode, title, preview, cacheVars, news, labelNews, showVars, idle>>
  BY DEF Draw, Outside, Ask
<1>3. SlotTypes' /\ WorldTypes' /\ FlagTypes'
  BY <1>1, <1>2, BoundAssumption
     DEF Parts, SlotTypes, WorldTypes, FlagTypes, showVars, Connected
<1>4. CacheTypes' /\ ShowTypes' /\ ShowInv'
  BY <1>1, <1>2, SameShow DEF Parts, showVars
<1> QED BY <1>2, <1>3, <1>4, PingedRests, NoPicture, ByPartsNext DEF Parts

\* DrawUnasked keeps the inductive invariant: the monitor whose content changed
\* has a frame to come, or is remembered.
LEMMA DrawUnaskedKeeps ==
    ASSUME IInv, NEW m \in Monitors, DrawUnasked(m)
    PROVE  IInv'
<1>1. Parts
  BY ByParts
<1>2. /\ changes < MaxChanges /\ changes' = changes + 1 /\ picture' = None /\ faults' = faults
      /\ due' = due /\ version' = [version EXCEPT ![m] = @ + 1]
      /\ unasked' = unasked \cup {o \in {m} : Quiet(o)}
      /\ UNCHANGED <<slots, mode, title, preview, cacheVars, news, labelNews, showVars, pinged, idle>>
  BY DEF DrawUnasked, Outside, ChangeUnasked
<1>3. SlotTypes' /\ WorldTypes' /\ FlagTypes' /\ Connected' = Connected
  BY <1>1, <1>2, BoundAssumption
     DEF Parts, SlotTypes, WorldTypes, FlagTypes, showVars, Connected
<1>4. CacheTypes' /\ ShowTypes' /\ ShowInv'
  BY <1>1, <1>2, SameShow DEF Parts, showVars
<1>5. RestIsCurrent'
  <2>1. ASSUME NEW o \in Connected', Resting(o)'
        PROVE  /\ o \in Connected /\ Resting(o)
               /\ screen'[o] = screen[o] /\ Now(o)'.content = Now(o).content
    <3>1. Resting(o) /\ screen' = screen
      BY <1>2, <2>1 DEF Resting, Quiet, showVars
    <3>2. o # m
      BY <1>2, <2>1, <3>1 DEF Resting
    <3>3. version'[o] = version[o]
      BY <1>1, <1>2, <1>3, <3>2, Indexes DEF Parts, WorldTypes
    <3> QED BY <1>2, <1>3, <3>1, <3>3 DEF Now, Picture
  <2> QED BY <2>1, <1>1, StillCurrent DEF Parts
<1> QED BY <1>2, <1>3, <1>4, <1>5, NoPicture, ByPartsNext DEF Parts

\* Retitle keeps the inductive invariant: no content changes.
LEMMA RetitleKeeps ==
    ASSUME IInv, NEW m \in Monitors, Retitle(m)
    PROVE  IInv'
<1>1. Parts
  BY ByParts
<1>2. /\ changes < MaxChanges /\ changes' = changes + 1 /\ picture' = None /\ faults' = faults
      /\ due' = due /\ title' = [title EXCEPT ![m] = @ + 1]
      /\ UNCHANGED <<slots, mode, version, preview, cacheVars, news, labelNews, showVars, pinged, idle, unasked>>
  BY DEF Retitle, Outside
<1>3. SlotTypes' /\ WorldTypes' /\ FlagTypes'
  BY <1>1, <1>2, BoundAssumption
     DEF Parts, SlotTypes, WorldTypes, FlagTypes, showVars, Connected
<1>4. CacheTypes' /\ ShowTypes' /\ ShowInv'
  BY <1>1, <1>2, SameShow DEF Parts, showVars
<1>5. RestIsCurrent'
  BY <1>1, <1>2, SameRest DEF Parts, Resting, Quiet, showVars
<1> QED BY <1>2, <1>3, <1>4, <1>5, NoPicture, ByPartsNext DEF Parts

\* Preview keeps the inductive invariant: it asks for a frame.
LEMMA PreviewKeeps ==
    ASSUME IInv, NEW m \in Monitors, Preview(m)
    PROVE  IInv'
<1>1. Parts
  BY ByParts
<1>2. /\ changes < MaxChanges /\ changes' = changes + 1 /\ picture' = None /\ faults' = faults
      /\ due' = due /\ m \in Connected /\ preview' \subseteq preview \cup {m}
      /\ pinged' = TRUE /\ unasked' = {}
      /\ UNCHANGED <<slots, mode, version, title, cacheVars, news, labelNews, showVars, idle>>
  BY DEF Preview, Outside, Ask
<1>3. SlotTypes' /\ WorldTypes' /\ FlagTypes'
  BY <1>1, <1>2, BoundAssumption
     DEF Parts, SlotTypes, WorldTypes, FlagTypes, showVars, Connected
<1>4. CacheTypes' /\ ShowTypes' /\ ShowInv'
  BY <1>1, <1>2, SameShow DEF Parts, showVars
<1> QED BY <1>2, <1>3, <1>4, PingedRests, NoPicture, ByPartsNext DEF Parts

\* A monitor that is plugged in gets the next index.
LEMMA Plugged ==
    ASSUME SlotTypes, NEW m \in Monitors \ Connected, slots' = Append(slots, m)
    PROVE  SlotTypes' /\ Connected' = Connected \cup {m}
<1>1. /\ slots' \in Seq(Monitors) /\ Len(slots) \in Nat
      /\ DOMAIN slots = 1..Len(slots) /\ DOMAIN slots' = 1..(Len(slots) + 1)
      /\ \A i \in 1..Len(slots) : slots'[i] = slots[i]
      /\ slots'[Len(slots) + 1] = m
  BY DEF SlotTypes
<1>2. \A i \in 1..Len(slots) : slots[i] # m
  BY <1>1 DEF Connected
<1>3. IsInjective(slots')
  <2> SUFFICES ASSUME NEW a \in 1..(Len(slots) + 1), NEW b \in 1..(Len(slots) + 1),
                      slots'[a] = slots'[b]
               PROVE  a = b
    BY <1>1 DEF IsInjective
  <2>1. \A i, j \in 1..Len(slots) : slots[i] = slots[j] => i = j
    BY <1>1 DEF SlotTypes, IsInjective
  <2> QED BY <1>1, <1>2, <2>1
<1>4. 1..(Len(slots) + 1) = (1..Len(slots)) \cup {Len(slots) + 1}
  BY <1>1
<1> QED BY <1>1, <1>3, <1>4 DEF SlotTypes, Connected

\* Plug keeps the inductive invariant: the new monitor has its first frame to
\* come, and of the rescaled ones those that rest are remembered.
LEMMA PlugKeeps ==
    ASSUME IInv, NEW m \in Monitors, Plug(m)
    PROVE  IInv'
<1>1. Parts
  BY ByParts
<1>2. /\ m \notin Connected
      /\ changes < MaxChanges /\ changes' = changes + 1 /\ picture' = None /\ faults' = faults
      /\ due' = due /\ slots' = Append(slots, m) /\ idle' = idle \cup {m}
      /\ UNCHANGED <<title, preview, cacheVars, news, labelNews, showVars, pinged>>
  BY DEF Plug, Outside
<1>3. PICK size \in Modes : mode' = [mode EXCEPT ![m] = size]
  BY DEF Plug
<1>4. PICK rescaled \in SUBSET Connected :
        /\ version' = [o \in Monitors |-> version[o] + IF o \in rescaled \cup {m} THEN 1 ELSE 0]
        /\ unasked' = unasked \cup {o \in rescaled : Quiet(o)}
  BY DEF Plug, ChangeUnasked
<1>5. SlotTypes' /\ Connected' = Connected \cup {m} /\ Connected \subseteq Monitors
  BY <1>1, <1>2, Plugged, Indexes DEF Parts
<1>6. WorldTypes'
  BY <1>1, <1>2, <1>3, <1>4 DEF Parts, WorldTypes
<1>7. CacheTypes' /\ ShowTypes' /\ ShowInv'
  BY <1>1, <1>2, SameShow DEF Parts, showVars
<1>8. FlagTypes'
  BY <1>1, <1>2, <1>4, <1>5, BoundAssumption DEF Parts, FlagTypes, showVars
<1>9. RestIsCurrent'
  <2>1. ASSUME NEW o \in Connected', Resting(o)'
        PROVE  /\ o \in Connected /\ Resting(o)
               /\ screen'[o] = screen[o] /\ Now(o)'.content = Now(o).content
    <3>1. o # m /\ o \in Connected /\ o \in Monitors
      BY <1>2, <1>5, <2>1 DEF Resting, Quiet
    <3>2. Resting(o) /\ screen' = screen
      BY <1>2, <1>4, <2>1 DEF Resting, Quiet, showVars
    <3>3. o \notin rescaled
      BY <1>4, <2>1, <3>2 DEF Resting
    <3>4. version[o] \in Nat /\ mode'[o] = mode[o]
      BY <1>1, <1>3, <3>1 DEF Parts, WorldTypes
    <3>5. version'[o] = version[o]
      BY <1>4, <3>1, <3>3, <3>4
    <3> QED BY <3>1, <3>2, <3>4, <3>5 DEF Now, Picture
  <2> QED BY <2>1, <1>1, StillCurrent DEF Parts
<1> QED BY <1>2, <1>5, <1>6, <1>7, <1>8, <1>9, NoPicture, ByPartsNext DEF Parts

\* RemoveAt drops one position and keeps the others in order.
LEMMA RemoveAtFacts ==
    ASSUME NEW S, NEW s \in Seq(S), NEW i \in DOMAIN s
    PROVE  /\ RemoveAt(s, i) \in Seq(S)
           /\ Len(RemoveAt(s, i)) = Len(s) - 1
           /\ \A j \in 1..(Len(s) - 1) :
                RemoveAt(s, i)[j] = IF j < i THEN s[j] ELSE s[j + 1]
<1> DEFINE front == SubSeq(s, 1, i - 1)
           back  == SubSeq(s, i + 1, Len(s))
<1>0. i \in 1..Len(s)
  OBVIOUS
<1>1. /\ front \in Seq(S)
      /\ Len(front) = i - 1
      /\ \A j \in 1..(i - 1) : front[j] = s[j]
  OBVIOUS
<1>2. /\ back \in Seq(S)
      /\ Len(back) = Len(s) - i
      /\ \A j \in 1..(Len(s) - i) : back[j] = s[i + j]
  OBVIOUS
<1>3. RemoveAt(s, i) = front \o back
  BY DEF RemoveAt
<1> HIDE DEF front, back
<1>4. /\ front \o back \in Seq(S)
      /\ Len(front \o back) = Len(s) - 1
  BY <1>1, <1>2
<1>5. ASSUME NEW j \in 1..(Len(s) - 1)
      PROVE  (front \o back)[j] = IF j < i THEN s[j] ELSE s[j + 1]
  <2>1. CASE j < i
    BY <2>1, <1>1, <1>2
  <2>2. CASE ~(j < i)
    BY <2>2, <1>0, <1>1, <1>2
  <2> QED BY <2>1, <2>2
<1> QED BY <1>3, <1>4, <1>5

\* The monitors after the one that is unplugged move up by one index.
LEMMA Unplugged ==
    ASSUME SlotTypes, NEW m \in Connected, slots' = RemoveAt(slots, IndexOf(m))
    PROVE  SlotTypes' /\ Connected' = Connected \ {m}
<1> DEFINE i == IndexOf(m)
<1>1. /\ slots \in Seq(Monitors) /\ Len(slots) \in Nat /\ DOMAIN slots = 1..Len(slots)
      /\ i \in DOMAIN slots /\ i \in 1..Len(slots) /\ slots[i] = m
  BY Indexes DEF SlotTypes
<1> HIDE DEF i
<1>2. /\ RemoveAt(slots, i) \in Seq(Monitors)
      /\ Len(RemoveAt(slots, i)) = Len(slots) - 1
      /\ \A j \in 1..(Len(slots) - 1) :
            RemoveAt(slots, i)[j] = IF j < i THEN slots[j] ELSE slots[j + 1]
  BY <1>1, RemoveAtFacts, Zenon
<1>3. slots' = RemoveAt(slots, i)
  BY DEF i
<1>5. slots' \in Seq(Monitors) /\ Len(slots') = Len(slots) - 1
      /\ DOMAIN slots' = 1..(Len(slots) - 1)
  BY <1>2, <1>3
<1>6. \A j \in 1..(Len(slots) - 1) : slots'[j] = IF j < i THEN slots[j] ELSE slots[j + 1]
  BY <1>2, <1>3
<1>7. \A a, b \in 1..Len(slots) : slots[a] = slots[b] => a = b
  BY <1>1 DEF SlotTypes, IsInjective
<1>8. IsInjective(slots')
  BY <1>1, <1>5, <1>6, <1>7 DEF IsInjective
<1>9. ASSUME NEW j \in 1..(Len(slots) - 1)
      PROVE  \E k \in 1..Len(slots) : slots'[j] = slots[k] /\ slots[k] # m
  BY <1>1, <1>6, <1>7
<1>10. ASSUME NEW k \in 1..Len(slots), slots[k] # m
       PROVE  \E j \in 1..(Len(slots) - 1) : slots'[j] = slots[k]
  <2>1. CASE k < i
    <3>1. k \in 1..(Len(slots) - 1) /\ slots'[k] = slots[k]
      BY <2>1, <1>1, <1>6
    <3> QED BY <3>1
  <2>2. CASE ~(k < i)
    <3>1. k - 1 \in 1..(Len(slots) - 1) /\ slots'[k - 1] = slots[k]
      BY <2>2, <1>1, <1>6, <1>10
    <3> QED BY <3>1
  <2> QED BY <2>1, <2>2
<1>11. /\ Connected = {slots[k] : k \in 1..Len(slots)}
       /\ Connected' = {slots'[j] : j \in 1..(Len(slots) - 1)}
  BY <1>1, <1>5 DEF Connected
<1>12. Connected' = Connected \ {m}
  <2>1. ASSUME NEW x \in Connected' PROVE x \in Connected \ {m}
    BY <2>1, <1>9, <1>11
  <2>2. ASSUME NEW x \in Connected \ {m} PROVE x \in Connected'
    <3>1. PICK k \in 1..Len(slots) : x = slots[k]
      BY <1>11
    <3>2. PICK j \in 1..(Len(slots) - 1) : slots'[j] = slots[k]
      BY <3>1, <1>10
    <3> QED BY <3>1, <3>2, <1>11
  <2> QED BY <2>1, <2>2
<1> QED BY <1>5, <1>8, <1>12 DEF SlotTypes

\* Unplug keeps the inductive invariant: indexes shift and no cache moves with
\* them, but what the other monitors show and whom the targets owe their news
\* does not depend on indexes.
LEMMA UnplugKeeps ==
    ASSUME IInv, NEW m \in Monitors, Unplug(m)
    PROVE  IInv'
<1>1. Parts
  BY ByParts
<1>2. /\ m \in Connected /\ slots' = RemoveAt(slots, IndexOf(m))
      /\ changes < MaxChanges /\ changes' = changes + 1 /\ picture' = None /\ faults' = faults
      /\ due' = due /\ pending' = pending \ {m} /\ preview' = preview \ {m}
      /\ news' = news \ {m} /\ labelNews' = labelNews \ {m}
      /\ UNCHANGED <<mode, version, title, target, idle>>
  BY DEF Unplug, Outside
<1>3. /\ label' = [label EXCEPT ![m] = None]
      /\ seen' = [seen EXCEPT ![m] = None]
      /\ screen' = [screen EXCEPT ![m] = None]
      /\ trouble' = [trouble EXCEPT ![m] = "none"]
  BY DEF Unplug
<1>4. \/ pinged' = TRUE /\ unasked' = {}
      \/ unasked' = (unasked \ {m}) /\ pinged' = pinged
  BY DEF Unplug, Ask
<1>5. SlotTypes' /\ Connected' = Connected \ {m} /\ Connected \subseteq Monitors
  BY <1>1, <1>2, Unplugged, Indexes DEF Parts
<1>6. WorldTypes' /\ FlagTypes'
  <2>1. pinged' \in BOOLEAN /\ unasked' \subseteq Monitors
    BY <1>1, <1>4 DEF Parts, FlagTypes
  <2>2. pending' \cup preview' \subseteq Connected'
    BY <1>1, <1>2, <1>5 DEF Parts, FlagTypes
  <2>3. changes' \in 0..MaxChanges /\ faults' \in 0..MaxFaults
    BY <1>1, <1>2, BoundAssumption DEF Parts, FlagTypes
  <2>4. {news', labelNews', pending', idle', due', preview'} \subseteq SUBSET Monitors
    BY <1>1, <1>2 DEF Parts, FlagTypes
  <2> QED BY <2>1, <2>2, <2>3, <2>4, <1>1, <1>2 DEF Parts, WorldTypes, FlagTypes
<1>7. CacheTypes' /\ ShowTypes'
  BY <1>1, <1>2, <1>3 DEF Parts, CacheTypes, ShowTypes
<1>8. /\ seen'[m] = None
      /\ \A o \in Monitors \ {m} :
            /\ seen'[o] = seen[o] /\ screen'[o] = screen[o] /\ trouble'[o] = trouble[o]
            /\ label'[o] = label[o] /\ (o \in news' <=> o \in news)
            /\ (o \in labelNews' <=> o \in labelNews)
  BY <1>1, <1>2, <1>3 DEF Parts, ShowTypes, CacheTypes
<1>9. ShowInv'
  <2>1. KnownIsHeld'
    BY <1>1, <1>2 DEF Parts, ShowInv, KnownIsHeld
  <2>2. SeenIsShown'
    BY <1>1, <1>2, <1>8 DEF Parts, ShowInv, SeenIsShown, ContentReached, LabelReached
  <2>3. LostWasWhole'
    BY <1>1, <1>8 DEF Parts, ShowInv, LostWasWhole
  <2> QED BY <2>1, <2>2, <2>3 DEF ShowInv
<1>10. RestIsCurrent'
  <2>1. ASSUME NEW o \in Connected', Resting(o)'
        PROVE  /\ o \in Connected /\ Resting(o)
               /\ screen'[o] = screen[o] /\ Now(o)'.content = Now(o).content
    <3>1. o # m /\ o \in Connected /\ o \in Monitors
      BY <1>5
    <3>2. Resting(o)
      BY <1>2, <1>4, <1>8, <2>1, <3>1 DEF Resting, Quiet
    <3> QED BY <1>2, <1>8, <3>1, <3>2 DEF Now, Picture
  <2> QED BY <2>1, <1>1, StillCurrent DEF Parts
<1> QED BY <1>2, <1>5, <1>6, <1>7, <1>9, <1>10, NoPicture, ByPartsNext DEF Parts

-----------------------------------------------------------------------------
(* The specification.                                                      *)

\* The inductive invariant holds at the start.
LEMMA InitIInv == Init => IInv
<1> SUFFICES ASSUME Init PROVE Parts
  BY ByParts
<1>1. slots \in UNION {[1..n -> Monitors] : n \in 0..Cardinality(Monitors)} /\ IsInjective(slots)
  BY DEF Init, SeqOf
<1>2. PICK n \in 0..Cardinality(Monitors) : slots \in [1..n -> Monitors]
  BY <1>1
<1>3. SlotTypes /\ Connected \subseteq Monitors
  <2>1. slots \in Seq(Monitors)
    BY <1>2, MonitorsAssumption, FS_CardinalityType
  <2> QED BY <1>1, <2>1, Indexes DEF SlotTypes
<1>4. WorldTypes /\ CacheTypes /\ ShowTypes
  <2>1. (CHOOSE size \in Modes : TRUE) \in Modes
    BY MonitorsAssumption
  <2> QED BY <2>1 DEF Init, WorldTypes, CacheTypes, ShowTypes
<1>5. FlagTypes /\ PictureType /\ CaptureIsCurrent
  <2>1. /\ news = {} /\ labelNews = {} /\ pending = {} /\ due = {} /\ preview = {}
        /\ unasked = {} /\ idle = Connected /\ pinged = FALSE
        /\ changes = 0 /\ faults = 0 /\ picture = None
    BY <1>3 DEF Init
  <2>2. 0 \in 0..MaxChanges /\ 0 \in 0..MaxFaults
    BY BoundAssumption
  <2> QED BY <2>1, <2>2, <1>3 DEF FlagTypes, PictureType, CaptureIsCurrent
<1>6. ShowInv
  BY DEF Init, ShowInv, KnownIsHeld, SeenIsShown, LostWasWhole
<1>7. RestIsCurrent
  BY DEF Init, RestIsCurrent, Quiet
<1> QED BY <1>3, <1>4, <1>5, <1>6, <1>7 DEF Parts

\* A step that changes nothing keeps it.
LEMMA StutterKeeps ==
    ASSUME IInv, UNCHANGED vars
    PROVE  IInv'
<1>1. Parts
  BY ByParts
<1>2. UNCHANGED <<worldVars, cacheVars, news, labelNews, showVars, pinged, idle, due, picture, unasked,
                  faults>>
  BY DEF vars
<1>3. SlotTypes' /\ WorldTypes' /\ FlagTypes'
  BY <1>1, <1>2 DEF Parts, SlotTypes, WorldTypes, FlagTypes, worldVars, showVars, Connected
<1>4. CacheTypes' /\ ShowTypes' /\ ShowInv'
  BY <1>1, <1>2, SameShow DEF Parts, showVars
<1>5. RestIsCurrent'
  BY <1>1, <1>2, SameRest DEF Parts, Resting, Quiet, worldVars, showVars
<1>6. PictureType' /\ CaptureIsCurrent'
  BY <1>1, <1>2 DEF Parts, PictureType, CaptureIsCurrent, Now, Picture, worldVars
<1> QED BY <1>3, <1>4, <1>5, <1>6, ByPartsNext DEF Parts

\* Every step keeps it.
LEMMA StepIInv == IInv /\ [Next]_vars => IInv'
<1> SUFFICES ASSUME IInv, [Next]_vars PROVE IInv'
  OBVIOUS
<1>1. CASE UNCHANGED vars
  BY <1>1, StutterKeeps
<1>2. CASE World
  BY <1>2, DrawKeeps, DrawUnaskedKeeps, RetitleKeeps, PreviewKeeps, PlugKeeps, UnplugKeeps DEF World
<1>3. CASE Loop
  BY <1>3, PingKeeps, RenderKeeps, SkipKeeps, VBlankKeeps, FirstFrameKeeps DEF Loop
<1>4. CASE \E m \in Monitors : Capture(m)
  BY <1>4, CaptureKeeps
<1> QED BY <1>1, <1>2, <1>3, <1>4 DEF Next

\* The inductive invariant: what a target is known to hold it holds, a monitor
\* with no news to come shows what the target it last referred to was drawn with,
\* and a frame that was lost had everything in it.
THEOREM Inductive == Spec => []IInv
<1>1. Init => IInv
  BY InitIInv
<1>2. IInv /\ [Next]_vars => IInv'
  BY StepIInv
<1> QED BY <1>1, <1>2, PTL DEF Spec

\* When nothing is asked for or under way, a connected monitor without a failed
\* frame shows its content as it is now, unless that changed without anyone asking
\* for a frame of it since (udev_backend.rs: rendering on demand).
THEOREM RestStaysSound == Spec => []RestIsSound
<1>1. IInv => RestIsSound
  BY DEF IInv, RestIsSound
<1> QED BY <1>1, Inductive, PTL

\* A capture into which nothing failed to be built shows its monitor as it is at
\* that moment, whatever the caches it shares with the frames went through.
THEOREM CapturesAreCurrent == Spec => []CaptureIsCurrent
<1>1. IInv => CaptureIsCurrent
  BY DEF IInv
<1> QED BY <1>1, Inductive, PTL

\* FrameIsCurrent, for one step.
FrameLeavesCurrent ==
    \A m \in Connected \ pending :
       m \in due /\ m \notin due' /\ trouble'[m] = "none" => screen'[m] = Now(m)

\* Only Render takes a monitor that is connected and not pending off `due`.
LEMMA FrameStep == IInv /\ [Next]_vars => FrameLeavesCurrent
<1> SUFFICES ASSUME IInv, [Next]_vars, NEW m \in Connected \ pending,
                    m \in due, m \notin due', trouble'[m] = "none"
             PROVE  screen'[m] = Now(m)
  BY DEF FrameLeavesCurrent
<1>1. due' # due /\ due # {}
  OBVIOUS
<1>2. PICK o \in Monitors : Render(o) \/ Skip(o)
  <2>1. ~World
    BY <1>1 DEF World, Draw, DrawUnasked, Retitle, Preview, Plug, Unplug, Outside
  <2>2. ~Ping /\ \A o \in Monitors : ~VBlank(o) /\ ~FirstFrame(o) /\ ~Capture(o)
    BY <1>1 DEF Ping, VBlank, FirstFrame, Capture, InHandler
  <2>3. ~UNCHANGED vars
    BY <1>1 DEF vars
  <2> QED BY <2>1, <2>2, <2>3 DEF Next, Loop
<1>3. due' = due \ {o}
  BY <1>2 DEF Render, Turn, Skip
<1>4. o = m /\ Render(m)
  BY <1>1, <1>2, <1>3 DEF Skip
<1>5. PICK e \in Elements(m) : RenderWith(m, e)
  BY <1>4 DEF Render, RenderWith
<1> QED BY <1>5, FrameShows

\* A frame without a failure, queued or found to be without damage, leaves its
\* monitor showing content and title as they are (render_surface).
THEOREM FramesAreCurrent == Spec => FrameIsCurrent
<1>1. IInv /\ [Next]_vars => [FrameLeavesCurrent]_vars
  BY FrameStep
<1>2. Spec => [][FrameLeavesCurrent]_vars
  BY <1>1, Inductive, PTL DEF Spec
<1> QED BY <1>2, Zenon DEF FrameIsCurrent, FrameLeavesCurrent

-----------------------------------------------------------------------------
(* A terminal's texture, on which the versions above rest: what holds of   *)
(* TermFrames for terminals of any size and any length of history.         *)

\* Since the damage was last asked for the cursor came to where it is by typing,
\* from where it was then or from a cell that is recorded.
CursorAnchored ==
    \E d \in damaged \cup {lastLook} : d.row = cursor.row /\ d.col <= cursor.col

\* A cell that is behind and not given up is one the next frame is told of.
NothingLost == full \/ selected # NoSelection \/ stale \subseteq missed \cup Reported

TextureInv == TermTypeOK /\ unseen = {} /\ CursorAnchored /\ NothingLost

\* The lesser and the greater of two columns.
LEMMA MinMaxOfTwo ==
    ASSUME NEW a \in Int, NEW b \in Int
    PROVE  /\ Min({a, b}) = IF a <= b THEN a ELSE b
           /\ Max({a, b}) = IF a <= b THEN b ELSE a
<1>1. \E x \in {a, b} : \A y \in {a, b} : x <= y
  OBVIOUS
<1>2. \E x \in {a, b} : \A y \in {a, b} : x >= y
  OBVIOUS
<1> QED BY <1>1, <1>2 DEF Min, Max

\* Cells have integer coordinates.
LEMMA CellsHaveColumns ==
    \A c \in Cells : c.row \in Int /\ c.col \in Int
BY SizeAssumption DEF Cells, Row, Col

\* What is between cells of a set's spans is in its spans.
LEMMA SpansClosed ==
    ASSUME NEW C, C \subseteq Cells, NEW D, D \subseteq Spans(C)
    PROVE  Spans(D) \subseteq Spans(C)
<1>1. \A c \in Cells : c.row \in Int /\ c.col \in Int
  BY CellsHaveColumns
<1> SUFFICES ASSUME NEW c \in Spans(D) PROVE c \in Spans(C)
  OBVIOUS
<1>2. c \in Cells
  BY DEF Spans
<1>3. PICK d \in D, e \in D : d.row = c.row /\ e.row = c.row /\ d.col <= c.col /\ c.col <= e.col
  BY DEF Spans
<1>4. d \in Cells /\ e \in Cells
  BY DEF Spans
<1>5. PICK l \in C : l.row = d.row /\ l.col <= d.col
  BY DEF Spans
<1>6. PICK r \in C : r.row = e.row /\ e.col <= r.col
  BY DEF Spans
<1>7. l.row = c.row /\ r.row = c.row /\ l.col <= c.col /\ c.col <= r.col
  BY <1>1, <1>2, <1>3, <1>4, <1>5, <1>6
<1> QED BY <1>2, <1>5, <1>6, <1>7 DEF Spans

\* The cells CursorDamage takes for a cursor that went from one cell to another.
Between(a, b) ==
    IF a.row = b.row
      THEN {c \in Cells : /\ c.row = a.row
                                   /\ Min({a.col, b.col}) <= c.col
                                   /\ c.col <= Max({a.col, b.col})}
      ELSE {a, b}

\* As far as spans go these are the two cells.
LEMMA SpansOfEnds ==
    ASSUME NEW a \in Cells, NEW b \in Cells, NEW C, C \subseteq Cells
    PROVE  Spans(C \cup Between(a, b)) = Spans(C \cup {a, b})
<1>1. \A c \in Cells : c.row \in Int /\ c.col \in Int
  BY CellsHaveColumns
<1>2. {a, b} \subseteq Between(a, b) /\ Between(a, b) \subseteq Spans({a, b})
  <2>1. CASE a.row = b.row
    <3>1. /\ Min({a.col, b.col}) = IF a.col <= b.col THEN a.col ELSE b.col
          /\ Max({a.col, b.col}) = IF a.col <= b.col THEN b.col ELSE a.col
      BY <1>1, MinMaxOfTwo
    <3>2. {a, b} \subseteq Between(a, b)
      BY <1>1, <2>1, <3>1 DEF Between
    <3>3. Between(a, b) \subseteq Spans({a, b})
      BY <1>1, <2>1, <3>1 DEF Between, Spans
    <3> QED BY <3>2, <3>3
  <2>2. CASE a.row # b.row
    BY <1>1, <2>2 DEF Between, Spans
  <2> QED BY <2>1, <2>2
<1>3. Spans(C \cup {a, b}) \subseteq Spans(C \cup Between(a, b))
  BY <1>2 DEF Spans
<1>4. C \cup Between(a, b) \subseteq Spans(C \cup {a, b})
  BY <1>1, <1>2 DEF Spans
<1>5. Spans(C \cup Between(a, b)) \subseteq Spans(C \cup {a, b})
  BY <1>4, SpansClosed
<1> QED BY <1>3, <1>5

\* What is between recorded cells, the cursor and where it was is what the next
\* frame is told of.
LEMMA ReportedThen ==
    ASSUME TermTypeOK', offset' = offset, lastLook' = lastLook,
           NEW C, C \subseteq Spans(damaged' \cup {cursor', lastLook})
    PROVE  OnView(C) \subseteq Reported'
<1> DEFINE Then == damaged' \cup {cursor', lastLook'}
<1>1. CursorDamage' = Between(cursor', lastLook')
  BY DEF CursorDamage, Between
<1>2. Spans(damaged' \cup Between(cursor', lastLook')) = Spans(Then)
  BY SpansOfEnds DEF TermTypeOK
<1>3. Reported' = {[c EXCEPT !.row = @ + offset] :
                             c \in {d \in Spans(Then) : d.row + offset < Rows}}
  BY <1>1, <1>2 DEF Reported, OnView, Spans
<1> QED BY <1>3 DEF OnView

\* A program's output that takes the cursor on does not take back what the next
\* frame is told of.
LEMMA ReportedGrows ==
    ASSUME TermTypeOK, TermTypeOK',
           offset' = offset, lastLook' = lastLook, damaged \subseteq damaged',
           cursor \in Spans(damaged' \cup {cursor', lastLook})
    PROVE  Reported \subseteq Reported'
<1> DEFINE Ends == damaged \cup {cursor, lastLook}
           Then == damaged' \cup {cursor', lastLook}
<1>1. /\ \A c \in Cells : c.row \in Int /\ c.col \in Int
      /\ Then \subseteq Cells
  BY CellsHaveColumns DEF TermTypeOK
<1>2. Ends \subseteq Spans(Then)
  BY <1>1 DEF Spans
<1>3. Spans(Ends) \subseteq Spans(Then)
  BY <1>1, <1>2, SpansClosed
<1>4. CursorDamage = Between(cursor, lastLook)
  BY DEF CursorDamage, Between
<1>5. Spans(damaged \cup Between(cursor, lastLook)) = Spans(Ends)
  BY SpansOfEnds DEF TermTypeOK
<1>6. Reported = OnView(Spans(Ends))
  BY <1>4, <1>5 DEF Reported
<1> QED BY <1>3, <1>6, ReportedThen

\* Cells of the screen that are on view are cells of the view.
LEMMA OnViewType ==
    ASSUME TermTypeOK, NEW C, C \subseteq Cells
    PROVE  OnView(C) \subseteq Cells
<1>1. SUFFICES ASSUME NEW c \in C, c.row + offset < Rows
               PROVE  [c EXCEPT !.row = @ + offset] \in Cells
  BY DEF OnView
<1>2. c \in [row : 0..Rows - 1, col : Col] /\ offset \in Nat /\ Rows \in Nat
  BY SizeAssumption DEF TermTypeOK, Cells, Row
<1>3. c.row + offset \in 0..Rows - 1
  BY <1>1, <1>2
<1> QED BY <1>2, <1>3 DEF Cells, Row

\* What a frame takes the damage for are cells of the view.
LEMMA DirtyType ==
    /\ Dirty \subseteq Cells
    /\ ~full /\ selected = NoSelection /\ Dirty # {} /\ TermTypeOK
         => Reported \subseteq Dirty
    /\ ~full /\ selected = NoSelection /\ Dirty = {} /\ TermTypeOK
         => Reported \subseteq OnView({cursor})
<1>1. \A R : Box(R) \subseteq Cells
  BY DEF Box
<1>2. ASSUME TermTypeOK
      PROVE  Reported \subseteq Box(Reported)
  <2>1. Reported \subseteq Cells
    BY <1>2, OnViewType DEF Reported, Spans
  <2>2. \A c \in Cells : c.row \in Int /\ c.col \in Int
    BY <1>2, CellsHaveColumns
  <2> QED BY <2>1, <2>2 DEF Box
<1> QED BY <1>1, <1>2 DEF Dirty, Idle

\* The program's output keeps the types,
LEMMA ProgramTypes ==
    TermTypeOK /\ Program => TermTypeOK'
<1> SUFFICES ASSUME TermTypeOK, Program
             PROVE  TermTypeOK'
  OBVIOUS
<1> USE DEF TermTypeOK, drawnVars, viewVars, Changes
<1>1. CASE Type
  <2>1. OnView({cursor}) \subseteq Cells
    BY OnViewType
  <2>2. cursor' \in Cells
    BY <1>1, SizeAssumption DEF Type, Cells, Row, Col
  <2> QED BY <1>1, <2>1, <2>2 DEF Type
<1>2. CASE Edit
  <2>1. PICK to \in Cells, left \in Col, right \in Col :
          LET C == {c \in Cells : c.row = to.row /\ left <= c.col /\ c.col <= right}
          IN  /\ Changes(OnView(C \cup {cursor, to}))
              /\ damaged' = damaged \cup C \cup {cursor, to}
              /\ cursor' = to
    BY <1>2 DEF Edit
  <2> DEFINE C == {c \in Cells : c.row = to.row /\ left <= c.col /\ c.col <= right}
  <2>2. OnView(C \cup {cursor, to}) \subseteq Cells
    BY OnViewType
  <2>3. stale' \subseteq Cells /\ missed' \subseteq stale' /\ damaged' \subseteq Cells
    BY <2>1, <2>2
  <2> QED BY <1>2, <2>1, <2>3 DEF Edit
<1>3. CASE ScrollUp
  BY <1>3, SizeAssumption DEF ScrollUp
<1> QED BY <1>1, <1>2, <1>3 DEF Program

\* what the user does,
LEMMA UserTypes ==
    TermTypeOK /\ User => TermTypeOK'
<1> SUFFICES ASSUME TermTypeOK, User
             PROVE  TermTypeOK'
  OBVIOUS
<1> USE DEF TermTypeOK, termVars, drawnVars, viewVars,
            Changes
<1>0. Highlighted \subseteq Cells
  BY DEF Highlighted
<1>1. CASE Scroll
  BY <1>1 DEF Scroll
<1>2. CASE StartSelection
  BY <1>0, <1>2 DEF StartSelection
<1>3. CASE ExtendSelection
  <2>1. selected' \subseteq Cells
    BY <1>3 DEF ExtendSelection
  <2>2. Changes(Highlighted \cup selected')
    BY <1>3 DEF ExtendSelection
  <2> QED BY <1>0, <1>3, <2>1, <2>2 DEF ExtendSelection
<1>4. CASE ClearSelection
  BY <1>0, <1>4 DEF ClearSelection
<1>5. CASE Resize
  BY <1>5 DEF Resize
<1>6. CASE Focus
  BY <1>6 DEF Focus
<1>7. CASE Show
  BY <1>7 DEF Show
<1> QED BY <1>1, <1>2, <1>3, <1>4, <1>5, <1>6, <1>7 DEF User

\* and a frame.
LEMMA FrameTypes ==
    TermTypeOK /\ Frame => TermTypeOK'
<1> SUFFICES ASSUME TermTypeOK, Frame
             PROVE  TermTypeOK'
  OBVIOUS
<1> USE DEF TermTypeOK, viewVars
<1>1. Dirty \subseteq Cells
  BY DirtyType
<1>2. CASE visible /\ SkipFrame
  BY <1>2 DEF Frame, SkipFrame, TakeDamage
<1>3. CASE visible /\ Repaint
  BY <1>1, <1>3 DEF Frame, Repaint, TakeDamage
<1>4. CASE visible /\ RepaintFails
  BY <1>1, <1>4 DEF Frame, RepaintFails, TakeDamage
<1>5. CASE ~visible
  BY <1>5 DEF Frame
<1> QED BY <1>2, <1>3, <1>4, <1>5 DEF Frame

\* A frame of a terminal on view leaves only what is given up, and has the
\* display told of all it painted.
LEMMA FrameSettles ==
    ASSUME TextureInv, Frame, visible
    PROVE  stale' \subseteq missed' /\ unseen' = {}
<1> USE DEF TermTypeOK
<1>1. Dirty \subseteq Cells /\ stale \subseteq Cells /\ unseen = {}
  BY DirtyType DEF TextureInv
<1>2. full \/ selected # NoSelection => Dirty = Cells
  BY DEF Dirty
<1>3. ~full /\ selected = NoSelection => stale \subseteq missed \cup Reported
  BY DEF TextureInv, NothingLost
<1>4. stale \subseteq missed \cup Dirty \/ Dirty = {}
  BY <1>1, <1>2, <1>3, DirtyType DEF TextureInv
<1>5. CASE SkipFrame
  <2>1. stale \subseteq missed \cup OnView({cursor})
    BY <1>1, <1>2, <1>3, <1>5, DirtyType DEF TextureInv, SkipFrame
  <2> QED BY <1>1, <1>5, <2>1 DEF SkipFrame
<1>6. CASE Repaint
  BY <1>1, <1>4, <1>6 DEF Repaint, Touched
<1>7. CASE RepaintFails
  BY <1>1, <1>4, <1>7 DEF RepaintFails
<1> QED BY <1>5, <1>6, <1>7 DEF Frame

\* The invariant at the start,
LEMMA TextureInit == TermInit => TextureInv
<1> SUFFICES ASSUME TermInit PROVE TextureInv
  OBVIOUS
<1>1. [row |-> 0, col |-> 0] \in Cells
  BY SizeAssumption DEF Cells, Row, Col
<1>2. 0 \in 0..History
  BY SizeAssumption
<1>3. TermTypeOK
  BY <1>1, <1>2 DEF TermInit, TermTypeOK
<1>4. CursorAnchored
  BY DEF CursorAnchored, TermInit
<1> QED BY <1>3, <1>4 DEF TextureInv, NothingLost, TermInit

\* through what the program writes: a character typed is between where the
\* cursor was and is, an edit is recorded, a scroll is damage to everything;
LEMMA ProgramKeeps ==
    TextureInv /\ Program => TextureInv'
<1> SUFFICES ASSUME TextureInv, Program
             PROVE  TextureInv'
  OBVIOUS
<1>1. /\ TermTypeOK /\ TermTypeOK'
      /\ \A c \in Cells : c.row \in Int /\ c.col \in Int
      /\ cursor \in Cells /\ lastLook \in Cells /\ damaged \subseteq Cells
  BY ProgramTypes, CellsHaveColumns DEF TextureInv, TermTypeOK
<1>2. lastLook' = lastLook /\ unseen' = {}
  BY DEF TextureInv, Program, Type, Edit, ScrollUp,
         drawnVars
<1>3. CASE Type
  <2>1. UNCHANGED <<offset, full, damaged, selected>>
    BY <1>3 DEF Type
  <2>2. cursor'.row = cursor.row /\ cursor.col <= cursor'.col
    BY <1>1, <1>3 DEF Type, Cells
  <2>3. PICK d \in damaged \cup {lastLook} : d.row = cursor.row /\ d.col <= cursor.col
    BY DEF TextureInv, CursorAnchored
  <2>4. cursor' \in Cells /\ d \in Cells
    BY <1>1 DEF TermTypeOK
  <2>5. CursorAnchored'
    BY <1>1, <1>2, <2>1, <2>2, <2>3, <2>4 DEF CursorAnchored
  <2>6. cursor \in Spans(damaged' \cup {cursor', lastLook})
    BY <1>1, <2>1, <2>2, <2>3 DEF Spans
  <2>7. Reported \subseteq Reported'
    BY <1>1, <1>2, <2>1, <2>6, ReportedGrows
  <2>8. OnView({cursor}) \subseteq Reported'
    BY <1>1, <1>2, <2>1, <2>6, ReportedThen
  <2>9. /\ stale' = stale \cup OnView({cursor})
        /\ missed' = missed \ OnView({cursor})
    BY <1>3 DEF Type, Changes
  <2>10. NothingLost'
    BY <2>1, <2>7, <2>8, <2>9 DEF TextureInv, NothingLost
  <2> QED BY <1>1, <1>2, <2>5, <2>10 DEF TextureInv
<1>4. CASE Edit
  <2>1. PICK to \in Cells, left \in Col, right \in Col :
          LET C == {c \in Cells : c.row = to.row /\ left <= c.col /\ c.col <= right}
          IN  /\ Changes(OnView(C \cup {cursor, to}))
              /\ damaged' = damaged \cup C \cup {cursor, to}
              /\ cursor' = to
    BY <1>4 DEF Edit, Changes
  <2> DEFINE C == {c \in Cells : c.row = to.row /\ left <= c.col /\ c.col <= right}
                    \cup {cursor, to}
  <2>2. UNCHANGED <<offset, full, selected>>
    BY <1>4 DEF Edit
  <2>3. /\ stale' = stale \cup OnView(C) /\ missed' = missed \ OnView(C)
        /\ damaged' = damaged \cup C /\ cursor' = to
    BY <2>1 DEF Changes
  <2>4. CursorAnchored'
    BY <1>1, <2>3 DEF CursorAnchored
  <2>5. C \subseteq Spans(damaged' \cup {cursor', lastLook})
    BY <1>1, <2>3 DEF Spans
  <2>6. OnView(C) \subseteq Reported'
    BY <1>1, <1>2, <2>2, <2>5, ReportedThen
  <2>7. Reported \subseteq Reported'
    BY <1>1, <1>2, <2>2, <2>3, <2>5, ReportedGrows
  <2>8. NothingLost'
    BY <2>2, <2>3, <2>6, <2>7 DEF TextureInv, NothingLost
  <2> QED BY <1>1, <1>2, <2>4, <2>8 DEF TextureInv
<1>5. CASE ScrollUp
  <2>1. full' = TRUE /\ UNCHANGED <<cursor, damaged>>
    BY <1>5 DEF ScrollUp
  <2> QED BY <1>1, <1>2, <2>1 DEF TextureInv, CursorAnchored, NothingLost
<1> QED BY <1>3, <1>4, <1>5 DEF Program

\* through what the user does, who changes neither the cursor nor the damage;
\* what a cleared highlight leaves behind is given up where nothing reports it;
LEMMA UserKeeps ==
    TextureInv /\ User
      => TextureInv'
<1> SUFFICES ASSUME TextureInv, User
             PROVE  TextureInv'
  OBVIOUS
<1>1. TermTypeOK /\ TermTypeOK'
  BY UserTypes DEF TextureInv
<1>2. UNCHANGED <<cursor, damaged, lastLook, unseen>>
  BY DEF User, Scroll, StartSelection, ExtendSelection,
         ClearSelection, Resize, Focus, Show,
         termVars, drawnVars
<1>3. CursorAnchored'
  BY <1>2 DEF TextureInv, CursorAnchored
<1>4. ASSUME full' = full, offset' = offset
      PROVE  Reported' = Reported
  BY <1>2, <1>4 DEF Reported, OnView, Spans, CursorDamage
<1>5. NothingLost'
  <2>1. CASE Scroll
    BY <2>1 DEF Scroll, NothingLost
  <2>2. CASE StartSelection
    <3>1. selected' = {}
      BY <2>2 DEF StartSelection
    <3> QED BY <3>1, SelectionAssumption DEF NothingLost
  <2>3. CASE ExtendSelection
    <3>1. selected' \in SUBSET Cells
      BY <2>3 DEF ExtendSelection
    <3> QED BY <3>1, SelectionAssumption DEF NothingLost
  <2>4. CASE ClearSelection
    <3>1. /\ UNCHANGED <<full, offset>>
          /\ ~full => missed' = stale' \ OnView(damaged)
      BY <2>4 DEF ClearSelection, termVars
    <3>2. damaged \subseteq Spans(damaged' \cup {cursor', lastLook})
      BY <1>1, <1>2, CellsHaveColumns DEF TermTypeOK, Spans
    <3>3. OnView(damaged) \subseteq Reported'
      BY <1>1, <1>2, <3>1, <3>2, ReportedThen
    <3> QED BY <3>1, <3>3 DEF NothingLost
  <2>5. CASE Resize
    BY <1>2, <1>4, <2>5 DEF Resize, TextureInv, NothingLost
  <2>6. CASE Focus \/ Show
    BY <1>2, <1>4, <2>6 DEF Focus, Show, termVars,
                            TextureInv, NothingLost
  <2> QED BY <2>1, <2>2, <2>3, <2>4, <2>5, <2>6 DEF User
<1> QED BY <1>1, <1>2, <1>3, <1>5 DEF TextureInv

\* and through frames: after one, on view or not, all that is behind is given up.
LEMMA FrameKeeps ==
    TextureInv /\ Frame => TextureInv'
<1> SUFFICES ASSUME TextureInv, Frame
             PROVE  TextureInv'
  OBVIOUS
<1>1. TermTypeOK /\ TermTypeOK'
  BY FrameTypes DEF TextureInv
<1>2. UNCHANGED <<cursor, offset, selected>>
  BY DEF Frame
<1>3. CASE visible
  <2>1. stale' \subseteq missed' /\ unseen' = {}
    BY <1>3, FrameSettles
  <2>2. lastLook' = cursor'
    BY <1>2, <1>3 DEF Frame, SkipFrame, Repaint,
                      RepaintFails, TakeDamage
  <2>3. CursorAnchored'
    BY <1>1, <2>2, CellsHaveColumns DEF CursorAnchored, TermTypeOK
  <2> QED BY <1>1, <2>1, <2>3 DEF TextureInv, NothingLost
<1>4. CASE ~visible
  <2>1. UNCHANGED <<full, damaged, lastLook, missed, stale, unseen>>
    BY <1>4 DEF Frame
  <2>2. Reported' = Reported
    BY <1>2, <2>1 DEF Reported, OnView, Spans, CursorDamage
  <2> QED BY <1>1, <1>2, <2>1, <2>2 DEF TextureInv, CursorAnchored, NothingLost
<1> QED BY <1>3, <1>4

\* The inductive invariant of a terminal's texture: the cells that are behind
\* are given up or reported (take_dirty_cells, GpuTermRenderer::redraw).
THEOREM TextureInductive == TermSpec => []TextureInv
<1>1. TermInit => TextureInv
  BY TextureInit
<1>2. TextureInv /\ [TermNext]_termFrameVars => TextureInv'
  <2> SUFFICES ASSUME TextureInv, [TermNext]_termFrameVars PROVE TextureInv'
    OBVIOUS
  <2>1. CASE Wakeup \/ UNCHANGED termFrameVars
    <3>1. /\ UNCHANGED <<termVars, selected, drawnVars, stale, missed,
                         viewVars>>
          /\ woken' \in {woken, FALSE} /\ redraw' \in {redraw, redraw \/ focused}
      BY <2>1 DEF Wakeup, AsksForFrame, termFrameVars
    <3>2. Reported' = Reported
      BY <3>1 DEF Reported, OnView, Spans, CursorDamage,
                  termVars, drawnVars
    <3>3. TermTypeOK'
      BY <3>1 DEF TextureInv, TermTypeOK, termVars, drawnVars,
                  viewVars
    <3> QED BY <3>1, <3>2, <3>3 DEF TextureInv, CursorAnchored, NothingLost,
                                    termVars, drawnVars
  <2> QED BY <2>1, ProgramKeeps, UserKeeps, FrameKeeps DEF TermNext
<1> QED BY <1>1, <1>2, PTL DEF TermSpec

\* Of all that happens only a frame answers the ping.
LEMMA OnlyFramesAnswer == TermNext /\ redraw /\ ~redraw' => Frame
BY DEF TermNext, Program, Type, Edit, ScrollUp,
       User, Scroll, StartSelection, ExtendSelection,
       ClearSelection, Resize, Focus, Show, Wakeup

\* A frame of a terminal on view leaves nothing behind but what was given up, and
\* the display is told of every cell that was repainted (ConsoleHut::redraw).
THEOREM FramesCatchUp == TermSpec => FrameCatchesUp
<1>1. TextureInv /\ [TermNext]_termFrameVars =>
        [redraw /\ ~redraw' /\ visible => stale' \subseteq missed' /\ unseen' = {}]_termFrameVars
  <2> SUFFICES ASSUME TextureInv, TermNext, redraw, ~redraw', visible
               PROVE  stale' \subseteq missed' /\ unseen' = {}
    OBVIOUS
  <2>1. Frame
    BY OnlyFramesAnswer
  <2> QED BY <2>1, FrameSettles
<1>2. TermSpec =>
        [][redraw /\ ~redraw' /\ visible => stale' \subseteq missed' /\ unseen' = {}]_termFrameVars
  BY <1>1, TextureInductive, PTL DEF TermSpec
<1> QED BY <1>2 DEF FrameCatchesUp

\* While nothing changed since the last look nothing is repainted, wherever the
\* view is scrolled (take_dirty_cells' test for the cursor's own cell).
THEOREM IdleFramesSkip == TermSpec => IdleIsSkipped
<1>1. TextureInv /\ [TermNext]_termFrameVars =>
        [redraw /\ ~redraw' /\ ~full /\ selected = NoSelection /\ damaged = {} /\ cursor = lastLook
           => painted' \in {"nothing", painted}]_termFrameVars
  <2> SUFFICES ASSUME TextureInv, TermNext, redraw, ~redraw',
                      ~full, selected = NoSelection, damaged = {}, cursor = lastLook
               PROVE  painted' \in {"nothing", painted}
    OBVIOUS
  <2>1. Frame
    BY OnlyFramesAnswer
  <2>2. Reported \subseteq OnView({cursor})
    <3>1. cursor \in Cells
      BY DEF TextureInv, TermTypeOK
    <3>2. CursorDamage = Between(cursor, cursor)
      BY DEF CursorDamage, Between
    <3>3. Spans({} \cup Between(cursor, cursor)) = Spans({} \cup {cursor, cursor})
      BY <3>1, SpansOfEnds
    <3>4. Spans({cursor}) \subseteq {cursor}
      <4> SUFFICES ASSUME NEW c \in Spans({cursor}) PROVE c = cursor
        OBVIOUS
      <4>1. c \in Cells /\ c.row = cursor.row /\ c.col = cursor.col
        BY <3>1, CellsHaveColumns DEF Spans
      <4> QED BY <3>1, <4>1 DEF Cells
    <3>5. Spans(damaged \cup CursorDamage) \subseteq {cursor}
      BY <3>2, <3>3, <3>4
    <3> QED BY <3>5 DEF Reported, OnView
  <2>3. Dirty = {}
    BY <2>2 DEF Dirty, Idle
  <2> QED BY <2>1, <2>3 DEF Frame, SkipFrame, Repaint,
                            RepaintFails
<1>2. TermSpec =>
        [][redraw /\ ~redraw' /\ ~full /\ selected = NoSelection /\ damaged = {} /\ cursor = lastLook
           => painted' \in {"nothing", painted}]_termFrameVars
  BY <1>1, TextureInductive, PTL DEF TermSpec
<1> QED BY <1>2 DEF IdleIsSkipped
=============================================================================
