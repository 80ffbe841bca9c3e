-------------------------- MODULE SeatInput_proofs --------------------------
(***************************************************************************)
(* Theorems about SeatInput and the power button in it, for any numbers of *)
(* clients, huts and keys.  The power button's invariant adds to its two   *)
(* properties that whoever was told of a press is the reason why the press *)
(* counts as reported: a release tells exactly when `reported` is set.     *)
(***************************************************************************)
EXTENDS SeatInput, TLAPS

\* What an object was told of a press under way, and the report that goes with it.
PressedIsReported == \A c \in bound : told[c] = "pressed" => reported /\ down

\* A report is of the press under way, and somebody got it and is still there.
ReportIsCurrent == reported => down /\ bound # {}

PowerInv == PowerTypeOK /\ HoldIsUntold /\ NoStuckPress /\ PressedIsReported /\ ReportIsCurrent

\* The power button's part holds at the start.
LEMMA PowerInvInit == PowerInit => PowerInv
BY DEF PowerInit, PowerInv, PowerTypeOK, HoldIsUntold, NoStuckPress, PressedIsReported, ReportIsCurrent

\* Every step of the power button keeps its invariant.
LEMMA PowerInvNext == PowerInv /\ (PowerNext \/ UNCHANGED powerVars) => PowerInv'
<1> SUFFICES ASSUME PowerInv, PowerNext \/ UNCHANGED powerVars
             PROVE  PowerInv'
    OBVIOUS
<1> USE DEF PowerInv, PowerTypeOK, HoldIsUntold, NoStuckPress, PressedIsReported, ReportIsCurrent
<1>1. ASSUME NEW c \in Clients, GetPowerButton(c) PROVE PowerInv'
      BY <1>1 DEF GetPowerButton
<1>2. ASSUME NEW c \in Clients, Destroyed(c) PROVE PowerInv'
  <2>1. \A d \in bound \ {c} : told'[d] = told[d]
        BY <1>2 DEF Destroyed
  <2>2. PressedIsReported' /\ ReportIsCurrent'
        BY <1>2, <2>1 DEF Destroyed, ReportedAfter
  <2>3. HoldIsUntold' /\ NoStuckPress'
        BY <1>2, <2>1 DEF Destroyed, ReportedAfter
  <2>4. PowerTypeOK'
        BY <1>2 DEF Destroyed, ReportedAfter
  <2>   QED BY <2>2, <2>3, <2>4
<1>3. CASE Press
  <2>1. told' = [c \in Clients |-> IF c \in bound THEN "pressed" ELSE told[c]]
        BY <1>3 DEF Press
  <2>2. ~hold
        BY <1>3 DEF Press
  <2>3. PowerTypeOK'
        BY <1>3 DEF Press, StartHold
  <2>4. HoldIsUntold'
    <3>1. CASE bound = {}
          BY <1>3, <3>1 DEF Press
    <3>2. CASE bound # {}
          BY <1>3, <2>2, <3>2 DEF Press
    <3>   QED BY <3>1, <3>2
  <2>5. NoStuckPress' /\ PressedIsReported' /\ ReportIsCurrent'
        BY <1>3, <2>1 DEF Press
  <2>   QED BY <2>3, <2>4, <2>5
<1>4. CASE Release
  <2>1. \A c \in bound : told'[c] # "pressed"
        BY <1>4 DEF Release
  <2>   QED BY <1>4, <2>1 DEF Release, CancelHold
<1>5. CASE HoldFires
      BY <1>5 DEF HoldFires, StillUnbound
<1>6. CASE UNCHANGED powerVars
      BY <1>6 DEF powerVars
<1>   QED BY <1>1, <1>2, <1>3, <1>4, <1>5, <1>6 DEF PowerNext

\* A step of the seat is one of the power button or leaves it alone.
LEMMA StepIsPower == [Next]_vars => PowerNext \/ UNCHANGED powerVars
BY DEF Next, vars, powerVars

\* The power button's part of the type invariant, and what it tells clients.
THEOREM PowerSafe == Spec => []PowerInv
<1>1. Init => PowerInv
      BY PowerInvInit DEF Init
<1>2. PowerInv /\ [Next]_vars => PowerInv'
      BY PowerInvNext, StepIsPower
<1>   QED BY <1>1, <1>2, PTL DEF Spec

\* The hold timer runs only during a press no client was told of
\* (start_power_button_hold_timer).
THEOREM HoldStaysUntold == Spec => []HoldIsUntold
<1>1. PowerInv => HoldIsUntold
      BY DEF PowerInv
<1>   QED BY PowerSafe, <1>1, PTL

\* Nobody is left with a pressed button (Dispatch2::destroyed).
THEOREM NobodyStuck == Spec => []NoStuckPress
<1>1. PowerInv => NoStuckPress
      BY DEF PowerInv
<1>   QED BY PowerSafe, <1>1, PTL

\* The session ends only while the button is held and nobody is bound.
THEOREM StopDeliberate == Spec => StopIsDeliberate
<1>1. PowerInv /\ PowerNext /\ stopped' /\ ~stopped => down' /\ bound = {}
  <2> SUFFICES ASSUME PowerInv, PowerNext, stopped', ~stopped
               PROVE  down' /\ bound = {}
      OBVIOUS
  <2>1. CASE Press
        BY <2>1 DEF Press, StartHold, powerVars
  <2>2. CASE HoldFires
        BY <2>2 DEF HoldFires, StillUnbound, PowerInv, HoldIsUntold
  <2>3. CASE Release
        BY <2>3 DEF Release
  <2>4. CASE \E c \in Clients : GetPowerButton(c) \/ Destroyed(c)
        BY <2>4 DEF GetPowerButton, Destroyed
  <2>   QED BY <2>1, <2>2, <2>3, <2>4 DEF PowerNext
<1>2. PowerInv /\ [Next]_vars => [stopped' /\ ~stopped => down' /\ bound = {}]_powerVars
      BY <1>1, StepIsPower DEF powerVars
<1>   QED BY PowerSafe, <1>2, PTL DEF Spec, StopIsDeliberate

-----------------------------------------------------------------------------
\* Types of what the keys and buttons change.
SeatTypeOK ==
    /\ focused \in Huts
    /\ terminal \in [Huts -> BOOLEAN]
    /\ reports \in [Huts -> BOOLEAN]
    /\ typed \in [Huts -> 0..1]
    /\ locked \in BOOLEAN
    /\ exclusive \in BOOLEAN
    /\ held \subseteq Keys
    /\ repeat \in [key : Keys, hut : Huts] \cup {None}
    /\ buttons \subseteq Buttons
    /\ selecting \in BOOLEAN
    /\ reporting \in Buttons \cup {None}

SeatInv == SeatTypeOK /\ LockStopsRepeat

\* Every step keeps the seat's part.
LEMMA SeatInvNext == SeatInv /\ [Next]_vars => SeatInv'
<1> SUFFICES ASSUME SeatInv, [Next]_vars
             PROVE  SeatInv'
    OBVIOUS
<1> USE DEF SeatInv, SeatTypeOK, LockStopsRepeat, viewVars, grabVars, keyVars, pointerVars
<1>1. ASSUME NEW k \in Keys, KeyPress(k) PROVE SeatInv'
      BY <1>1 DEF KeyPress, TerminalOnView, WriteInput, StartRepeat
<1>2. ASSUME NEW k \in Keys, KeyRelease(k) PROVE SeatInv'
      BY <1>2 DEF KeyRelease, CancelRepeat
<1>3. CASE RepeatTick
      BY <1>3 DEF RepeatTick, MayRepeat, TerminalOnView, WriteInput
<1>4. ASSUME NEW b \in Buttons, ButtonPress(b) PROVE SeatInv'
      BY <1>4 DEF ButtonPress, TerminalOnView
<1>5. ASSUME NEW b \in Buttons, ButtonRelease(b) PROVE SeatInv'
      BY <1>5 DEF ButtonRelease, TerminalOnView
<1>6. CASE Lock
      BY <1>6 DEF Lock, CancelRepeat
<1>7. CASE Unlock
      BY <1>7 DEF Unlock
<1>8. CASE Exclusive
      BY <1>8 DEF Exclusive
<1>9. ASSUME NEW h \in Huts, ShowHut(h) PROVE SeatInv'
      BY <1>9 DEF ShowHut
<1>10. ASSUME NEW h \in Huts, ShowTerminal(h) PROVE SeatInv'
      BY <1>10 DEF ShowTerminal
<1>11. ASSUME NEW h \in Huts, SetMouseMode(h) PROVE SeatInv'
      BY <1>11 DEF SetMouseMode
<1>12. CASE UNCHANGED seatVars
      BY <1>12 DEF seatVars
<1>   QED BY <1>1, <1>2, <1>3, <1>4, <1>5, <1>6, <1>7, <1>8, <1>9, <1>10, <1>11, <1>12
          DEF Next, SeatStep, vars

\* The seat's part holds in every state.
LEMMA SeatSafe == Spec => []SeatInv
<1>1. Init => SeatInv
  <2> HAVE Init
  <2>1. focused \in Huts /\ held \subseteq Keys /\ buttons \subseteq Buttons
        BY DEF Init
  <2>2. typed \in [Huts -> 0..1]
        BY DEF Init
  <2>3. terminal \in [Huts -> BOOLEAN]
        BY DEF Init
  <2>4. reports \in [Huts -> BOOLEAN]
        BY DEF Init
  <2>5. /\ locked \in BOOLEAN /\ exclusive \in BOOLEAN /\ selecting \in BOOLEAN
        /\ repeat = None /\ reporting = None
        BY DEF Init
  <2>   QED BY <2>1, <2>2, <2>3, <2>4, <2>5 DEF SeatInv, SeatTypeOK, LockStopsRepeat
<1>   QED BY <1>1, SeatInvNext, PTL DEF Spec

\* The type invariant of the whole.
THEOREM TypeCorrect == Spec => []TypeOK
<1>1. PowerInv /\ SeatInv => TypeOK
      BY DEF PowerInv, SeatInv, SeatTypeOK, TypeOK
<1>   QED BY PowerSafe, SeatSafe, <1>1, PTL

\* No key goes on typing behind the lock screen (SessionLockHandler::lock).
THEOREM LockStops == Spec => []LockStopsRepeat
<1>1. SeatInv => LockStopsRepeat
      BY DEF SeatInv
<1>   QED BY SeatSafe, <1>1, PTL

\* A repeat types only into the hut its key went down in
\* (start_terminal_repeat's tick).
THEOREM RepeatInHut == Spec => RepeatStaysInHut
<1> DEFINE A == \A h \in Huts : typed'[h] # typed[h] /\ held' = held =>
                  /\ repeat # None /\ repeat.hut = h
                  /\ focused = h /\ terminal[h] /\ ~locked /\ ~exclusive
<1>1. SeatInv /\ [Next]_vars => A \/ UNCHANGED vars
  <2> SUFFICES ASSUME SeatInv, Next, NEW h \in Huts, typed'[h] # typed[h], held' = held
               PROVE  /\ repeat # None /\ repeat.hut = h
                      /\ focused = h /\ terminal[h] /\ ~locked /\ ~exclusive
      BY DEF vars
  <2>1. RepeatTick
    <3>1. ASSUME NEW k \in Keys, KeyPress(k) PROVE FALSE
          BY <3>1 DEF KeyPress
    <3>   QED BY <3>1 DEF Next, SeatStep, KeyRelease, ButtonPress, ButtonRelease, Lock, Unlock,
                 Exclusive, ShowHut, ShowTerminal, SetMouseMode, seatVars, keyVars
  <2>   QED BY <2>1 DEF RepeatTick, MayRepeat, TerminalOnView, WriteInput, SeatInv, SeatTypeOK
<1>2. SeatInv /\ [Next]_vars => [A]_vars
      BY <1>1
<1>   QED BY SeatSafe, <1>2, PTL DEF Spec, RepeatStaysInHut
=============================================================================
