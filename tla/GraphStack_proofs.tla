-------------------------- MODULE GraphStack_proofs --------------------------
(***************************************************************************)
(* What holds of GraphStack for every value of its constants.  The first   *)
(* part is about the slots of the outputs and their lists of huts.  The    *)
(* second is about the tree below them: its places are a forest over the   *)
(* nodes that are alive, so that the walks along it (FocusedPath, Under)   *)
(* come to their end within MaxNodes steps.  The walks are functions       *)
(* defined by recursion; what they compute is proved by an induction over  *)
(* the naturals that is itself derived here, from the order of finite      *)
(* sets.  The third part shows that the outputs are most-recently-used     *)
(* stacks: every step of GraphStack is a step of MruStacks, or leaves the  *)
(* stacks alone.                                                           *)
(***************************************************************************)
EXTENDS GraphStack, FiniteSetTheorems, TLAPS

-----------------------------------------------------------------------------
(* The sequence operators the model uses.                                  *)

\* RemoveAt drops one position and keeps the others in order.
LEMMA RemoveAtFacts ==
    ASSUME NEW S, NEW s \in Seq(S), NEW i \in DOMAIN s
    PROVE  /\ RemoveAt(s, i) \in Seq(S)
           /\ Len(RemoveAt(s, i)) = Len(s) - 1
           /\ \A j \in 1..(Len(s) - 1) :
                RemoveAt(s, i)[j] = IF j < i THEN s[j] ELSE s[j + 1]
<1> DEFINE front == SubSeq(s, 1, i - 1)
           back  == SubSeq(s, i + 1, Len(s))
<1>0. i \in 1..Len(s)
  OBVIOUS
<1>1. /\ front \in Seq(S)
      /\ Len(front) = i - 1
      /\ \A j \in 1..(i - 1) : front[j] = s[j]
  OBVIOUS
<1>2. /\ back \in Seq(S)
      /\ Len(back) = Len(s) - i
      /\ \A j \in 1..(Len(s) - i) : back[j] = s[i + j]
  OBVIOUS
<1>3. RemoveAt(s, i) = front \o back
  BY DEF RemoveAt
<1> HIDE DEF front, back
<1>4. /\ front \o back \in Seq(S)
      /\ Len(front \o back) = Len(s) - 1
  BY <1>1, <1>2
<1>5. ASSUME NEW j \in 1..(Len(s) - 1)
      PROVE  (front \o back)[j] = IF j < i THEN s[j] ELSE s[j + 1]
  <2>1. CASE j < i
    BY <2>1, <1>1, <1>2
  <2>2. CASE ~(j < i)
    BY <2>2, <1>0, <1>1, <1>2
  <2> QED BY <2>1, <2>2
<1> QED BY <1>3, <1>4, <1>5

\* ReplaceAll keeps the length of a list.
LEMMA ReplaceAllFacts ==
    ASSUME NEW S, NEW s \in Seq(S), NEW old, NEW new \in S
    PROVE  /\ ReplaceAll(s, old, new) \in Seq(S)
           /\ Len(ReplaceAll(s, old, new)) = Len(s)
  BY DEF ReplaceAll

\* Putting an element in front of a list.
LEMMA PrependFacts ==
    ASSUME NEW S, NEW s \in Seq(S), NEW e \in S
    PROVE  <<e>> \o s \in Seq(S) /\ Len(<<e>> \o s) = Len(s) + 1
  OBVIOUS

-----------------------------------------------------------------------------
(* Steps the handlers share.                                               *)

GraphTypes ==
    /\ kind \in [NodeId -> Kinds]
    /\ children \in [NodeId -> Seq(NodeId)]
    /\ active \in [NodeId -> Nat]
    /\ keyed \in [NodeId -> SUBSET NodeId]
    /\ touched \subseteq NodeId
    /\ windowed \subseteq NodeId
    /\ nextId \in Nat \ {0}

SlotTypes ==
    /\ outputs \in Seq(Slots)
    /\ focusedOutput \in DOMAIN outputs
    /\ hold \in BOOLEAN
    /\ loop \in {"starting", "running", "stopping", "stopped", "panicked"}

Running == loop \in {"starting", "running"}

\* The two halves of IInv: about the graph, about the outputs.
GraphHalf == GraphTypes /\ GraphInv
SlotHalf  == SlotTypes /\ SlotInv

\* The invariant is its two halves.
LEMMA Halves == IInv <=> GraphHalf /\ SlotHalf
  BY DEF IInv, TypeOK, GraphHalf, SlotHalf, GraphTypes, SlotTypes

\* The two halves after a step give the invariant after it.
LEMMA HalvesNext == GraphHalf' /\ SlotHalf' => IInv'
  BY DEF IInv, TypeOK, GraphHalf, SlotHalf, GraphTypes, SlotTypes

\* A successful spawn hands out a fresh id.
LEMMA SpawnedId ==
    ASSUME NEW ids \in {1, 2}, GraphTypes, TRUE \in SpawnOutcomes(ids)
    PROVE  nextId \in NodeId /\ nextId + ids - 1 \in NodeId
  BY BoundsAssumption DEF SpawnOutcomes, NodeId, GraphTypes

\* Removing nodes and adding one console keeps the graph half.
LEMMA ReshapeKeepsGraph ==
    ASSUME GraphHalf, NEW removed,
           NEW ok \in BOOLEAN, ok \in SpawnOutcomes(1) \/ ~ok,
           Reshape(removed, ok)
    PROVE  GraphHalf'
<1>1. ok => nextId \in NodeId
  BY SpawnedId DEF GraphHalf
<1>2. GraphTypes'
  <2> USE DEF GraphHalf, GraphTypes, Reshape
  <2>1. kind' \in [NodeId -> Kinds]
    BY DEF Kinds
  <2>2. children' \in [NodeId -> Seq(NodeId)]
    OBVIOUS
  <2>3. active' \in [NodeId -> Nat]
    OBVIOUS
  <2>4. keyed' \in [NodeId -> SUBSET NodeId]
    OBVIOUS
  <2>5. touched' \subseteq NodeId /\ windowed' \subseteq NodeId /\ nextId' \in Nat \ {0}
    OBVIOUS
  <2> QED BY <2>1, <2>2, <2>3, <2>4, <2>5
<1>3. (\A n \in NodeId : n >= nextId => kind[n] = "none")'
  BY <1>1 DEF GraphHalf, GraphTypes, GraphInv, Reshape, NodeId
<1>4. WrappersArePairs'
  <2> SUFFICES ASSUME NEW n \in NodeId
               PROVE  IF kind'[n] \in Wrappers
                      THEN Len(children'[n]) = 2 /\ active'[n] \in 1..2
                      ELSE children'[n] = <<>>
    BY DEF WrappersArePairs
  <2>1. CASE n \in removed
    BY <2>1 DEF Reshape, Wrappers
  <2>2. CASE n \notin removed /\ ok /\ n = nextId
    BY <2>2 DEF GraphHalf, GraphInv, GraphTypes, WrappersArePairs, Reshape, Wrappers, NodeId
  <2>3. CASE n \notin removed /\ ~(ok /\ n = nextId)
    BY <2>3 DEF GraphHalf, GraphInv, GraphTypes, WrappersArePairs, Reshape
  <2> QED BY <2>1, <2>2, <2>3
<1> QED BY <1>2, <1>3, <1>4 DEF GraphHalf, GraphInv

\* What is left of a slot when one of its fields is replaced.
LEMMA SlotUpdates ==
    ASSUME NEW slot \in Slots, NEW x
    PROVE  /\ [slot EXCEPT !.huts = x] =
                [huts |-> x, current |-> slot.current, preview |-> slot.preview]
           /\ [slot EXCEPT !.current = x] =
                [huts |-> slot.huts, current |-> x, preview |-> slot.preview]
           /\ [slot EXCEPT !.preview = x] =
                [huts |-> slot.huts, current |-> slot.current, preview |-> x]
  BY DEF Slots

\* Giving one output a good slot keeps the slot half.
LEMMA SetSlotKeepsSlots ==
    ASSUME SlotHalf, NEW o \in DOMAIN outputs, NEW slot \in Slots,
           SlotGood(slot), Running' => Running /\ SlotFull(slot),
           hold' \in BOOLEAN,
           loop' \in {"starting", "running", "stopping", "stopped", "panicked"},
           SetSlot(o, slot)
    PROVE  SlotHalf'
  BY DEF SlotHalf, SlotTypes, SlotInv, Running, SetSlot

\* A step that leaves the graph alone keeps the graph half.
LEMMA StutterKeepsGraph ==
    ASSUME GraphHalf, UNCHANGED <<graphVars, useVars>>
    PROVE  GraphHalf'
  BY DEF GraphHalf, GraphTypes, GraphInv, WrappersArePairs, graphVars, useVars

\* A step that leaves the outputs alone keeps the slot half.
LEMMA StutterKeepsSlots ==
    ASSUME SlotHalf, UNCHANGED <<slotVars, hold>>,
           loop' \in {"starting", "running", "stopping", "stopped", "panicked"},
           Running' => Running
    PROVE  SlotHalf'
  BY DEF SlotHalf, SlotTypes, SlotInv, Running, slotVars

\* An `active` moved to a child that exists keeps the graph half.
LEMMA MoveActiveKeepsGraph ==
    ASSUME GraphHalf, NEW n, NEW i \in Nat,
           n \in NodeId => i \in DOMAIN children[n],
           active' = [active EXCEPT ![n] = i],
           UNCHANGED <<kind, children, keyed, nextId, useVars>>
    PROVE  GraphHalf'
<1>1. GraphTypes'
  BY DEF GraphHalf, GraphTypes, useVars
<1>2. WrappersArePairs'
  <2> SUFFICES ASSUME NEW m \in NodeId
               PROVE  IF kind[m] \in Wrappers
                      THEN Len(children[m]) = 2 /\ active'[m] \in 1..2
                      ELSE children[m] = <<>>
    BY DEF WrappersArePairs
  <2>1. CASE m = n
    BY <2>1 DEF GraphHalf, GraphTypes, GraphInv, WrappersArePairs
  <2>2. CASE m # n
    BY <2>2 DEF GraphHalf, GraphTypes, GraphInv, WrappersArePairs
  <2> QED BY <2>1, <2>2
<1> QED BY <1>1, <1>2 DEF GraphHalf, GraphInv

\* Only `touched`, `windowed` or the keys changing keeps it too.
LEMMA UseKeepsGraph ==
    ASSUME GraphHalf, UNCHANGED <<kind, children, active, nextId>>,
           keyed' \in [NodeId -> SUBSET NodeId],
           touched' \subseteq NodeId, windowed' \subseteq NodeId
    PROVE  GraphHalf'
  BY DEF GraphHalf, GraphTypes, GraphInv, WrappersArePairs

\* The two index helpers stay at or past the first entry, and a clamped index
\* within a list that has one.
LEMMA ClampFacts ==
    ASSUME NEW i \in Nat, NEW len \in Nat
    PROVE  /\ ClampIndex(i, len) \in Nat
           /\ i >= 1 => ClampIndex(i, len) >= 1
           /\ i <= 1 => ClampIndex(i, len) = i
           /\ len >= 1 => ClampIndex(i, len) <= len
  BY DEF ClampIndex, MaxIndex

\* The same for the shift of an index past a removed position.
LEMMA ShiftFacts ==
    ASSUME NEW i \in Nat, NEW removed \in Nat \ {0}, NEW len \in Nat
    PROVE  /\ ShiftOnRemoval(i, removed, len) \in Nat
           /\ i >= 1 => ShiftOnRemoval(i, removed, len) >= 1
           /\ i <= 1 => ShiftOnRemoval(i, removed, len) = i
<1>1. CASE removed < i
  BY <1>1 DEF ShiftOnRemoval
<1>2. CASE ~(removed < i)
  BY <1>2, ClampFacts DEF ShiftOnRemoval
<1> QED BY <1>1, <1>2

-----------------------------------------------------------------------------
(* Start-up.                                                               *)

\* The initial state has the inductive invariant.
THEOREM InitIInv == Init => IInv
<1> SUFFICES ASSUME Init PROVE IInv
  OBVIOUS
<1> USE BoundsAssumption DEF Init
<1>1. 1 \in NodeId
  BY DEF NodeId
<1>2. NewSlot(1) \in Slots /\ Len(NewSlot(1).huts) = 1
  BY <1>1 DEF NewSlot, Slots
<1>3. GraphTypes
  BY <1>1 DEF GraphTypes, Kinds
<1>4. GraphInv
  BY DEF GraphInv, WrappersArePairs, Wrappers, NodeId
<1>5. outputs \in Seq(Slots) /\ DOMAIN outputs = {1} /\ outputs[1] = NewSlot(1)
  BY <1>2
<1>6. SlotTypes
  BY <1>5 DEF SlotTypes
<1>7. SlotGood(NewSlot(1)) /\ SlotFull(NewSlot(1))
  BY <1>2 DEF SlotGood, SlotFull, NewSlot
<1>8. SlotInv
  BY <1>5, <1>7 DEF SlotInv
<1> QED BY <1>3, <1>4, <1>6, <1>8, Halves DEF GraphHalf, SlotHalf

\* An autostart entry is appended behind the ones that are there.
LEMMA SpawnWithCommandKeepsIInv ==
    ASSUME GraphHalf, SlotHalf, SpawnWithCommand
    PROVE  GraphHalf' /\ SlotHalf'
<1>1. nextId \in NodeId
  BY SpawnedId DEF SpawnWithCommand, GraphHalf
<1>2. GraphHalf'
  <2>1. GraphTypes'
    BY <1>1 DEF SpawnWithCommand, GraphHalf, GraphTypes, Kinds
  <2>2. GraphInv'
    BY <1>1 DEF SpawnWithCommand, GraphHalf, GraphTypes, GraphInv, WrappersArePairs,
                Wrappers, NodeId
  <2> QED BY <2>1, <2>2 DEF GraphHalf
<1>3. SlotHalf'
  <2> DEFINE old  == outputs[focusedOutput]
             slot == [old EXCEPT !.huts = Append(@, nextId)]
  <2>1. old \in Slots /\ SlotGood(old) /\ SlotFull(old)
    BY DEF SlotHalf, SlotTypes, SlotInv, SpawnWithCommand
  <2>2. slot \in Slots /\ Len(slot.huts) = Len(old.huts) + 1
    <3>1. slot = [huts |-> Append(old.huts, nextId),
                  current |-> old.current, preview |-> old.preview]
      BY <2>1, SlotUpdates, Zenon
    <3> HIDE DEF slot
    <3> QED BY <1>1, <2>1, <3>1 DEF Slots
  <2>3. SlotGood(slot) /\ SlotFull(slot)
    BY <2>1, <2>2 DEF SlotGood, SlotFull, Slots
  <2>4. SetSlot(focusedOutput, slot) /\ hold' = hold /\ loop' = loop
    BY DEF SpawnWithCommand
  <2> HIDE DEF slot
  <2> QED BY <2>2, <2>3, <2>4, SetSlotKeepsSlots
            DEF SlotHalf, SlotTypes, SpawnWithCommand, Running
<1> QED BY <1>2, <1>3

-----------------------------------------------------------------------------
(* Walking the stack.                                                      *)

\* Where a step lands in a good slot is good again, and within the list if the
\* position is.
LEMMA LandedFacts ==
    ASSUME NEW slot \in Slots, SlotGood(slot), NEW pos \in Nat \ {0},
           NEW huts \in Seq(NodeId)
    PROVE  /\ Landed(slot, pos).huts = slot.huts
           /\ Landed(slot, pos) = [Landed(slot, pos) EXCEPT !.huts = slot.huts]
           /\ [Landed(slot, pos) EXCEPT !.huts = huts] \in Slots
           /\ SlotGood([Landed(slot, pos) EXCEPT !.huts = huts])
           /\ pos <= Len(huts) => SlotFull([Landed(slot, pos) EXCEPT !.huts = huts])
<1>1. CASE StackHold
  <2> DEFINE new == [huts |-> slot.huts, current |-> slot.current, preview |-> pos]
  <2>1. Landed(slot, pos) = new
    BY <1>1, SlotUpdates, Zenon DEF Landed
  <2>2. new \in Slots
    BY DEF Slots
  <2>3. [new EXCEPT !.huts = huts] =
            [huts |-> huts, current |-> slot.current, preview |-> pos]
    OBVIOUS
  <2>4. [new EXCEPT !.huts = slot.huts] = new
    OBVIOUS
  <2>5. slot.current = 1
    BY <1>1 DEF SlotGood
  <2> QED BY <1>1, <2>1, <2>2, <2>3, <2>4, <2>5 DEF Slots, SlotGood, SlotFull
<1>2. CASE ~StackHold
  <2> DEFINE new == [huts |-> slot.huts, current |-> pos, preview |-> slot.preview]
  <2>1. Landed(slot, pos) = new
    BY <1>2, SlotUpdates, Zenon DEF Landed
  <2>2. new \in Slots
    BY DEF Slots
  <2>3. [new EXCEPT !.huts = huts] =
            [huts |-> huts, current |-> pos, preview |-> slot.preview]
    OBVIOUS
  <2>4. [new EXCEPT !.huts = slot.huts] = new
    OBVIOUS
  <2>5. slot.preview = 0
    BY <1>2 DEF SlotGood
  <2> QED BY <1>2, <2>1, <2>2, <2>3, <2>4, <2>5 DEF Slots, SlotGood, SlotFull
<1> QED BY <1>1, <1>2

\* What the slot half says of one output.
LEMMA FocusedSlot ==
    ASSUME SlotHalf, NEW o \in DOMAIN outputs
    PROVE  /\ outputs[o] \in Slots
           /\ outputs[o].huts \in Seq(NodeId)
           /\ SlotGood(outputs[o])
           /\ Running => SlotFull(outputs[o])
           /\ Pos(outputs[o]) \in Nat \ {0}
           /\ Running => Pos(outputs[o]) <= Len(outputs[o].huts)
<1>1. outputs[o] \in Slots /\ outputs[o].huts \in Seq(NodeId)
  <2>1. outputs[o] \in Slots
    BY DEF SlotHalf, SlotTypes
  <2> QED BY <2>1 DEF Slots
<1>2. SlotGood(outputs[o]) /\ (Running => SlotFull(outputs[o]))
  BY DEF SlotHalf, SlotInv, Running
<1>3. Pos(outputs[o]) \in Nat \ {0}
  BY <1>1, <1>2 DEF Pos, SlotGood, Slots
<1>4. Running => Pos(outputs[o]) <= Len(outputs[o].huts)
  BY <1>2 DEF Pos, SlotFull
<1> QED BY <1>1, <1>2, <1>3, <1>4

\* A handler that lands somewhere in a new list and leaves the loop as it is.
LEMMA LandKeepsSlots ==
    ASSUME SlotHalf, NEW o \in DOMAIN outputs, NEW pos \in Nat \ {0},
           NEW huts \in Seq(NodeId), Running => pos <= Len(huts),
           SetSlot(o, [Landed(outputs[o], pos) EXCEPT !.huts = huts]),
           UNCHANGED <<hold, loop>>
    PROVE  SlotHalf'
<1> DEFINE new == [Landed(outputs[o], pos) EXCEPT !.huts = huts]
<1>1. new \in Slots /\ SlotGood(new) /\ (pos <= Len(huts) => SlotFull(new))
  BY FocusedSlot, LandedFacts, Zenon
<1>2. Running' = Running /\ hold' \in BOOLEAN
      /\ loop' \in {"starting", "running", "stopping", "stopped", "panicked"}
  BY DEF Running, SlotHalf, SlotTypes
<1> HIDE DEF new
<1> QED BY <1>1, <1>2, SetSlotKeepsSlots DEF new

\* StackNext without a stack-hold modifier and with one.
LEMMA StackNextKeepsIInv ==
    ASSUME GraphHalf, SlotHalf, StackNext
    PROVE  GraphHalf' /\ SlotHalf'
<1> DEFINE o    == focusedOutput
           slot == outputs[o]
           pos  == Pos(slot)
<1>1. o \in DOMAIN outputs
  BY DEF SlotHalf, SlotTypes
<1>2. /\ slot \in Slots /\ slot.huts \in Seq(NodeId) /\ SlotGood(slot)
      /\ pos \in Nat \ {0} /\ (Running => pos <= Len(slot.huts))
      /\ (Running => SlotFull(slot))
  BY <1>1, FocusedSlot
<1>3. \A p \in Nat \ {0} : /\ Landed(slot, p).huts = slot.huts
                           /\ Landed(slot, p) = [Landed(slot, p) EXCEPT !.huts = slot.huts]
  BY <1>2, LandedFacts, Zenon
<1>4. \A ok \in SpawnOutcomes(1) : ok \in BOOLEAN /\ (ok => nextId \in NodeId)
  BY SpawnedId DEF SpawnOutcomes, GraphHalf
<1>5. CASE AdvanceEmpty(o, slot)
  <2>1. PICK ok \in SpawnOutcomes(1) :
          /\ Reshape({}, ok)
          /\ SetSlot(o, IF ok THEN [Landed(slot, 1) EXCEPT !.huts = <<nextId>>] ELSE slot)
          /\ loop' = IF ok THEN loop ELSE "stopping"
          /\ hold' = hold
    BY <1>5 DEF AdvanceEmpty
  <2>2. GraphHalf'
    BY <2>1, <1>4, ReshapeKeepsGraph
  <2>3. CASE ok
    <3> DEFINE huts == <<nextId>>
    <3>0. nextId \in NodeId
      BY <2>3, <1>4
    <3>1. huts \in Seq(NodeId) /\ Len(huts) = 1
      BY <3>0
    <3>2. SetSlot(o, [Landed(slot, 1) EXCEPT !.huts = huts])
          /\ UNCHANGED <<hold, loop>>
      BY <2>1, <2>3, Zenon
    <3> HIDE DEF huts
    <3>3. SlotHalf'
      BY <1>1, <3>1, <3>2, LandKeepsSlots
    <3> QED BY <2>2, <3>3
  <2>4. CASE ~ok
    <3>1. SetSlot(o, slot) /\ loop' = "stopping" /\ hold' \in BOOLEAN
      BY <2>1, <2>4, Zenon DEF SlotHalf, SlotTypes
    <3>2. ~Running'
      BY <3>1 DEF Running
    <3>3. SlotHalf'
      BY <1>1, <1>2, <3>1, <3>2, SetSlotKeepsSlots
    <3> QED BY <2>2, <3>3
  <2> QED BY <2>1, <2>3, <2>4, <1>4
<1>6. CASE AdvanceOver(o, slot, pos)
  <2>1. /\ pos + 1 \in Nat \ {0} /\ pos + 1 <= Len(slot.huts)
        /\ SetSlot(o, Landed(slot, pos + 1))
        /\ UNCHANGED <<graphVars, useVars>> /\ UNCHANGED <<hold, loop>>
    BY <1>2, <1>6 DEF AdvanceOver
  <2>2. SetSlot(o, [Landed(slot, pos + 1) EXCEPT !.huts = slot.huts])
    BY <1>3, <2>1, Zenon
  <2> HIDE DEF slot, pos, o
  <2>3. SlotHalf'
    BY <1>1, <1>2, <2>1, <2>2, LandKeepsSlots DEF slot
  <2> QED BY <2>1, <2>3, StutterKeepsGraph
<1>7. CASE AdvanceGrow(o, slot, pos)
  <2>1. PICK ok \in SpawnOutcomes(1) :
          /\ Reshape({}, ok)
          /\ SetSlot(o, [Landed(slot, IF ok THEN pos + 1 ELSE pos) EXCEPT
                           !.huts = Appended(@, ok)])
          /\ pos = Len(slot.huts) /\ UNCHANGED <<hold, loop>>
    BY <1>7 DEF AdvanceGrow
  <2> DEFINE p    == IF ok THEN pos + 1 ELSE pos
             huts == Appended(slot.huts, ok)
  <2>2. GraphHalf'
    BY <2>1, <1>4, ReshapeKeepsGraph
  <2>3. p \in Nat \ {0} /\ huts \in Seq(NodeId) /\ p <= Len(huts)
    BY <2>1, <1>2, <1>4 DEF Appended
  <2>4. SetSlot(o, [Landed(slot, p) EXCEPT !.huts = huts])
    BY <2>1, <2>3, <1>3, Zenon
  <2> HIDE DEF p, huts
  <2>5. SlotHalf'
    BY <1>1, <2>1, <2>3, <2>4, LandKeepsSlots
  <2> QED BY <2>2, <2>5
<1>8. CASE AdvanceDiscard(o, slot, pos)
  <2>1. PICK ok \in SpawnOutcomes(1) :
          /\ Reshape({slot.huts[pos]}, ok)
          /\ SetSlot(o, [Landed(slot, Len(Appended(RemoveAt(slot.huts, pos), ok))) EXCEPT
                           !.huts = Appended(RemoveAt(slot.huts, pos), ok)])
          /\ pos \in DOMAIN slot.huts /\ Len(slot.huts) > 1
          /\ UNCHANGED <<hold, loop>>
    BY <1>8 DEF AdvanceDiscard
  <2> DEFINE left == Appended(RemoveAt(slot.huts, pos), ok)
  <2>2. GraphHalf'
    BY <2>1, <1>4, ReshapeKeepsGraph
  <2>3. RemoveAt(slot.huts, pos) \in Seq(NodeId) /\ Len(RemoveAt(slot.huts, pos)) >= 1
    BY <2>1, <1>2, RemoveAtFacts
  <2>4. left \in Seq(NodeId) /\ Len(left) \in Nat \ {0} /\ Len(left) <= Len(left)
    BY <2>1, <2>3, <1>4 DEF Appended
  <2>5. SetSlot(o, [Landed(slot, Len(left)) EXCEPT !.huts = left])
    BY <2>1, Zenon
  <2> HIDE DEF left
  <2>6. SlotHalf'
    BY <1>1, <2>1, <2>4, <2>5, LandKeepsSlots
  <2> QED BY <2>2, <2>6
<1>9. CASE AdvanceReplace(o, slot, pos)
  <2>1. PICK ok \in SpawnOutcomes(1) :
          /\ Reshape(IF ok THEN {slot.huts[1]} ELSE {}, ok)
          /\ SetSlot(o, [Landed(slot, 1) EXCEPT !.huts = Replaced(@, ok)])
          /\ Len(slot.huts) = 1 /\ UNCHANGED <<hold, loop>>
    BY <1>9 DEF AdvanceReplace
  <2> DEFINE huts == Replaced(slot.huts, ok)
  <2>2. GraphHalf'
    BY <2>1, <1>4, ReshapeKeepsGraph
  <2>3. huts \in Seq(NodeId) /\ Len(huts) = 1 /\ 1 \in Nat \ {0}
    BY <2>1, <1>2, <1>4 DEF Replaced
  <2>4. SetSlot(o, [Landed(slot, 1) EXCEPT !.huts = huts])
    BY <2>1, <2>3, <1>3, Zenon
  <2> HIDE DEF huts
  <2>5. SlotHalf'
    BY <1>1, <2>1, <2>3, <2>4, LandKeepsSlots
  <2> QED BY <2>2, <2>5
<1> QED BY <1>5, <1>6, <1>7, <1>8, <1>9 DEF StackNext

\* StackPrev, from an open session, without one and without a modifier.
LEMMA StackPrevKeepsIInv ==
    ASSUME GraphHalf, SlotHalf, StackPrev
    PROVE  GraphHalf' /\ SlotHalf'
<1> DEFINE o    == focusedOutput
           slot == outputs[o]
           pos  == Pos(slot)
<1>1. o \in DOMAIN outputs /\ UNCHANGED <<hold, loop>>
  BY DEF SlotHalf, SlotTypes, StackPrev
<1>2. /\ slot \in Slots /\ slot.huts \in Seq(NodeId) /\ SlotGood(slot)
      /\ pos \in Nat \ {0} /\ (Running => pos <= Len(slot.huts))
      /\ (Running => SlotFull(slot))
  BY <1>1, FocusedSlot
<1>3. \A p \in Nat \ {0} : Landed(slot, p) = [Landed(slot, p) EXCEPT !.huts = slot.huts]
  BY <1>2, LandedFacts, Zenon
<1>4. ASSUME NEW p \in Nat \ {0}, SetSlot(o, Landed(slot, p)),
             Running => p <= Len(slot.huts), UNCHANGED <<graphVars, useVars>>
      PROVE  GraphHalf' /\ SlotHalf'
  <2>1. SetSlot(o, [Landed(slot, p) EXCEPT !.huts = slot.huts])
    BY <1>3, <1>4, Zenon
  <2> HIDE DEF slot, pos, o
  <2>2. SlotHalf'
    BY <1>1, <1>2, <1>4, <2>1, LandKeepsSlots DEF slot
  <2> QED BY <1>4, <2>2, StutterKeepsGraph
<1>5. CASE OpenAtEnd(o, slot)
  <2> DEFINE p == MaxIndex(Len(slot.huts))
  <2>1. p \in Nat \ {0} /\ (Running => p <= Len(slot.huts))
    BY <1>2 DEF MaxIndex, SlotFull, SlotGood, Slots
  <2> QED BY <1>4, <1>5, <2>1 DEF OpenAtEnd
<1>6. CASE RetreatOver(o, slot, pos)
  <2> DEFINE p == IF pos = 1 \/ slot.huts = <<>> THEN pos ELSE pos - 1
  <2>1. p \in Nat \ {0} /\ (Running => p <= Len(slot.huts))
    BY <1>2
  <2> QED BY <1>4, <1>6, <2>1 DEF RetreatOver
<1>7. CASE RetreatDiscard(o, slot, pos)
  <2> DEFINE huts == RemoveAt(slot.huts, pos)
  <2>1. /\ pos \in DOMAIN slot.huts /\ pos # 1
        /\ Reshape({slot.huts[pos]}, FALSE)
        /\ SetSlot(o, [Landed(slot, pos - 1) EXCEPT !.huts = RemoveAt(@, pos)])
    BY <1>7 DEF RetreatDiscard
  <2>2. GraphHalf'
    BY <2>1, ReshapeKeepsGraph
  <2>3. huts \in Seq(NodeId) /\ Len(huts) = Len(slot.huts) - 1
    BY <2>1, <1>2, RemoveAtFacts
  <2>4. pos - 1 \in Nat \ {0} /\ pos - 1 <= Len(huts)
    BY <2>1, <2>3, <1>2
  <2>5. Landed(slot, pos - 1).huts = slot.huts
    BY <1>2, <2>4, LandedFacts, Zenon
  <2>6. SetSlot(o, [Landed(slot, pos - 1) EXCEPT !.huts = huts])
    BY <2>1, <2>5, Zenon
  <2> HIDE DEF huts
  <2>7. SlotHalf'
    BY <1>1, <2>3, <2>4, <2>6, LandKeepsSlots
  <2> QED BY <2>2, <2>7
<1> QED BY <1>5, <1>6, <1>7 DEF StackPrev

\* Committing a preview keeps a slot good, and its indexes in range.
LEMMA CommittedFacts ==
    ASSUME NEW slot \in Slots, SlotGood(slot)
    PROVE  /\ Committed(slot) \in Slots
           /\ SlotGood(Committed(slot))
           /\ SlotFull(slot) => SlotFull(Committed(slot))
<1>1. CASE slot.preview = 0
  BY <1>1 DEF Committed
<1>2. CASE slot.preview # 0
  <2> DEFINE first == <<slot.huts[slot.preview]>> \o RemoveAt(slot.huts, slot.preview)
             huts  == IF slot.preview \in DOMAIN slot.huts THEN first ELSE slot.huts
  <2>1. slot.huts \in Seq(NodeId) /\ slot.current = 1 /\ StackHold
    BY <1>2 DEF Slots, SlotGood
  <2>2. ASSUME slot.preview \in DOMAIN slot.huts
        PROVE  first \in Seq(NodeId) /\ Len(first) = Len(slot.huts)
    <3>1. slot.huts[slot.preview] \in NodeId /\ Len(slot.huts) \in Nat
      BY <2>1, <2>2
    <3>2. /\ RemoveAt(slot.huts, slot.preview) \in Seq(NodeId)
          /\ Len(RemoveAt(slot.huts, slot.preview)) = Len(slot.huts) - 1
      BY <2>1, <2>2, RemoveAtFacts, Zenon
    <3> QED BY <3>1, <3>2, PrependFacts
  <2>3. huts \in Seq(NodeId) /\ Len(huts) = Len(slot.huts)
    BY <2>1, <2>2
  <2>4. Committed(slot) = [huts |-> huts, current |-> 1, preview |-> 0]
    BY <1>2 DEF Committed
  <2> HIDE DEF huts
  <2> QED BY <2>1, <2>3, <2>4 DEF Slots, SlotGood, SlotFull
<1> QED BY <1>1, <1>2

\* commit_preview, whichever key event runs it.
LEMMA CommitKeepsIInv ==
    ASSUME GraphHalf, SlotHalf, CommitPreview, hold' \in BOOLEAN
    PROVE  GraphHalf' /\ SlotHalf'
<1> DEFINE slot == outputs[focusedOutput]
<1>1. /\ focusedOutput \in DOMAIN outputs /\ slot \in Slots /\ SlotGood(slot)
      /\ (Running => SlotFull(slot))
  BY FocusedSlot DEF SlotHalf, SlotTypes
<1>2. /\ SetSlot(focusedOutput, Committed(slot)) /\ loop' = loop
      /\ MarkTouched(CommittedEntries(slot)) /\ UNCHANGED graphVars
  BY DEF CommitPreview
<1>3. Committed(slot) \in Slots /\ SlotGood(Committed(slot))
      /\ (Running => SlotFull(Committed(slot)))
  BY <1>1, CommittedFacts
<1>4. touched' \subseteq NodeId /\ windowed' \subseteq NodeId
  BY <1>2 DEF MarkTouched, CommittedEntries, GraphHalf, GraphTypes
<1>5. GraphHalf'
  BY <1>2, <1>4, UseKeepsGraph DEF graphVars, GraphHalf, GraphTypes
<1>6. Running' = Running
      /\ loop' \in {"starting", "running", "stopping", "stopped", "panicked"}
  BY <1>2 DEF Running, SlotHalf, SlotTypes
<1> HIDE DEF slot
<1>7. SlotHalf'
  BY <1>1, <1>2, <1>3, <1>6, SetSlotKeepsSlots
<1> QED BY <1>5, <1>7

\* The stack-hold modifier itself, and a commit that comes late.
LEMMA PreviewKeysKeepIInv ==
    ASSUME GraphHalf, SlotHalf, PressHold \/ ReleaseHold \/ LateCommit
    PROVE  GraphHalf' /\ SlotHalf'
<1>1. CASE PressHold
  <2>1. UNCHANGED <<graphVars, useVars, slotVars, loop>> /\ hold' \in BOOLEAN
    BY <1>1 DEF PressHold
  <2>2. GraphHalf'
    BY <2>1, StutterKeepsGraph
  <2>3. SlotHalf'
    BY <2>1 DEF SlotHalf, SlotTypes, SlotInv, slotVars
  <2> QED BY <2>2, <2>3
<1>2. CASE ReleaseHold \/ LateCommit
  <2>1. CommitPreview /\ hold' \in BOOLEAN
    BY <1>2 DEF ReleaseHold, LateCommit, SlotHalf, SlotTypes
  <2> QED BY <2>1, CommitKeepsIInv
<1> QED BY <1>1, <1>2

-----------------------------------------------------------------------------
(* Wrapping, cycling, clicking, drawing.                                   *)

\* A fresh console and a fresh pair around an entry, in the graph's terms: the
\* lists of the nodes that were there keep their lengths.
LEMMA PairKeepsGraph ==
    ASSUME GraphHalf, NEW kd \in Wrappers, NEW leaf \in NodeId,
           nextId + 1 \in NodeId,
           kind' = [kind EXCEPT ![nextId] = "console", ![nextId + 1] = kd],
           active' = [active EXCEPT ![nextId + 1] = 2],
           children' \in [NodeId -> Seq(NodeId)],
           children'[nextId + 1] = <<nextId, leaf>>,
           \A n \in NodeId \ {nextId + 1} : Len(children'[n]) = Len(children[n]),
           keyed' \in [NodeId -> SUBSET NodeId],
           nextId' = nextId + 2,
           touched' \subseteq NodeId, windowed' \subseteq NodeId
    PROVE  GraphHalf'
<1>1. nextId \in NodeId /\ nextId \in Nat \ {0} /\ nextId # nextId + 1
  BY BoundsAssumption DEF NodeId, GraphHalf, GraphTypes
<1>2. GraphTypes'
  <2>1. kind' \in [NodeId -> Kinds]
    BY <1>1 DEF GraphHalf, GraphTypes, Kinds, Wrappers
  <2>2. active' \in [NodeId -> Nat]
    BY <1>1 DEF GraphHalf, GraphTypes
  <2>3. nextId' \in Nat \ {0}
    BY <1>1
  <2> QED BY <2>1, <2>2, <2>3 DEF GraphTypes
<1>3. (\A n \in NodeId : n >= nextId => kind[n] = "none")'
  BY <1>1 DEF GraphHalf, GraphTypes, GraphInv, NodeId
<1>4. WrappersArePairs'
  <2> SUFFICES ASSUME NEW n \in NodeId
               PROVE  IF kind'[n] \in Wrappers
                      THEN Len(children'[n]) = 2 /\ active'[n] \in 1..2
                      ELSE children'[n] = <<>>
    BY DEF WrappersArePairs
  <2>0. children[n] \in Seq(NodeId) /\ children'[n] \in Seq(NodeId)
    BY DEF GraphHalf, GraphTypes
  <2>1. CASE n = nextId + 1
    <3>1. kind'[n] = kd /\ active'[n] = 2 /\ Len(children'[n]) = 2
      BY <2>1, <1>1 DEF GraphHalf, GraphTypes
    <3> QED BY <3>1
  <2>2. CASE n = nextId
    <3>1. kind'[n] = "console" /\ Len(children'[n]) = Len(children[n])
          /\ kind[n] = "none"
      BY <2>2, <1>1 DEF GraphHalf, GraphTypes, GraphInv
    <3>2. children[n] = <<>>
      BY <3>1 DEF GraphHalf, GraphInv, WrappersArePairs, Wrappers
    <3> QED BY <3>1, <3>2, <2>0 DEF Wrappers
  <2>3. CASE n \notin {nextId, nextId + 1}
    <3>1. /\ kind'[n] = kind[n] /\ active'[n] = active[n]
          /\ Len(children'[n]) = Len(children[n])
      BY <2>3, <1>1 DEF GraphHalf, GraphTypes
    <3>2. IF kind[n] \in Wrappers
          THEN Len(children[n]) = 2 /\ active[n] \in 1..2 ELSE children[n] = <<>>
      BY DEF GraphHalf, GraphInv, WrappersArePairs
    <3> QED BY <3>1, <3>2, <2>0
  <2> QED BY <2>1, <2>2, <2>3
<1> QED BY <1>2, <1>3, <1>4 DEF GraphHalf, GraphInv

\* The keys that a swap leaves are node ids.
LEMMA SwapKeyType ==
    ASSUME GraphHalf, NEW n \in NodeId, NEW old, NEW new \in NodeId
    PROVE  SwapKey(n, old, new) \in SUBSET NodeId
  BY DEF SwapKey, GraphHalf, GraphTypes

\* ReplaceAt keeps the length of a list.
LEMMA ReplaceAtFacts ==
    ASSUME NEW S, NEW s \in Seq(S), NEW i \in DOMAIN s, NEW e \in S
    PROVE  /\ ReplaceAt(s, i, e) \in Seq(S)
           /\ Len(ReplaceAt(s, i, e)) = Len(s)
  BY DEF ReplaceAt

\* A slot with another list of the same length is as good as it was.
LEMMA SameLengthKeepsSlot ==
    ASSUME NEW slot \in Slots, SlotGood(slot), NEW huts \in Seq(NodeId),
           Len(huts) = Len(slot.huts)
    PROVE  /\ [slot EXCEPT !.huts = huts] \in Slots
           /\ SlotGood([slot EXCEPT !.huts = huts])
           /\ SlotFull(slot) => SlotFull([slot EXCEPT !.huts = huts])
<1> DEFINE new == [huts |-> huts, current |-> slot.current, preview |-> slot.preview]
<1>1. [slot EXCEPT !.huts = huts] = new
  BY SlotUpdates, Zenon
<1>2. new \in Slots /\ SlotGood(new) /\ (SlotFull(slot) => SlotFull(new))
  BY DEF Slots, SlotGood, SlotFull
<1> HIDE DEF new
<1> QED BY <1>1, <1>2, Zenon

\* wrap: the commit of a preview, then the fresh pair if it could be spawned.
LEMMA WrapKeepsIInv ==
    ASSUME GraphHalf, SlotHalf, NEW kd \in Wrappers, Wrap(kd)
    PROVE  GraphHalf' /\ SlotHalf'
<1> DEFINE o    == focusedOutput
           slot == Committed(outputs[o])
<1>1. o \in DOMAIN outputs /\ UNCHANGED <<hold, loop>>
  BY DEF SlotHalf, SlotTypes, Wrap
<1>2. slot \in Slots /\ SlotGood(slot) /\ (Running => SlotFull(slot))
  BY <1>1, FocusedSlot, CommittedFacts, Zenon
<1>3. touched' \subseteq NodeId /\ windowed' \subseteq NodeId
  BY DEF Wrap, MarkTouched, CommittedEntries, GraphHalf, GraphTypes
<1>4. ASSUME NEW new \in Slots, SlotGood(new), Running => SlotFull(new), SetSlot(o, new)
      PROVE  SlotHalf'
  <2>1. Running' = Running /\ hold' \in BOOLEAN
        /\ loop' \in {"starting", "running", "stopping", "stopped", "panicked"}
    BY <1>1 DEF Running, SlotHalf, SlotTypes
  <2> HIDE DEF o
  <2> QED BY <1>1, <1>4, <2>1, SetSlotKeepsSlots
<1>5. CASE SetSlot(o, slot) /\ UNCHANGED graphVars
  <2>1. GraphHalf'
    BY <1>3, <1>5, UseKeepsGraph DEF graphVars, GraphHalf, GraphTypes
  <2> QED BY <1>2, <1>4, <1>5, <2>1
<1>6. CASE /\ TRUE \in SpawnOutcomes(2)
           /\ WrapLink(o, slot, kd, nextId, nextId + 1) /\ nextId' = nextId + 2
  <2>1. nextId \in NodeId /\ nextId + 1 \in NodeId
    <3>1. TRUE \in SpawnOutcomes(2) /\ nextId \in Nat \ {0}
      BY <1>6 DEF GraphHalf, GraphTypes
    <3>2. nextId + 2 - 1 \in NodeId
      BY <3>1, Zenon DEF SpawnOutcomes
    <3> QED BY <3>1, <3>2, BoundsAssumption DEF NodeId
  <2>2. PICK leaf \in NodeId :
          /\ kind' = [kind EXCEPT ![nextId] = "console", ![nextId + 1] = kd]
          /\ active' = [active EXCEPT ![nextId + 1] = 2]
          /\ \/ /\ children' = [children EXCEPT
                                  ![nextId + 1] = WrapChildren(nextId, leaf)]
                /\ keyed' = [keyed EXCEPT
                     ![nextId + 1] = IF kd = "tile" THEN {nextId, leaf} ELSE {}]
                /\ SetSlot(o, [slot EXCEPT
                     !.huts = ReplaceAt(slot.huts, slot.current, nextId + 1)])
             \/ \E parent \in NodeId :
                /\ children' = [children EXCEPT
                     ![parent] = ReplaceAll(@, leaf, nextId + 1),
                     ![nextId + 1] = WrapChildren(nextId, leaf)]
                /\ keyed' = [keyed EXCEPT
                     ![parent] = SwapKey(parent, leaf, nextId + 1),
                     ![nextId + 1] = IF kd = "tile" THEN {nextId, leaf} ELSE {}]
                /\ SetSlot(o, slot)
    BY <1>6, Zenon DEF WrapLink
  <2>3. WrapChildren(nextId, leaf) = <<nextId, leaf>>
        /\ <<nextId, leaf>> \in Seq(NodeId)
    BY <2>1 DEF WrapChildren
  <2>4. children \in [NodeId -> Seq(NodeId)] /\ keyed \in [NodeId -> SUBSET NodeId]
    BY DEF GraphHalf, GraphTypes
  <2>5. CASE /\ children' = [children EXCEPT ![nextId + 1] = WrapChildren(nextId, leaf)]
             /\ keyed' = [keyed EXCEPT
                  ![nextId + 1] = IF kd = "tile" THEN {nextId, leaf} ELSE {}]
             /\ SetSlot(o, [slot EXCEPT
                  !.huts = ReplaceAt(slot.huts, slot.current, nextId + 1)])
    <3> DEFINE huts == ReplaceAt(slot.huts, slot.current, nextId + 1)
    <3>1. GraphHalf'
      <4>1. /\ children' \in [NodeId -> Seq(NodeId)]
            /\ children'[nextId + 1] = <<nextId, leaf>>
            /\ \A n \in NodeId \ {nextId + 1} : Len(children'[n]) = Len(children[n])
        BY <2>1, <2>3, <2>4, <2>5
      <4>2. keyed' \in [NodeId -> SUBSET NodeId]
        BY <2>1, <2>4, <2>5
      <4> QED BY <1>3, <1>6, <2>1, <2>2, <4>1, <4>2, PairKeepsGraph
    <3>2. slot.current \in DOMAIN slot.huts /\ slot.huts \in Seq(NodeId)
      BY <1>2 DEF Wrap, Slots
    <3>3. huts \in Seq(NodeId) /\ Len(huts) = Len(slot.huts)
      BY <2>1, <3>2, ReplaceAtFacts
    <3> HIDE DEF slot, o, huts
    <3>4. /\ [slot EXCEPT !.huts = huts] \in Slots
          /\ SlotGood([slot EXCEPT !.huts = huts])
          /\ Running => SlotFull([slot EXCEPT !.huts = huts])
      BY <1>2, <3>3, SameLengthKeepsSlot, Zenon
    <3>5. SlotHalf'
      BY <1>4, <2>5, <3>4, Zenon DEF huts
    <3> QED BY <3>1, <3>5
  <2>6. ASSUME NEW parent \in NodeId,
               children' = [children EXCEPT
                 ![parent] = ReplaceAll(@, leaf, nextId + 1),
                 ![nextId + 1] = WrapChildren(nextId, leaf)],
               keyed' = [keyed EXCEPT
                 ![parent] = SwapKey(parent, leaf, nextId + 1),
                 ![nextId + 1] = IF kd = "tile" THEN {nextId, leaf} ELSE {}],
               SetSlot(o, slot)
        PROVE  GraphHalf' /\ SlotHalf'
    <3>1. /\ ReplaceAll(children[parent], leaf, nextId + 1) \in Seq(NodeId)
          /\ Len(ReplaceAll(children[parent], leaf, nextId + 1)) = Len(children[parent])
      BY <2>1, <2>4, ReplaceAllFacts
    <3>2. /\ children' \in [NodeId -> Seq(NodeId)]
          /\ children'[nextId + 1] = <<nextId, leaf>>
          /\ \A n \in NodeId \ {nextId + 1} : Len(children'[n]) = Len(children[n])
      BY <2>1, <2>3, <2>4, <2>6, <3>1
    <3>3. SwapKey(parent, leaf, nextId + 1) \in SUBSET NodeId
      BY <2>1, SwapKeyType
    <3>4. keyed' \in [NodeId -> SUBSET NodeId]
      BY <2>1, <2>4, <2>6, <3>3
    <3>5. GraphHalf'
      BY <1>3, <1>6, <2>1, <2>2, <3>2, <3>4, PairKeepsGraph
    <3> HIDE DEF slot, o
    <3> QED BY <1>2, <1>4, <2>6, <3>5
  <2> QED BY <2>2, <2>5, <2>6
<1>7. \/ SetSlot(o, slot) /\ UNCHANGED graphVars
      \/ /\ TRUE \in SpawnOutcomes(2)
         /\ WrapLink(o, slot, kd, nextId, nextId + 1) /\ nextId' = nextId + 2
  <2>1. PICK ok \in SpawnOutcomes(2) :
          IF ok
          THEN WrapLink(o, slot, kd, nextId, nextId + 1) /\ nextId' = nextId + 2
          ELSE SetSlot(o, slot) /\ UNCHANGED graphVars
    BY Zenon DEF Wrap
  <2>2. ok \in BOOLEAN
    BY DEF SpawnOutcomes
  <2>3. CASE ok = TRUE
    BY <2>1, <2>3, Zenon
  <2>4. CASE ok = FALSE
    BY <2>1, <2>4, Zenon
  <2> QED BY <2>2, <2>3, <2>4
<1> QED BY <1>5, <1>6, <1>7

\* Moving the innermost wrapper's focus lands on one of its children.
LEMMA CycleKeepsIInv ==
    ASSUME GraphHalf, SlotHalf, NEW dir \in {"next", "prev"}, CycleInnermost(dir)
    PROVE  GraphHalf' /\ SlotHalf'
<1>1. PICK n : /\ Len(children[n]) >= 2
               /\ active' = [active EXCEPT ![n] = WrappingStep(Len(children[n]), @, dir)]
  BY Zenon DEF CycleInnermost
<1>2. /\ UNCHANGED <<kind, children, keyed, nextId, useVars>>
      /\ UNCHANGED <<slotVars, hold>> /\ loop' = loop
  BY DEF CycleInnermost
<1>3. GraphHalf'
  <2>1. CASE n \in NodeId
    <3>1. kind[n] \in Wrappers => Len(children[n]) = 2 /\ active[n] \in 1..2
      BY <2>1 DEF GraphHalf, GraphInv, WrappersArePairs
    <3>2. kind[n] \notin Wrappers => children[n] = <<>>
      BY <2>1 DEF GraphHalf, GraphInv, WrappersArePairs
    <3>3. Len(children[n]) = 2 /\ active[n] \in 1..2
      BY <1>1, <3>1, <3>2
    <3>4. children[n] \in Seq(NodeId) /\ DOMAIN children[n] = 1..2
      BY <2>1, <3>3 DEF GraphHalf, GraphTypes
    <3> DEFINE i == WrappingStep(Len(children[n]), active[n], dir)
    <3>5. i \in 1..2 /\ i \in Nat
      BY <3>3 DEF WrappingStep
    <3>6. active' = [active EXCEPT ![n] = i]
      BY <1>1
    <3> HIDE DEF i
    <3> QED BY <1>2, <3>4, <3>5, <3>6, MoveActiveKeepsGraph
  <2>2. CASE n \notin NodeId
    <3>1. active' = active
      BY <1>1, <2>2 DEF GraphHalf, GraphTypes
    <3> QED BY <1>2, <3>1, StutterKeepsGraph DEF graphVars
  <2> QED BY <2>1, <2>2
<1>4. SlotHalf'
  BY <1>2, StutterKeepsSlots DEF SlotHalf, SlotTypes, Running
<1> QED BY <1>3, <1>4

\* A click moves the focus of one wrapper to the child clicked on.
LEMMA ClickChromeKeepsIInv ==
    ASSUME GraphHalf, SlotHalf, ClickChrome
    PROVE  GraphHalf' /\ SlotHalf'
<1>1. PICK n : \E i \in DOMAIN children[n] : active' = [active EXCEPT ![n] = i]
  BY Zenon DEF ClickChrome
<1>2. PICK i \in DOMAIN children[n] : active' = [active EXCEPT ![n] = i]
  BY <1>1
<1>3. /\ UNCHANGED <<kind, children, keyed, nextId, useVars>>
      /\ UNCHANGED <<slotVars, hold>> /\ loop' = loop
  BY DEF ClickChrome
<1>4. GraphHalf'
  <2>1. CASE n \in NodeId
    <3>1. i \in Nat
      BY <1>2, <2>1 DEF GraphHalf, GraphTypes
    <3> QED BY <1>2, <1>3, <3>1, MoveActiveKeepsGraph
  <2>2. CASE n \notin NodeId
    <3>1. active' = active
      BY <1>2, <2>2 DEF GraphHalf, GraphTypes
    <3> QED BY <1>3, <3>1, StutterKeepsGraph DEF graphVars
  <2> QED BY <2>1, <2>2
<1>5. SlotHalf'
  BY <1>3, StutterKeepsSlots DEF SlotHalf, SlotTypes, Running
<1> QED BY <1>4, <1>5

\* Drawing tab strips only adds child_chrome entries.
LEMMA RenderKeepsIInv ==
    ASSUME GraphHalf, SlotHalf, NEW o, RenderTabStrips(o)
    PROVE  GraphHalf' /\ SlotHalf'
<1>1. PICK drawn : keyed' = [n \in NodeId |-> IF n \in drawn
                        THEN keyed[n] \cup ToSet(children[n]) ELSE keyed[n]]
  BY Zenon DEF RenderTabStrips
<1>2. /\ UNCHANGED <<kind, children, active, nextId>> /\ UNCHANGED useVars
      /\ UNCHANGED <<slotVars, hold>> /\ loop' = loop
  BY DEF RenderTabStrips
<1>3. \A n \in NodeId : ToSet(children[n]) \subseteq NodeId
  <2> SUFFICES ASSUME NEW n \in NodeId PROVE ToSet(children[n]) \subseteq NodeId
    OBVIOUS
  <2>1. children[n] \in Seq(NodeId)
    BY DEF GraphHalf, GraphTypes
  <2> QED BY <2>1 DEF ToSet
<1>4. keyed' \in [NodeId -> SUBSET NodeId]
  BY <1>1, <1>3 DEF GraphHalf, GraphTypes
<1>5. GraphHalf'
  BY <1>2, <1>4, UseKeepsGraph DEF useVars, GraphHalf, GraphTypes
<1>6. SlotHalf'
  BY <1>2, StutterKeepsSlots DEF SlotHalf, SlotTypes, Running
<1> QED BY <1>5, <1>6

\* Typing into a console, and its windows coming and going.
LEMMA UseKeepsIInv ==
    ASSUME GraphHalf, SlotHalf,
           Type \/ (\E n \in AllHuts : MapWindow(n) \/ UnmapWindows(n))
    PROVE  GraphHalf' /\ SlotHalf'
<1>1. /\ UNCHANGED graphVars /\ UNCHANGED <<slotVars, hold>> /\ loop' = loop
      /\ touched' \subseteq NodeId /\ windowed' \subseteq NodeId
  BY DEF AllHuts, Type, MarkTouched, MapWindow, UnmapWindows, GraphHalf, GraphTypes
<1>2. GraphHalf'
  BY <1>1, UseKeepsGraph DEF graphVars, GraphHalf, GraphTypes
<1>3. SlotHalf'
  BY <1>1, StutterKeepsSlots DEF SlotHalf, SlotTypes, Running
<1> QED BY <1>2, <1>3

-----------------------------------------------------------------------------
(* A shell exits.                                                          *)

\* A shift and a clamp together.
LEMMA MovedFacts ==
    ASSUME NEW x \in Nat \ {0}, NEW removed \in Nat \ {0}, NEW len \in Nat,
           NEW newLen \in Nat
    PROVE  LET moved == ClampIndex(ShiftOnRemoval(x, removed, len), newLen) IN
           /\ moved \in Nat \ {0}
           /\ x = 1 => moved = 1
           /\ newLen >= 1 => moved <= newLen
<1> DEFINE y == ShiftOnRemoval(x, removed, len)
<1>1. y \in Nat \ {0} /\ (x = 1 => y = 1)
  <2>1. x \in Nat /\ x >= 1
    OBVIOUS
  <2>2. y \in Nat /\ (x >= 1 => y >= 1) /\ (x <= 1 => y = x)
    BY <2>1, ShiftFacts, Zenon
  <2> HIDE DEF y
  <2> QED BY <2>1, <2>2
<1> HIDE DEF y
<1>2. /\ ClampIndex(y, newLen) \in Nat \ {0}
      /\ y = 1 => ClampIndex(y, newLen) = 1
      /\ newLen >= 1 => ClampIndex(y, newLen) <= newLen
  BY <1>1, ClampFacts
<1> QED BY <1>1, <1>2 DEF y

\* The slot a removal leaves is good, and within its list unless that is empty.
LEMMA SlotWithoutFacts ==
    ASSUME NEW slot \in Slots, SlotGood(slot), NEW i \in DOMAIN slot.huts,
           NEW ok \in BOOLEAN, ok => nextId \in NodeId
    PROVE  /\ SlotWithout(slot, i, ok) \in Slots
           /\ SlotGood(SlotWithout(slot, i, ok))
           /\ ok \/ Len(slot.huts) # 1 => SlotFull(SlotWithout(slot, i, ok))
<1> DEFINE left == RemoveAt(slot.huts, i)
           len  == Len(left)
           huts == Appended(left, ok)
           moved(x) == ClampIndex(ShiftOnRemoval(x, i, len), Len(huts))
           new  == SlotWithout(slot, i, ok)
<1>1. slot.huts \in Seq(NodeId) /\ slot.current \in Nat /\ slot.preview \in Nat
  BY DEF Slots
<1>2. left \in Seq(NodeId) /\ len = Len(slot.huts) - 1 /\ len \in Nat /\ i \in Nat \ {0}
  BY <1>1, RemoveAtFacts
<1>3. huts \in Seq(NodeId) /\ Len(huts) = IF ok THEN len + 1 ELSE len
  <2> HIDE DEF left
  <2>1. CASE ok
    BY <1>2, <2>1 DEF Appended
  <2>2. CASE ~ok
    BY <1>2, <2>2 DEF Appended
  <2> QED BY <2>1, <2>2
<1>4. Len(huts) \in Nat /\ (ok \/ Len(slot.huts) # 1 => Len(huts) >= 1)
  <2> HIDE DEF left, huts, len
  <2>1. Len(slot.huts) \in Nat /\ Len(slot.huts) >= 1
    BY <1>1
  <2>2. CASE ok
    BY <1>2, <1>3, <2>2
  <2>3. CASE ~ok
    <3>1. Len(huts) = Len(slot.huts) - 1 /\ Len(huts) \in Nat
      BY <1>2, <1>3, <2>3
    <3>2. Len(slot.huts) # 1 => Len(huts) >= 1
      <4>1. \A a, b \in Nat : a >= 1 /\ b = a - 1 /\ a # 1 => b >= 1
        OBVIOUS
      <4> QED BY <2>1, <3>1, <4>1, Zenon
    <3> QED BY <2>3, <3>1, <3>2, Zenon
  <2> QED BY <2>2, <2>3
<1>5. \A x \in Nat \ {0} : /\ moved(x) \in Nat \ {0}
                           /\ x = 1 => moved(x) = 1
                           /\ Len(huts) >= 1 => moved(x) <= Len(huts)
  <2> HIDE DEF left, huts, len
  <2> QED BY <1>2, <1>4, MovedFacts
<1>6. new = [huts    |-> huts,
             current |-> moved(slot.current),
             preview |-> IF slot.preview = 0 THEN 0 ELSE moved(slot.preview)]
  BY DEF SlotWithout
<1>7. slot.current \in Nat \ {0}
  BY <1>1 DEF SlotGood
<1> DEFINE cur == moved(slot.current)
           pre == IF slot.preview = 0 THEN 0 ELSE moved(slot.preview)
<1>8. /\ cur \in Nat \ {0} /\ pre \in Nat
      /\ slot.current = 1 => cur = 1
      /\ slot.preview = 0 => pre = 0
      /\ Len(huts) >= 1 => cur <= Len(huts) /\ pre <= Len(huts)
  <2> HIDE DEF huts, moved
  <2> QED BY <1>1, <1>4, <1>5, <1>7
<1>9. /\ new \in Slots /\ SlotGood(new)
      /\ Len(huts) >= 1 => SlotFull(new)
  <2> HIDE DEF huts, cur, pre
  <2>1. new = [huts |-> huts, current |-> cur, preview |-> pre]
    BY <1>6 DEF cur, pre
  <2> HIDE DEF new
  <2> QED BY <1>3, <1>8, <2>1 DEF Slots, SlotGood, SlotFull
<1> HIDE DEF huts
<1> QED BY <1>4, <1>9

\* A top-level entry leaves, and possibly a fresh console takes its place.
LEMMA ExitTopLevelKeepsIInv ==
    ASSUME GraphHalf, SlotHalf, NEW n, ExitTopLevel(n)
    PROVE  GraphHalf' /\ SlotHalf'
<1>1. PICK o \in DOMAIN outputs : \E i \in DOMAIN outputs[o].huts : ExitEntry(o, i, n)
  BY DEF ExitTopLevel
<1>2. PICK i \in DOMAIN outputs[o].huts : ExitEntry(o, i, n)
  BY <1>1
<1> DEFINE emptied == Len(outputs[o].huts) = 1
<1>3. PICK ok \in IF emptied THEN SpawnOutcomes(1) ELSE {FALSE} :
        /\ Reshape({n}, ok)
        /\ SetSlot(o, SlotWithout(outputs[o], i, ok))
        /\ loop' = IF emptied /\ ~ok THEN "stopping" ELSE loop
  BY <1>2 DEF ExitEntry
<1>4. ok \in BOOLEAN /\ (ok => nextId \in NodeId /\ ok \in SpawnOutcomes(1))
  <2>1. ok \in SpawnOutcomes(1) \/ ok = FALSE
    OBVIOUS
  <2>2. ok \in BOOLEAN /\ (ok => ok \in SpawnOutcomes(1))
    BY <2>1 DEF SpawnOutcomes
  <2> QED BY <2>2, SpawnedId DEF GraphHalf
<1>5. GraphHalf'
  BY <1>3, <1>4, ReshapeKeepsGraph
<1> DEFINE new == SlotWithout(outputs[o], i, ok)
<1>6. /\ new \in Slots /\ SlotGood(new)
      /\ ok \/ ~emptied => SlotFull(new)
  BY <1>4, FocusedSlot, SlotWithoutFacts
<1>7. SetSlot(o, new) /\ hold' \in BOOLEAN
  BY <1>3 DEF ExitTopLevel, SlotHalf, SlotTypes
<1>8. /\ loop' \in {"starting", "running", "stopping", "stopped", "panicked"}
      /\ Running' => Running /\ (ok \/ ~emptied)
  BY <1>3, <1>4 DEF Running, SlotHalf, SlotTypes
<1> HIDE DEF new
<1>9. SlotHalf'
  BY <1>6, <1>7, <1>8, SetSlotKeepsSlots
<1> QED BY <1>5, <1>9

\* A function over the domain of a sequence is a sequence.
LEMMA SeqOverDomain ==
    ASSUME NEW S, NEW T, NEW s \in Seq(S), NEW f \in [DOMAIN s -> T]
    PROVE  f \in Seq(T) /\ DOMAIN f = DOMAIN s
  OBVIOUS

\* A nested hut leaves: its parent, a pair, gives way to the other child.
LEMMA UnlinkKeepsGraph ==
    ASSUME GraphHalf, NEW n \in NodeId, kind[n] = "console",
           NEW parent \in NodeId, NEW i \in DOMAIN children[parent],
           Unlink(n, parent, RemoveAt(children[parent], i)),
           touched' = touched \ {n}, windowed' = windowed \ {n}, nextId' = nextId
    PROVE  /\ GraphHalf'
           /\ Collapses(RemoveAt(children[parent], i))
           /\ RemoveAt(children[parent], i)[1] \in NodeId
<1> DEFINE left == RemoveAt(children[parent], i)
           rest == left[1]
<1>1. kind[parent] \in Wrappers /\ Len(children[parent]) = 2
  <2>1. children[parent] # <<>>
    BY DEF GraphHalf, GraphTypes
  <2> QED BY <2>1 DEF GraphHalf, GraphInv, WrappersArePairs
<1>2. left \in Seq(NodeId) /\ Len(left) = 1
  <2>1. children[parent] \in Seq(NodeId)
    BY DEF GraphHalf, GraphTypes
  <2>2. left \in Seq(NodeId) /\ Len(left) = Len(children[parent]) - 1
    BY <2>1, RemoveAtFacts, Zenon
  <2> HIDE DEF left
  <2> QED BY <1>1, <2>2
<1>3. Collapses(left) /\ rest \in NodeId
  <2> HIDE DEF left
  <2>1. left[1] \in NodeId
    BY <1>2
  <2> QED BY <1>2, <2>1 DEF Collapses
<1> HIDE DEF left, rest
<1>4. /\ kind' = [kind EXCEPT ![n] = "none", ![parent] = "none"]
      /\ active' = [active EXCEPT ![parent] = 1]
      /\ children' = [m \in NodeId |-> IF m = parent THEN <<>>
                        ELSE ReplaceAll(children[m], parent, rest)]
      /\ keyed' = [m \in NodeId |-> IF m = parent THEN {}
                     ELSE SwapKey(m, parent, rest)]
  BY <1>3, Zenon DEF Unlink, left, rest
<1>5. \A m \in NodeId : /\ ReplaceAll(children[m], parent, rest) \in Seq(NodeId)
                        /\ Len(ReplaceAll(children[m], parent, rest)) = Len(children[m])
  <2> TAKE m \in NodeId
  <2>1. children[m] \in Seq(NodeId)
    BY DEF GraphHalf, GraphTypes
  <2> QED BY <1>3, <2>1, ReplaceAllFacts
<1>6. GraphTypes'
  <2>1. kind' \in [NodeId -> Kinds]
    BY <1>4 DEF GraphHalf, GraphTypes, Kinds
  <2>2. children' \in [NodeId -> Seq(NodeId)]
    BY <1>4, <1>5
  <2>3. active' \in [NodeId -> Nat]
    BY <1>4 DEF GraphHalf, GraphTypes
  <2>4. keyed' \in [NodeId -> SUBSET NodeId]
    <3>1. \A m \in NodeId : SwapKey(m, parent, rest) \in SUBSET NodeId
      BY <1>3, SwapKeyType
    <3> QED BY <1>4, <3>1
  <2>5. touched' \subseteq NodeId /\ windowed' \subseteq NodeId /\ nextId' \in Nat \ {0}
    BY DEF GraphHalf, GraphTypes
  <2> QED BY <2>1, <2>2, <2>3, <2>4, <2>5 DEF GraphTypes
<1>7. (\A m \in NodeId : m >= nextId => kind[m] = "none")'
  BY <1>4 DEF GraphHalf, GraphTypes, GraphInv
<1>8. WrappersArePairs'
  <2> SUFFICES ASSUME NEW m \in NodeId
               PROVE  IF kind'[m] \in Wrappers
                      THEN Len(children'[m]) = 2 /\ active'[m] \in 1..2
                      ELSE children'[m] = <<>>
    BY DEF WrappersArePairs
  <2>0. children[m] \in Seq(NodeId) /\ children'[m] \in Seq(NodeId)
    BY <1>6 DEF GraphHalf, GraphTypes
  <2>1. CASE m = parent
    <3>1. kind'[m] = "none" /\ children'[m] = <<>>
      BY <1>4, <2>1 DEF GraphHalf, GraphTypes
    <3> QED BY <3>1 DEF Wrappers
  <2>2. CASE m # parent
    <3>1. Len(children'[m]) = Len(children[m])
      BY <1>4, <1>5, <2>2
    <3>2. active'[m] = active[m] /\ kind'[m] = IF m = n THEN "none" ELSE kind[m]
      BY <1>4, <2>2 DEF GraphHalf, GraphTypes
    <3>3. IF kind[m] \in Wrappers
          THEN Len(children[m]) = 2 /\ active[m] \in 1..2 ELSE children[m] = <<>>
      BY DEF GraphHalf, GraphInv, WrappersArePairs
    <3> QED BY <2>0, <3>1, <3>2, <3>3 DEF Wrappers
  <2> QED BY <2>1, <2>2
<1> QED BY <1>3, <1>6, <1>7, <1>8 DEF GraphHalf, GraphInv, rest, left

\* Both outputs' lists and indexes follow: a replaced entry keeps a list's
\* length, and the indexes of the hut's own output are clamped to it.
LEMMA ExitNestedKeepsIInv ==
    ASSUME GraphHalf, SlotHalf, NEW n \in NodeId, kind[n] = "console", ExitNested(n)
    PROVE  GraphHalf' /\ SlotHalf'
<1>1. /\ touched' = touched \ {n} /\ windowed' = windowed \ {n} /\ nextId' = nextId
      /\ focusedOutput' = focusedOutput /\ hold' = hold /\ loop' = loop
  BY DEF ExitNested
<1>2. PICK parent \in NodeId : \E i \in DOMAIN children[parent] :
        \E o \in DOMAIN outputs : ExitChild(parent, i, n, o)
  BY Zenon DEF ExitNested
<1>3. PICK i \in DOMAIN children[parent] : \E o \in DOMAIN outputs : ExitChild(parent, i, n, o)
  BY <1>2
<1>4. PICK at \in DOMAIN outputs : ExitChild(parent, i, n, at)
  BY <1>3
<1> DEFINE left    == RemoveAt(children[parent], i)
           huts(o) == ReplaceAll(outputs[o].huts, parent, left[1])
           clamp(x) == ClampIndex(x, Len(outputs[at].huts))
           new(o)  == IF o = at
                      THEN [huts |-> huts(o), current |-> clamp(outputs[o].current),
                            preview |-> IF outputs[o].preview = 0 THEN 0
                                        ELSE clamp(outputs[o].preview)]
                      ELSE [outputs[o] EXCEPT !.huts = huts(o)]
<1>5. Unlink(n, parent, left)
  BY <1>4, Zenon DEF ExitChild
<1>6. GraphHalf' /\ Collapses(left) /\ left[1] \in NodeId
  BY <1>1, <1>5, UnlinkKeepsGraph
<1>7. outputs' = [o \in DOMAIN outputs |-> new(o)]
  BY <1>4, <1>6, Zenon DEF ExitChild
<1>8. ASSUME NEW o \in DOMAIN outputs
      PROVE  new(o) \in Slots /\ SlotGood(new(o)) /\ (Running => SlotFull(new(o)))
  <2>1. /\ outputs[o] \in Slots /\ outputs[o].huts \in Seq(NodeId)
        /\ SlotGood(outputs[o]) /\ (Running => SlotFull(outputs[o]))
    BY FocusedSlot
  <2>2. outputs[o].current \in Nat /\ outputs[o].preview \in Nat
    BY <2>1 DEF Slots
  <2>3. huts(o) \in Seq(NodeId) /\ Len(huts(o)) = Len(outputs[o].huts)
    BY <1>6, <2>1, ReplaceAllFacts
  <2> HIDE DEF huts, left
  <2>4. CASE o = at
    <3> DEFINE cur == clamp(outputs[o].current)
               pre == IF outputs[o].preview = 0 THEN 0 ELSE clamp(outputs[o].preview)
    <3>0. Len(outputs[at].huts) \in Nat /\ Len(huts(o)) = Len(outputs[at].huts)
      BY <2>1, <2>3, <2>4
    <3>1. /\ cur \in Nat /\ cur >= 1
          /\ outputs[o].current = 1 => cur = 1
          /\ Len(huts(o)) >= 1 => cur <= Len(huts(o))
      BY <2>1, <2>2, <3>0, ClampFacts DEF SlotGood
    <3>2. /\ pre \in Nat
          /\ outputs[o].preview = 0 => pre = 0
          /\ Len(huts(o)) >= 1 => pre <= Len(huts(o))
      <4>1. CASE outputs[o].preview = 0
        BY <2>2, <3>0, <4>1
      <4>2. CASE outputs[o].preview # 0
        BY <2>2, <3>0, <4>2, ClampFacts
      <4> QED BY <4>1, <4>2
    <3>3. Running => Len(huts(o)) >= 1
      BY <2>1, <2>2, <2>3 DEF SlotFull, SlotGood
    <3>4. new(o) = [huts |-> huts(o), current |-> cur, preview |-> pre]
      BY <2>4
    <3> HIDE DEF new, cur, pre
    <3> QED BY <2>1, <2>3, <3>1, <3>2, <3>3, <3>4 DEF Slots, SlotGood, SlotFull
  <2>5. CASE o # at
    <3>1. new(o) = [outputs[o] EXCEPT !.huts = huts(o)]
      BY <2>5
    <3> DEFINE kept == [outputs[o] EXCEPT !.huts = huts(o)]
    <3>2. kept \in Slots /\ SlotGood(kept) /\ (SlotFull(outputs[o]) => SlotFull(kept))
      BY <2>1, <2>3, SameLengthKeepsSlot
    <3> HIDE DEF new, kept
    <3>3. new(o) = kept
      BY <3>1 DEF kept
    <3> QED BY <2>1, <3>2, <3>3
  <2> QED BY <2>4, <2>5
<1> HIDE DEF new
<1>9. outputs' \in Seq(Slots) /\ DOMAIN outputs' = DOMAIN outputs
  <2>1. outputs' \in [DOMAIN outputs -> Slots] /\ outputs \in Seq(Slots)
    BY <1>7, <1>8 DEF SlotHalf, SlotTypes
  <2> QED BY <2>1, SeqOverDomain
<1>10. SlotTypes'
  BY <1>1, <1>9 DEF SlotHalf, SlotTypes
<1>11. SlotInv'
  <2> SUFFICES ASSUME NEW o \in DOMAIN outputs'
               PROVE  /\ SlotGood(outputs'[o])
                      /\ loop' \in {"starting", "running"} => SlotFull(outputs'[o])
    BY DEF SlotInv
  <2>1. o \in DOMAIN outputs /\ outputs'[o] = new(o)
    BY <1>7, <1>9
  <2> QED BY <1>1, <1>8, <2>1 DEF Running
<1> QED BY <1>6, <1>10, <1>11 DEF SlotHalf

\* handle_term_event on a hut of the graph.
LEMMA ExitedKeepsIInv ==
    ASSUME GraphHalf, SlotHalf, NEW n \in AllHuts, Exited(n)
    PROVE  GraphHalf' /\ SlotHalf'
<1>1. n \in NodeId /\ kind[n] = "console"
  BY DEF AllHuts
<1>2. CASE LogOut
  <2>1. UNCHANGED <<graphVars, useVars>> /\ UNCHANGED <<slotVars, hold>> /\ loop' = "stopped"
    BY <1>2 DEF LogOut
  <2>2. SlotHalf'
    BY <2>1, StutterKeepsSlots DEF Running
  <2> QED BY <2>1, <2>2, StutterKeepsGraph
<1>3. LogOut \/ ExitTopLevel(n) \/ ExitNested(n)
  BY DEF Exited
<1> QED BY <1>1, <1>2, <1>3, ExitTopLevelKeepsIInv, ExitNestedKeepsIInv

-----------------------------------------------------------------------------
(* Outputs, and the invariant as a whole.                                  *)

\* A new output starts with one fresh console.
LEMMA AddOutputKeepsIInv ==
    ASSUME GraphHalf, SlotHalf, AddOutput
    PROVE  GraphHalf' /\ SlotHalf'
<1>1. nextId \in NodeId
  BY SpawnedId DEF AddOutput, GraphHalf
<1>2. GraphHalf'
  BY ReshapeKeepsGraph DEF AddOutput
<1> DEFINE new == NewSlot(nextId)
<1>3. new \in Slots /\ SlotGood(new) /\ SlotFull(new)
  <2>1. new = [huts |-> <<nextId>>, current |-> 1, preview |-> 0]
        /\ <<nextId>> \in Seq(NodeId) /\ Len(<<nextId>>) = 1
    BY <1>1 DEF NewSlot
  <2> HIDE DEF new
  <2>2. new.current = 1 /\ new.preview = 0 /\ new.huts = <<nextId>> /\ new \in Slots
    BY <2>1 DEF Slots
  <2> QED BY <2>1, <2>2 DEF SlotGood, SlotFull
<1> HIDE DEF new
<1>4. outputs' = Append(outputs, new) /\ UNCHANGED <<focusedOutput, hold, loop>>
  BY DEF AddOutput, new
<1>5. SlotTypes'
  BY <1>3, <1>4 DEF SlotHalf, SlotTypes
<1>6. SlotInv'
  BY <1>3, <1>4 DEF SlotHalf, SlotTypes, SlotInv
<1> QED BY <1>2, <1>5, <1>6 DEF SlotHalf

\* The other outputs move up, and the focus with them.
LEMMA RemoveOutputKeepsIInv ==
    ASSUME GraphHalf, SlotHalf, NEW o, RemoveOutput(o)
    PROVE  GraphHalf' /\ SlotHalf'
<1>1. /\ o \in DOMAIN outputs /\ Len(outputs) > 1
      /\ Reshape(UnderOutput(o), FALSE)
      /\ outputs' = RemoveAt(outputs, o)
      /\ focusedOutput' = FocusAfterRemoval(o)
      /\ UNCHANGED <<hold, loop>>
  BY DEF RemoveOutput
<1>2. GraphHalf'
  BY <1>1, ReshapeKeepsGraph
<1>3. /\ outputs \in Seq(Slots) /\ focusedOutput \in 1..Len(outputs) /\ o \in 1..Len(outputs)
      /\ Len(outputs) \in Nat
  BY <1>1 DEF SlotHalf, SlotTypes
<1>4. /\ outputs' \in Seq(Slots) /\ Len(outputs') = Len(outputs) - 1
      /\ \A j \in 1..(Len(outputs) - 1) :
           outputs'[j] = IF j < o THEN outputs[j] ELSE outputs[j + 1]
  BY <1>1, <1>3, RemoveAtFacts
<1>5. DOMAIN outputs' = 1..(Len(outputs) - 1)
  BY <1>4
<1>6. focusedOutput' \in DOMAIN outputs'
  BY <1>1, <1>3, <1>5 DEF FocusAfterRemoval
<1>7. SlotTypes'
  BY <1>1, <1>4, <1>6 DEF SlotHalf, SlotTypes
<1>8. SlotInv'
  <2> SUFFICES ASSUME NEW j \in DOMAIN outputs'
               PROVE  /\ SlotGood(outputs'[j])
                      /\ loop' \in {"starting", "running"} => SlotFull(outputs'[j])
    BY DEF SlotInv
  <2>1. j \in 1..(Len(outputs) - 1)
    BY <1>5
  <2>2. PICK k \in DOMAIN outputs : outputs'[j] = outputs[k]
    <3>1. j \in DOMAIN outputs /\ j + 1 \in DOMAIN outputs
      BY <1>3, <2>1
    <3>2. outputs'[j] = outputs[j] \/ outputs'[j] = outputs[j + 1]
      BY <1>4, <2>1
    <3> QED BY <3>1, <3>2
  <2>3. SlotGood(outputs[k]) /\ (Running => SlotFull(outputs[k]))
    BY DEF SlotHalf, SlotInv, Running
  <2> QED BY <1>1, <2>2, <2>3 DEF Running
<1> QED BY <1>2, <1>7, <1>8 DEF SlotHalf

\* The pointer only moves the focus.
LEMMA SetFocusedOutputKeepsIInv ==
    ASSUME GraphHalf, SlotHalf, NEW o, SetFocusedOutput(o)
    PROVE  GraphHalf' /\ SlotHalf'
<1>1. /\ UNCHANGED <<graphVars, useVars>> /\ UNCHANGED <<outputs, hold, loop>>
      /\ focusedOutput' = o /\ o \in DOMAIN outputs
  BY DEF SetFocusedOutput
<1>2. SlotHalf'
  BY <1>1 DEF SlotHalf, SlotTypes, SlotInv
<1> QED BY <1>1, <1>2, StutterKeepsGraph

\* Steps of the loop itself, and the key events that change nothing here.
LEMMA LoopKeepsIInv ==
    ASSUME GraphHalf, SlotHalf, RunLoop \/ Panic \/ EndBatch \/ UNCHANGED vars
    PROVE  GraphHalf' /\ SlotHalf'
<1>1. /\ UNCHANGED <<graphVars, useVars>> /\ UNCHANGED <<slotVars, hold>>
      /\ loop' \in {"starting", "running", "stopping", "stopped", "panicked"}
      /\ Running' => Running
  BY DEF RunLoop, Panic, EndBatch, vars, Running, SlotHalf, SlotTypes
<1> QED BY <1>1, StutterKeepsGraph, StutterKeepsSlots

\* IInv is kept by every handler, whatever the bounds and the configuration.
THEOREM StepIInv == IInv /\ [Next]_vars => IInv'
<1> SUFFICES ASSUME IInv, [Next]_vars PROVE IInv'
  OBVIOUS
<1>1. GraphHalf /\ SlotHalf
  BY Halves
<1>2. CASE SpawnWithCommand
  BY <1>1, <1>2, SpawnWithCommandKeepsIInv, HalvesNext
<1>3. CASE RunLoop \/ Panic \/ EndBatch \/ UNCHANGED vars
  BY <1>1, <1>3, LoopKeepsIInv, HalvesNext
<1>4. CASE StackNext
  BY <1>1, <1>4, StackNextKeepsIInv, HalvesNext
<1>5. CASE StackPrev
  BY <1>1, <1>5, StackPrevKeepsIInv, HalvesNext
<1>6. CASE PressHold \/ ReleaseHold \/ LateCommit
  BY <1>1, <1>6, PreviewKeysKeepIInv, HalvesNext
<1>7. ASSUME NEW kd \in Wrappers, Wrap(kd) PROVE IInv'
  BY <1>1, <1>7, WrapKeepsIInv, HalvesNext
<1>8. ASSUME NEW dir \in {"next", "prev"}, CycleInnermost(dir) PROVE IInv'
  BY <1>1, <1>8, CycleKeepsIInv, HalvesNext
<1>9. CASE ClickChrome
  BY <1>1, <1>9, ClickChromeKeepsIInv, HalvesNext
<1>10. CASE Type \/ (\E n \in AllHuts : MapWindow(n) \/ UnmapWindows(n))
  BY <1>1, <1>10, UseKeepsIInv, HalvesNext
<1>11. ASSUME NEW o, RenderTabStrips(o) PROVE IInv'
  BY <1>1, <1>11, RenderKeepsIInv, HalvesNext
<1>12. ASSUME NEW o, RemoveOutput(o) PROVE IInv'
  BY <1>1, <1>12, RemoveOutputKeepsIInv, HalvesNext
<1>13. ASSUME NEW o, SetFocusedOutput(o) PROVE IInv'
  BY <1>1, <1>13, SetFocusedOutputKeepsIInv, HalvesNext
<1>14. ASSUME NEW n \in AllHuts, Exited(n) PROVE IInv'
  BY <1>1, <1>14, ExitedKeepsIInv, HalvesNext
<1>15. CASE AddOutput
  BY <1>1, <1>15, AddOutputKeepsIInv, HalvesNext
<1> QED BY <1>2, <1>3, <1>4, <1>5, <1>6, <1>7, <1>8, <1>9, <1>10, <1>11, <1>12,
           <1>13, <1>14, <1>15, Zenon DEF Next, Keyboard, Ended

-----------------------------------------------------------------------------
(* The invariants of the runs, for every value of the constants.           *)

\* IInv holds in every reachable state.
THEOREM Inductive == Spec => []IInv
  BY InitIInv, StepIInv, PTL DEF Spec

\* Every variable keeps its type: above all, the focused output exists and each
\* output's list, index and preview stay well formed through hotplug.
THEOREM TypeCorrect == Spec => []TypeOK
<1>1. IInv => TypeOK
  BY DEF IInv
<1> QED BY <1>1, Inductive, PTL

\* A wrapper never loses a child without collapsing, and its active child is
\* always one of the two.
THEOREM WrappersStayPairs == Spec => []WrappersArePairs
<1>1. IInv => WrappersArePairs
  BY DEF IInv, GraphInv
<1> QED BY <1>1, Inductive, PTL

\* Until the loop is being stopped, every output's current entry exists: no
\* handler and no frame that indexes huts[current] can panic.
THEOREM CurrentStaysInRange == Spec => []CurrentInRange
<1>1. IInv => CurrentInRange
  <2> SUFFICES ASSUME IInv, loop \in {"starting", "running"}, NEW o \in DOMAIN outputs
               PROVE  outputs[o].current \in DOMAIN outputs[o].huts
    BY DEF CurrentInRange, InRange
  <2>1. SlotHalf /\ Running
    BY Halves DEF Running
  <2>2. outputs[o] \in Slots /\ SlotGood(outputs[o]) /\ SlotFull(outputs[o])
    BY <2>1, FocusedSlot
  <2>3. outputs[o].huts \in Seq(NodeId) /\ outputs[o].current \in Nat
    BY <2>2 DEF Slots
  <2> QED BY <2>2, <2>3 DEF SlotGood, SlotFull
<1> QED BY <1>1, Inductive, PTL

\* Until the loop is being stopped, every output has an entry to show.
THEOREM StackStaysNonEmpty == Spec => []StackNeverEmpty
<1>1. IInv => StackNeverEmpty
  <2> SUFFICES ASSUME IInv, loop \in {"starting", "running"}, NEW o \in DOMAIN outputs
               PROVE  outputs[o].huts # <<>>
    BY DEF StackNeverEmpty
  <2>1. SlotHalf /\ Running
    BY Halves DEF Running
  <2>2. outputs[o].current >= 1 /\ outputs[o].current <= Len(outputs[o].huts)
        /\ outputs[o] \in Slots
    BY <2>1, FocusedSlot DEF SlotGood, SlotFull
  <2>3. outputs[o].current \in Nat
    BY <2>2 DEF Slots
  <2> QED BY <2>2, <2>3
<1> QED BY <1>1, Inductive, PTL

\* An open preview always points at an entry, whatever exits meanwhile.
THEOREM PreviewStaysInRange == Spec => []PreviewInRange
<1>1. IInv => PreviewInRange
  <2> SUFFICES ASSUME IInv, loop \in {"starting", "running"}, NEW o \in DOMAIN outputs,
                      outputs[o].preview # 0
               PROVE  outputs[o].preview \in DOMAIN outputs[o].huts
    BY DEF PreviewInRange
  <2>1. SlotHalf /\ Running
    BY Halves DEF Running
  <2>2. outputs[o] \in Slots /\ SlotFull(outputs[o])
    BY <2>1, FocusedSlot
  <2>3. outputs[o].huts \in Seq(NodeId) /\ outputs[o].preview \in Nat
    BY <2>2 DEF Slots
  <2> QED BY <2>2, <2>3 DEF SlotFull
<1> QED BY <1>1, Inductive, PTL

-----------------------------------------------------------------------------
(* What a step may never do.                                               *)

\* Reshape takes out of the graph what it is told to, and nothing else.
LEMMA ReshapeRemoves ==
    ASSUME GraphHalf, NEW removed, NEW ok \in BOOLEAN, Reshape(removed, ok),
           NEW n \in NodeId, kind[n] = "console", kind'[n] # "console"
    PROVE  n \in removed
  BY DEF Reshape, GraphHalf, GraphTypes

\* A discarded entry is no used console.
LEMMA StackStepsKeepUsed ==
    ASSUME GraphHalf, StackNext \/ StackPrev,
           NEW n \in NodeId, kind[n] = "console", n \in touched \cup windowed
    PROVE  kind'[n] = "console"
<1> SUFFICES ASSUME kind'[n] # "console" PROVE FALSE
  OBVIOUS
<1> DEFINE slot == outputs[focusedOutput]
           pos  == Pos(slot)
<1>1. Touched(n)
  BY DEF Touched
<1>2. \A ok \in SpawnOutcomes(1) : ok \in BOOLEAN
  BY DEF SpawnOutcomes
<1>3. ~Kept(slot, pos) => slot.huts[pos] # n
  BY <1>1, Zenon DEF Kept
<1>4. ASSUME NEW ok \in BOOLEAN, Reshape({}, ok) PROVE FALSE
  <2>1. n \in {}
    BY <1>4, ReshapeRemoves
  <2> QED BY <2>1
<1>5. ASSUME NEW ok \in BOOLEAN, NEW m, Reshape({m}, ok), m # n PROVE FALSE
  <2>1. n \in {m}
    BY <1>5, ReshapeRemoves
  <2> QED BY <1>5, <2>1
<1>6. CASE AdvanceEmpty(focusedOutput, slot) \/ AdvanceGrow(focusedOutput, slot, pos)
  <2>1. \E ok \in SpawnOutcomes(1) : Reshape({}, ok)
    BY <1>6 DEF AdvanceEmpty, AdvanceGrow
  <2> QED BY <1>2, <1>4, <2>1
<1>7. CASE AdvanceDiscard(focusedOutput, slot, pos)
  <2>1. ~Kept(slot, pos) /\ \E ok \in SpawnOutcomes(1) : Reshape({slot.huts[pos]}, ok)
    BY <1>7 DEF AdvanceDiscard
  <2> QED BY <1>2, <1>3, <1>5, <2>1
<1>8. CASE AdvanceReplace(focusedOutput, slot, pos)
  <2>1. ~Kept(slot, pos) /\ pos = 1 /\ \E ok \in SpawnOutcomes(1) :
          Reshape(IF ok THEN {slot.huts[1]} ELSE {}, ok)
    BY <1>8 DEF AdvanceReplace
  <2>2. slot.huts[1] # n
    BY <1>3, <2>1
  <2>3. PICK ok \in SpawnOutcomes(1) : Reshape(IF ok THEN {slot.huts[1]} ELSE {}, ok)
    BY <2>1
  <2>4. n \in IF ok THEN {slot.huts[1]} ELSE {}
    BY <1>2, <2>3, ReshapeRemoves, Zenon
  <2> QED BY <2>2, <2>4, Zenon
<1>9. CASE RetreatDiscard(focusedOutput, slot, pos)
  <2>1. ~Kept(slot, pos) /\ Reshape({slot.huts[pos]}, FALSE)
    BY <1>9 DEF RetreatDiscard
  <2> QED BY <1>3, <1>5, <2>1
<1>10. CASE kind' = kind
  BY <1>10
<1> QED BY <1>6, <1>7, <1>8, <1>9, <1>10, Zenon
        DEF StackNext, StackPrev, AdvanceOver, OpenAtEnd, RetreatOver, graphVars

\* An exit takes the hut itself and at most its parent, which is no console.
LEMMA ExitKeepsOthers ==
    ASSUME GraphHalf, NEW m \in AllHuts, Exited(m),
           NEW n \in NodeId, kind[n] = "console", kind'[n] # "console"
    PROVE  n = m
<1>1. CASE LogOut
  BY <1>1 DEF LogOut, graphVars
<1>2. CASE ExitTopLevel(m)
  <2>1. PICK o \in DOMAIN outputs : \E i \in DOMAIN outputs[o].huts : ExitEntry(o, i, m)
    BY <1>2 DEF ExitTopLevel
  <2>2. PICK i \in DOMAIN outputs[o].huts : ExitEntry(o, i, m)
    BY <2>1
  <2>3. \E ok \in BOOLEAN : Reshape({m}, ok)
    BY <2>2 DEF ExitEntry, SpawnOutcomes
  <2> QED BY <2>3, ReshapeRemoves
<1>3. CASE ExitNested(m)
  <2>1. PICK parent \in NodeId : \E i \in DOMAIN children[parent] :
          Unlink(m, parent, RemoveAt(children[parent], i))
    BY <1>3, Zenon DEF ExitNested, ExitChild
  <2>2. kind[parent] # "console"
    BY <2>1 DEF GraphHalf, GraphTypes, GraphInv, WrappersArePairs, Wrappers
  <2>3. \/ kind' = [kind EXCEPT ![m] = "none"]
        \/ kind' = [kind EXCEPT ![m] = "none", ![parent] = "none"]
    BY <2>1, Zenon DEF Unlink
  <2> QED BY <2>2, <2>3 DEF GraphHalf, GraphTypes
<1> QED BY <1>1, <1>2, <1>3 DEF Exited

\* Navigation, wraps and the exits of others never discard a console that was
\* typed into or that holds a window.
THEOREM UsedHutsAreKept == Spec => UsedHutsSurvive
<1> DEFINE Survives(n) ==
      kind[n] = "console" /\ n \in touched \cup windowed /\ kind'[n] # "console" =>
        \/ Exited(n)
        \/ \E o \in DOMAIN outputs : n \in UnderOutput(o) /\ RemoveOutput(o)
<1>1. IInv /\ [Next]_vars => \A n \in NodeId : Survives(n)
  <2> SUFFICES ASSUME IInv, [Next]_vars, NEW n \in NodeId, kind[n] = "console",
                      n \in touched \cup windowed, kind'[n] # "console"
               PROVE  \/ Exited(n)
                      \/ \E o \in DOMAIN outputs : n \in UnderOutput(o) /\ RemoveOutput(o)
    BY Zenon
  <2>1. GraphHalf
    BY Halves
  <2>2. ASSUME SpawnWithCommand PROVE FALSE
    BY <2>1, <2>2 DEF SpawnWithCommand, GraphHalf, GraphTypes
  <2>3. ASSUME StackNext \/ StackPrev PROVE FALSE
    BY <2>1, <2>3, StackStepsKeepUsed
  <2>4. ASSUME NEW kd \in Wrappers, Wrap(kd) PROVE FALSE
    <3>1. \/ kind' = kind
          \/ kind' = [kind EXCEPT ![nextId] = "console", ![nextId + 1] = kd]
      BY <2>4, Zenon DEF Wrap, WrapLink, graphVars
    <3>2. n < nextId
      BY <2>1 DEF GraphHalf, GraphTypes, GraphInv, NodeId
    <3>3. n # nextId /\ n # nextId + 1
      BY <2>1, <3>2, BoundsAssumption DEF GraphHalf, GraphTypes, NodeId
    <3>4. kind'[n] = kind[n]
      BY <2>1, <3>1, <3>3 DEF GraphHalf, GraphTypes
    <3> QED BY <3>4
  <2>5. ASSUME AddOutput PROVE FALSE
    <3>1. n \in {}
      BY <2>1, <2>5, ReshapeRemoves DEF AddOutput
    <3> QED BY <3>1
  <2>6. ASSUME NEW m \in AllHuts, Exited(m) PROVE Exited(n)
    BY <2>1, <2>6, ExitKeepsOthers
  <2>7. ASSUME NEW o, RemoveOutput(o) PROVE o \in DOMAIN outputs /\ n \in UnderOutput(o)
    BY <2>1, <2>7, ReshapeRemoves DEF RemoveOutput
  <2>8. kind' # kind
    OBVIOUS
  <2>9. /\ ~RunLoop /\ ~Panic /\ ~EndBatch /\ ~UNCHANGED vars
        /\ ~PressHold /\ ~ReleaseHold /\ ~LateCommit /\ ~ClickChrome /\ ~Type
        /\ \A dir : ~CycleInnermost(dir)
        /\ \A o : ~RenderTabStrips(o) /\ ~SetFocusedOutput(o)
        /\ \A m : ~MapWindow(m) /\ ~UnmapWindows(m)
    BY <2>8, Zenon DEF RunLoop, Panic, EndBatch, vars, PressHold, ReleaseHold, LateCommit,
          CommitPreview, ClickChrome, Type, CycleInnermost, RenderTabStrips,
          SetFocusedOutput, MapWindow, UnmapWindows, graphVars
  <2> QED BY <2>2, <2>3, <2>4, <2>5, <2>6, <2>7, <2>9, Zenon DEF Next, Keyboard, Ended
<1>2. IInv /\ [Next]_vars => [\A n \in NodeId : Survives(n)]_vars
  BY <1>1
<1>3. Spec => [][\A n \in NodeId : Survives(n)]_vars
  <2> HIDE DEF Survives
  <2> QED BY <1>2, Inductive, PTL DEF Spec
<1> QED BY <1>3 DEF UsedHutsSurvive

\* Unplugging an output leaves the focus on the output that had it, and every
\* other output's list, focus and open preview as they were.
THEOREM UnplugIsLocal == Spec => UnplugKeepsOthers
<1> DEFINE Local(o) ==
      Len(outputs') < Len(outputs) /\ o # focusedOutput /\ RemoveOutput(o) =>
        /\ outputs'[focusedOutput'] = outputs[focusedOutput]
        /\ \A p \in DOMAIN outputs \ {o} : \E q \in DOMAIN outputs' :
             outputs'[q] = outputs[p]
<1>1. IInv => \A o \in DOMAIN outputs : Local(o)
  <2> SUFFICES ASSUME IInv, NEW o \in DOMAIN outputs, o # focusedOutput, RemoveOutput(o)
               PROVE  /\ outputs'[focusedOutput'] = outputs[focusedOutput]
                      /\ \A p \in DOMAIN outputs \ {o} : \E q \in DOMAIN outputs' :
                           outputs'[q] = outputs[p]
    BY Zenon
  <2>1. /\ outputs \in Seq(Slots) /\ Len(outputs) \in Nat
        /\ o \in 1..Len(outputs) /\ focusedOutput \in 1..Len(outputs)
    BY DEF IInv, TypeOK
  <2>2. outputs' = RemoveAt(outputs, o) /\ focusedOutput' = FocusAfterRemoval(o)
    BY DEF RemoveOutput
  <2>3. /\ outputs' \in Seq(Slots) /\ Len(outputs') = Len(outputs) - 1
        /\ \A j \in 1..(Len(outputs) - 1) :
             outputs'[j] = IF j < o THEN outputs[j] ELSE outputs[j + 1]
    BY <2>1, <2>2, RemoveAtFacts
  <2>4. DOMAIN outputs' = 1..(Len(outputs) - 1)
    BY <2>1, <2>3
  <2>5. focusedOutput' = IF focusedOutput < o THEN focusedOutput ELSE focusedOutput - 1
    BY <2>1, <2>2 DEF FocusAfterRemoval
  <2>6. ASSUME NEW p \in 1..Len(outputs), p # o
        PROVE  LET q == IF p < o THEN p ELSE p - 1 IN
               q \in DOMAIN outputs' /\ outputs'[q] = outputs[p]
    <3>1. CASE p < o
      <4>1. p \in 1..(Len(outputs) - 1)
        BY <2>1, <3>1
      <4> QED BY <2>3, <2>4, <3>1, <4>1
    <3>2. CASE ~(p < o)
      <4>1. p - 1 \in 1..(Len(outputs) - 1) /\ ~(p - 1 < o) /\ p - 1 + 1 = p
        BY <2>1, <2>6, <3>2
      <4>2. outputs'[p - 1] = outputs[p - 1 + 1]
        BY <2>3, <4>1
      <4> QED BY <2>4, <3>2, <4>1, <4>2
    <3> QED BY <3>1, <3>2
  <2>7. outputs'[focusedOutput'] = outputs[focusedOutput]
    BY <2>1, <2>5, <2>6
  <2>8. \A p \in DOMAIN outputs \ {o} : \E q \in DOMAIN outputs' : outputs'[q] = outputs[p]
    BY <2>1, <2>6
  <2> QED BY <2>7, <2>8
<1>2. IInv => [\A o \in DOMAIN outputs : Local(o)]_vars
  BY <1>1
<1>3. Spec => [][\A o \in DOMAIN outputs : Local(o)]_vars
  <2> HIDE DEF Local
  <2> QED BY <1>2, Inductive, PTL
<1> QED BY <1>3 DEF UnplugKeepsOthers

-----------------------------------------------------------------------------
(* Induction.                                                              *)

\* A set with 0 and the successors of its members has every natural number.
LEMMA NatSetInduction ==
    ASSUME NEW S, 0 \in S, \A n \in Nat : n \in S => n + 1 \in S
    PROVE  Nat \subseteq S
<1> SUFFICES ASSUME NEW n \in Nat, n \notin S PROVE FALSE
  OBVIOUS
<1> DEFINE T == {0..k : k \in {i \in 0..n : i \notin S}}
           R == StrictSubsetOrdering(0..n)
<1>1. IsWellFoundedOn(R, FiniteSubsetsOf(0..n))
  BY FS_StrictSubsetOrderingWellFounded
<1>2. T \subseteq FiniteSubsetsOf(0..n)
  <2> SUFFICES ASSUME NEW k \in 0..n PROVE 0..k \in FiniteSubsetsOf(0..n)
    OBVIOUS
  <2>1. IsFiniteSet(0..k)
    BY FS_Interval
  <2> QED BY <2>1 DEF FiniteSubsetsOf
<1>3. 0..n \in T
  OBVIOUS
<1>4. PICK x \in T : \A y \in T : <<y, x>> \notin R
  <2> HIDE DEF T, R
  <2> QED BY <1>1, <1>2, <1>3, WFMin
<1>5. PICK k \in 0..n : k \notin S /\ x = 0..k
  OBVIOUS
<1>6. k # 0 /\ k - 1 \in 0..n /\ k - 1 \notin S
  BY <1>5
<1>7. 0..(k - 1) \in T
  BY <1>6
<1>8. <<0..(k - 1), x>> \in R
  <2>1. 0..(k - 1) \subseteq 0..n /\ x \subseteq 0..n /\ 0..(k - 1) \subseteq x
    BY <1>5, <1>6
  <2>2. k \in x /\ k \notin 0..(k - 1)
    BY <1>5, <1>6
  <2> QED BY <2>1, <2>2 DEF StrictSubsetOrdering
<1> QED BY <1>4, <1>7, <1>8

\* The iterates of a function exist.
HasIterates(T, c, G, N) ==
    \E f \in [0..N -> T] : f[0] = c /\ \A k \in 1..N : f[k] = G[f[k - 1]]

\* A function of bounded depth that starts at c and applies G at each step exists, for any depth.
LEMMA Iterated ==
    ASSUME NEW T, NEW c \in T, NEW G \in [T -> T], NEW N \in Nat
    PROVE  HasIterates(T, c, G, N)
<1> DEFINE Good(n, f) == f[0] = c /\ \A k \in 1..n : f[k] = G[f[k - 1]]
           S == {n \in Nat : \E f \in [0..n -> T] : Good(n, f)}
<1>1. 0 \in S
  <2>1. [i \in 0..0 |-> c] \in [0..0 -> T] /\ Good(0, [i \in 0..0 |-> c])
    OBVIOUS
  <2> QED BY <2>1
<1>2. ASSUME NEW n \in Nat, n \in S PROVE n + 1 \in S
  <2>1. PICK f \in [0..n -> T] : Good(n, f)
    BY <1>2
  <2> DEFINE g == [i \in 0..(n + 1) |-> IF i <= n THEN f[i] ELSE G[f[n]]]
  <2>2. g \in [0..(n + 1) -> T]
    OBVIOUS
  <2>3. Good(n + 1, g)
    <3> SUFFICES ASSUME NEW k \in 1..(n + 1) PROVE g[k] = G[g[k - 1]]
      BY <2>1
    <3>1. CASE k <= n
      BY <3>1, <2>1
    <3>2. CASE k = n + 1
      BY <3>2
    <3> QED BY <3>1, <3>2
  <2> HIDE DEF g, Good
  <2> QED BY <2>2, <2>3
<1> HIDE DEF S
<1>3. Nat \subseteq S
  BY <1>1, <1>2, NatSetInduction
<1> QED BY <1>3 DEF S, HasIterates

-----------------------------------------------------------------------------
(* What the operators on lists do to the set of entries.                   *)

\* Appending an entry that is new keeps a list free of repetitions.
LEMMA AppendEntries ==
    ASSUME NEW S, NEW s \in Seq(S), IsInjective(s), NEW x \in S, x \notin ToSet(s)
    PROVE  IsInjective(Append(s, x)) /\ ToSet(Append(s, x)) = ToSet(s) \cup {x}
<1>1. /\ DOMAIN s = 1..Len(s) /\ Len(s) \in Nat
      /\ DOMAIN Append(s, x) = 1..(Len(s) + 1)
      /\ \A i \in 1..Len(s) : Append(s, x)[i] = s[i]
      /\ Append(s, x)[Len(s) + 1] = x
  OBVIOUS
<1> DEFINE t == Append(s, x)
<1> HIDE DEF t
<1>2. \A i \in 1..(Len(s) + 1) : i \in 1..Len(s) \/ i = Len(s) + 1
  BY <1>1
<1>3. IsInjective(t)
  BY <1>1, <1>2 DEF IsInjective, ToSet, t
<1>4. ToSet(t) = ToSet(s) \cup {x}
  <2>1. ToSet(t) \subseteq ToSet(s) \cup {x}
    BY <1>1, <1>2 DEF ToSet, t
  <2>2. ToSet(s) \subseteq ToSet(t)
    BY <1>1, <1>2 DEF ToSet, t
  <2>3. x \in ToSet(t)
    BY <1>1 DEF ToSet, t
  <2> QED BY <2>1, <2>2, <2>3
<1> QED BY <1>3, <1>4 DEF t

\* Removing a position removes just its entry from a list without repetitions.
LEMMA RemoveAtEntries ==
    ASSUME NEW S, NEW s \in Seq(S), IsInjective(s), NEW i \in DOMAIN s
    PROVE  IsInjective(RemoveAt(s, i)) /\ ToSet(RemoveAt(s, i)) = ToSet(s) \ {s[i]}
<1> DEFINE t == RemoveAt(s, i)
<1>1. /\ DOMAIN s = 1..Len(s) /\ Len(s) \in Nat /\ i \in 1..Len(s)
      /\ DOMAIN t = 1..(Len(s) - 1)
      /\ \A j \in 1..(Len(s) - 1) : t[j] = IF j < i THEN s[j] ELSE s[j + 1]
  BY RemoveAtFacts
<1> HIDE DEF t
<1>2. IsInjective(t)
  <2> SUFFICES ASSUME NEW a \in 1..(Len(s) - 1), NEW b \in 1..(Len(s) - 1), t[a] = t[b]
               PROVE  a = b
    BY <1>1 DEF IsInjective
  <2> DEFINE at(j) == IF j < i THEN j ELSE j + 1
  <2>1. /\ at(a) \in 1..Len(s) /\ at(b) \in 1..Len(s)
        /\ t[a] = s[at(a)] /\ t[b] = s[at(b)]
    BY <1>1
  <2>2. at(a) = at(b)
    <3> HIDE DEF at
    <3> QED BY <2>1, <1>1 DEF IsInjective
  <2> QED BY <2>2
<1>3. ASSUME NEW e \in ToSet(t) PROVE e \in ToSet(s) \ {s[i]}
  <2>1. PICK j \in 1..(Len(s) - 1) : e = t[j]
    BY <1>1 DEF ToSet
  <2>2. PICK k \in 1..Len(s) : k # i /\ t[j] = s[k]
    BY <1>1
  <2> QED BY <2>1, <2>2, <1>1 DEF IsInjective, ToSet
<1>4. ASSUME NEW e \in ToSet(s) \ {s[i]} PROVE e \in ToSet(t)
  <2>1. PICK k \in 1..Len(s) : k # i /\ e = s[k]
    BY <1>1 DEF ToSet
  <2>2. CASE k < i
    BY <2>1, <2>2, <1>1 DEF ToSet
  <2>3. CASE k > i
    <3>1. k - 1 \in 1..(Len(s) - 1) /\ t[k - 1] = s[k]
      BY <2>3, <1>1
    <3> QED BY <3>1, <2>1, <1>1 DEF ToSet
  <2> QED BY <2>1, <2>2, <2>3, <1>1
<1> QED BY <1>2, <1>3, <1>4 DEF t

\* One entry moved to the front.
LEMMA FrontEntries ==
    ASSUME NEW S, NEW s \in Seq(S), IsInjective(s), NEW i \in DOMAIN s
    PROVE  LET moved == <<s[i]>> \o RemoveAt(s, i)
           IN  IsInjective(moved) /\ ToSet(moved) = ToSet(s)
<1> DEFINE r == RemoveAt(s, i)
           t == <<s[i]>> \o r
<1>1. r \in Seq(S) /\ IsInjective(r) /\ ToSet(r) = ToSet(s) \ {s[i]}
  BY RemoveAtFacts, RemoveAtEntries
<1>2. s[i] \in S /\ s[i] \in ToSet(s)
  BY DEF ToSet
<1> HIDE DEF r
<1>3. /\ DOMAIN r = 1..Len(r) /\ Len(r) \in Nat
      /\ DOMAIN t = 1..(Len(r) + 1) /\ t[1] = s[i]
      /\ \A j \in 1..Len(r) : t[j + 1] = r[j]
  BY <1>1, <1>2
<1> HIDE DEF t
<1>4. \A j \in 1..(Len(r) + 1) : j # 1 => j - 1 \in 1..Len(r) /\ t[j] = r[j - 1]
  <2> SUFFICES ASSUME NEW j \in 1..(Len(r) + 1), j # 1
               PROVE  j - 1 \in 1..Len(r) /\ t[j] = r[j - 1]
    OBVIOUS
  <2>1. j - 1 \in 1..Len(r) /\ (j - 1) + 1 = j
    BY <1>3
  <2> QED BY <2>1, <1>3
<1>5. IsInjective(t)
  <2> SUFFICES ASSUME NEW a \in 1..(Len(r) + 1), NEW b \in 1..(Len(r) + 1), t[a] = t[b]
               PROVE  a = b
    BY <1>3 DEF IsInjective
  <2>1. \A j \in 1..Len(r) : r[j] # s[i]
    BY <1>1, <1>3 DEF ToSet
  <2>2. CASE a = 1 \/ b = 1
    BY <2>1, <2>2, <1>3, <1>4
  <2>3. CASE a # 1 /\ b # 1
    <3>1. a - 1 \in DOMAIN r /\ b - 1 \in DOMAIN r /\ r[a - 1] = r[b - 1]
      BY <2>3, <1>4, <1>3
    <3>2. a - 1 = b - 1
      BY <3>1, <1>1 DEF IsInjective
    <3> QED BY <3>2
  <2> QED BY <2>2, <2>3
<1>6. ToSet(t) = ToSet(s)
  <2>1. ASSUME NEW e \in ToSet(t) PROVE e \in ToSet(r) \cup {s[i]}
    <3>1. PICK j \in 1..(Len(r) + 1) : e = t[j]
      BY <1>3 DEF ToSet
    <3>2. CASE j = 1
      BY <3>1, <3>2, <1>3
    <3>3. CASE j # 1
      <4>1. j - 1 \in DOMAIN r /\ e = r[j - 1]
        BY <3>1, <3>3, <1>3, <1>4
      <4> QED BY <4>1 DEF ToSet
    <3> QED BY <3>2, <3>3
  <2>2. ASSUME NEW j \in 1..Len(r) PROVE r[j] \in ToSet(t)
    <3>1. j + 1 \in DOMAIN t /\ t[j + 1] = r[j]
      BY <1>3
    <3> QED BY <3>1 DEF ToSet
  <2>3. s[i] \in ToSet(t) /\ ToSet(r) \subseteq ToSet(t)
    BY <2>2, <1>3 DEF ToSet
  <2>4. ToSet(s) = ToSet(r) \cup {s[i]}
    BY <1>1, <1>2
  <2> QED BY <2>1, <2>3, <2>4
<1> QED BY <1>5, <1>6 DEF t, r

\* One entry replaced by another, by its position or by its value.
LEMMA ReplaceAtEntries ==
    ASSUME NEW S, NEW s \in Seq(S), IsInjective(s), NEW i \in DOMAIN s,
           NEW x \in S, x \notin ToSet(s)
    PROVE  /\ IsInjective(ReplaceAt(s, i, x))
           /\ ToSet(ReplaceAt(s, i, x)) = (ToSet(s) \ {s[i]}) \cup {x}
<1>1. DOMAIN ReplaceAt(s, i, x) = DOMAIN s
  BY DEF ReplaceAt
<1>2. \A j \in DOMAIN s : ReplaceAt(s, i, x)[j] = IF j = i THEN x ELSE s[j]
  BY DEF ReplaceAt
<1>3. IsInjective(ReplaceAt(s, i, x))
  BY <1>1, <1>2 DEF IsInjective, ToSet
<1>4. ToSet(ReplaceAt(s, i, x)) = (ToSet(s) \ {s[i]}) \cup {x}
  BY <1>1, <1>2 DEF IsInjective, ToSet
<1> QED BY <1>3, <1>4

\* Replacing an entry by a new one swaps just that entry.
LEMMA ReplaceAllEntries ==
    ASSUME NEW S, NEW s \in Seq(S), IsInjective(s), NEW old, NEW new \in S,
           new \notin ToSet(s)
    PROVE  /\ IsInjective(ReplaceAll(s, old, new))
           /\ ToSet(ReplaceAll(s, old, new)) =
                IF old \in ToSet(s) THEN (ToSet(s) \ {old}) \cup {new} ELSE ToSet(s)
<1>1. DOMAIN ReplaceAll(s, old, new) = DOMAIN s
  BY DEF ReplaceAll
<1>2. \A j \in DOMAIN s : ReplaceAll(s, old, new)[j] = IF s[j] = old THEN new ELSE s[j]
  BY DEF ReplaceAll
<1>3. IsInjective(ReplaceAll(s, old, new))
  BY <1>1, <1>2 DEF IsInjective, ToSet
<1>4. ToSet(ReplaceAll(s, old, new)) =
         IF old \in ToSet(s) THEN (ToSet(s) \ {old}) \cup {new} ELSE ToSet(s)
  BY <1>1, <1>2 DEF ToSet
<1> QED BY <1>3, <1>4

-----------------------------------------------------------------------------
(* Forests.  H are the roots (of each output), K the children of each node *)
(* and L the nodes that are there: every one of them has exactly one place *)
(* and nothing else has any, what has children is there, and no set of     *)
(* nodes has all its parents inside itself.                                *)

Grounded(K) == \A C \in SUBSET NodeId : (\A n \in C : \E p \in C : n \in K[p]) => C = {}

Forest(H, K, L) ==
    /\ \A o, p \in DOMAIN H : H[o] \cap H[p] # {} => o = p
    /\ \A p, q \in NodeId : K[p] \cap K[q] # {} => p = q
    /\ \A o \in DOMAIN H, p \in NodeId : H[o] \cap K[p] = {}
    /\ \A n \in NodeId :
         n \in L <=> (\E o \in DOMAIN H : n \in H[o]) \/ (\E p \in NodeId : n \in K[p])
    /\ \A p \in NodeId : K[p] # {} => p \in L
    /\ Grounded(K)

Family(D) == [D -> SUBSET NodeId]

\* A step that only takes children away leaves no cycle behind.
LEMMA FewerChildren ==
    ASSUME NEW K \in Family(NodeId), NEW J \in Family(NodeId), Grounded(K),
           \A n \in NodeId : J[n] \subseteq K[n]
    PROVE  Grounded(J)
<1> SUFFICES ASSUME NEW C \in SUBSET NodeId, \A n \in C : \E p \in C : n \in J[p]
             PROVE  C = {}
  BY DEF Grounded
<1>1. \A n \in C : \E p \in C : n \in K[p]
  OBVIOUS
<1> QED BY <1>1 DEF Grounded

\* A new root.
AddsRoot(D, H, J, o, x) == \A p \in D : J[p] = IF p = o THEN H[p] \cup {x} ELSE H[p]

\* A new node without children put on an output's list keeps the forest.
LEMMA RootAdded ==
    ASSUME NEW D, NEW H \in Family(D), NEW J \in Family(D), NEW K \in Family(NodeId),
           NEW L, Forest(H, K, L), NEW o \in D, NEW x \in NodeId, x \notin L,
           AddsRoot(D, H, J, o, x), NEW N, N = L \cup {x}
    PROVE  Forest(J, K, N)
<1> USE DEF Forest, Family, AddsRoot
<1>1. \A p \in D : x \notin H[p]
  OBVIOUS
<1>2. \A p \in NodeId : x \notin K[p]
  OBVIOUS
<1>3. \A p, q \in D : J[p] \cap J[q] # {} => p = q
  BY <1>1
<1>4. \A p \in D, q \in NodeId : J[p] \cap K[q] = {}
  BY <1>2
<1>5. \A n \in NodeId :
        n \in L \cup {x} <=> (\E p \in D : n \in J[p]) \/ (\E p \in NodeId : n \in K[p])
  OBVIOUS
<1> QED BY <1>3, <1>4, <1>5

\* A root without children that goes.
DropsRoot(D, H, J, o, x) == \A p \in D : J[p] = IF p = o THEN H[p] \ {x} ELSE H[p]

\* An entry without children taken off its list keeps the forest.
LEMMA RootDropped ==
    ASSUME NEW D, NEW H \in Family(D), NEW J \in Family(D), NEW K \in Family(NodeId),
           NEW L, Forest(H, K, L), NEW o \in D, NEW x \in H[o], K[x] = {},
           DropsRoot(D, H, J, o, x), NEW N, N = L \ {x}
    PROVE  Forest(J, K, N)
<1> USE DEF Forest, Family, DropsRoot
<1>1. \A p \in D : x \in H[p] <=> p = o
  OBVIOUS
<1>2. \A p \in NodeId : x \notin K[p]
  OBVIOUS
<1>3. \A n \in NodeId :
        n \in L \ {x} <=> (\E p \in D : n \in J[p]) \/ (\E p \in NodeId : n \in K[p])
  BY <1>1, <1>2
<1>4. \A p, q \in D : J[p] \cap J[q] # {} => p = q
  OBVIOUS
<1>5. \A p \in D, q \in NodeId : J[p] \cap K[q] = {}
  OBVIOUS
<1>6. \A p \in NodeId : K[p] # {} => p \in L \ {x}
  OBVIOUS
<1> QED BY <1>3, <1>4, <1>5, <1>6

\* One place given to another node.
Swap(S, old, new) == IF old \in S THEN (S \ {old}) \cup {new} ELSE S

\* Wrapping: x goes below w, which takes its place, together with `new`.
Swapped(D, H, J, x, w) == \A o \in D : J[o] = Swap(H[o], x, w)
PairBelow(K, M, new, x, w) ==
    \A n \in NodeId : M[n] = IF n = w THEN {new, x} ELSE Swap(K[n], x, w)

\* A pair put in the place of a node, with that node and a new one below it, keeps the forest.
LEMMA Wrapped ==
    ASSUME NEW D, NEW H \in Family(D), NEW J \in Family(D),
           NEW K \in Family(NodeId), NEW M \in Family(NodeId), NEW L, Forest(H, K, L),
           NEW x \in L, x \in NodeId, NEW new \in NodeId, NEW w \in NodeId,
           new \notin L, w \notin L, new # w,
           Swapped(D, H, J, x, w), PairBelow(K, M, new, x, w), NEW N, N = L \cup {new, w}
    PROVE  Forest(J, M, N)
<1> USE DEF Family, Swapped, PairBelow
<1>1. /\ \A o \in D : w \notin H[o] /\ new \notin H[o]
      /\ \A n \in NodeId : w \notin K[n] /\ new \notin K[n]
      /\ K[w] = {} /\ K[new] = {} /\ x # w /\ x # new
  BY DEF Forest
<1>2. /\ \A o \in D, n \in NodeId :
           n \in J[o] <=> (n \in H[o] /\ n # x) \/ (n = w /\ x \in H[o])
      /\ \A p \in NodeId, n \in NodeId :
           n \in M[p] <=> \/ n \in K[p] /\ n # x
                          \/ n = w /\ x \in K[p]
                          \/ p = w /\ n \in {new, x}
  BY <1>1 DEF Swap
<1>3. \A o, p \in D : J[o] \cap J[p] # {} => o = p
  BY <1>1, <1>2 DEF Forest
<1>4. \A p, q \in NodeId : M[p] \cap M[q] # {} => p = q
  BY <1>1, <1>2 DEF Forest
<1>5. \A o \in D, p \in NodeId : J[o] \cap M[p] = {}
  BY <1>1, <1>2 DEF Forest
<1>6. ASSUME NEW n \in NodeId
      PROVE  n \in L \cup {new, w} <=> (\E o \in D : n \in J[o]) \/ (\E p \in NodeId : n \in M[p])
  <2>1. CASE n \in {new, x}
    BY <2>1, <1>1, <1>2
  <2>2. CASE n = w
    <3>1. (\E o \in D : x \in H[o]) \/ (\E p \in NodeId : x \in K[p])
      BY DEF Forest
    <3> QED BY <2>2, <3>1, <1>2
  <2>3. CASE n \notin {new, x, w}
    BY <2>3, <1>2 DEF Forest
  <2> QED BY <2>1, <2>2, <2>3
<1>7. \A p \in NodeId : M[p] # {} => p \in L \cup {new, w}
  BY <1>2 DEF Forest
<1>8. Grounded(M)
  <2> SUFFICES ASSUME NEW C \in SUBSET NodeId, \A n \in C : \E p \in C : n \in M[p]
               PROVE  C = {}
    BY DEF Grounded
  <2> DEFINE B == C \ {new, w}
  <2>1. \A n \in B : \E p \in B : n \in K[p]
    <3> SUFFICES ASSUME NEW n \in B PROVE \E p \in B : n \in K[p]
      OBVIOUS
    <3>1. PICK p \in C : n \in M[p]
      OBVIOUS
    <3>2. CASE p = w
      <4>1. n = x
        BY <3>1, <3>2, <1>1, <1>2
      <4>2. PICK q \in C : w \in M[q]
        BY <3>2
      <4>3. x \in K[q] /\ q # w /\ q # new
        BY <4>2, <1>1, <1>2
      <4> QED BY <4>1, <4>3
    <3>3. CASE p # w
      BY <3>1, <3>3, <1>1, <1>2
    <3> QED BY <3>2, <3>3
  <2>b. B \in SUBSET NodeId
    OBVIOUS
  <2>2. B = {}
    <3> HIDE DEF B
    <3> QED BY <2>1, <2>b DEF Forest, Grounded
  <2>3. w \notin C
    <3> SUFFICES ASSUME w \in C PROVE FALSE
      OBVIOUS
    <3>1. PICK q \in C : w \in M[q]
      OBVIOUS
    <3>2. q \in B
      BY <3>1, <1>1, <1>2
    <3> QED BY <2>2, <3>2
  <2>4. new \notin C
    BY <2>2, <2>3, <1>1, <1>2
  <2> QED BY <2>2, <2>3, <2>4
<1> QED BY <1>3, <1>4, <1>5, <1>6, <1>7, <1>8 DEF Forest

\* A wrapper p collapses: its child n goes, and the other one takes its place.
PairGone(K, M, p, s) == \A m \in NodeId : M[m] = IF m = p THEN {} ELSE Swap(K[m], p, s)

\* A pair replaced by one of its two children, when the other has none, keeps the forest.
LEMMA Collapsed ==
    ASSUME NEW D, NEW H \in Family(D), NEW J \in Family(D),
           NEW K \in Family(NodeId), NEW M \in Family(NodeId), NEW L, Forest(H, K, L),
           NEW p \in NodeId, NEW n \in NodeId, NEW s \in NodeId, n # s,
           K[p] = {n, s}, K[n] = {},
           Swapped(D, H, J, p, s), PairGone(K, M, p, s), NEW N, N = L \ {n, p}
    PROVE  Forest(J, M, N)
<1> USE DEF Family, Swapped, PairGone
<1>1. /\ p \in L /\ n \in L /\ s \in L /\ p # n
      /\ \A o \in D : n \notin H[o] /\ s \notin H[o]
      /\ \A m \in NodeId : m # p => n \notin K[m] /\ s \notin K[m]
  BY DEF Forest
<1>2. p # s /\ p \notin K[p]
  <2>1. ASSUME p \in K[p] PROVE FALSE
    <3>1. \A m \in {p} : \E q \in {p} : m \in K[q]
      BY <2>1
    <3>2. {p} \in SUBSET NodeId /\ {p} # {}
      OBVIOUS
    <3> QED BY <3>1, <3>2 DEF Forest, Grounded
  <2> QED BY <2>1
<1>3. /\ \A o \in D, m \in NodeId :
           m \in J[o] <=> (m \in H[o] /\ m # p) \/ (m = s /\ p \in H[o])
      /\ \A q \in NodeId, m \in NodeId :
           m \in M[q] <=> q # p /\ ((m \in K[q] /\ m # p) \/ (m = s /\ p \in K[q]))
  BY DEF Swap
<1>4. \A o, q \in D : J[o] \cap J[q] # {} => o = q
  BY <1>1, <1>3 DEF Forest
<1>5. \A q, r \in NodeId : M[q] \cap M[r] # {} => q = r
  BY <1>1, <1>3 DEF Forest
<1>6. \A o \in D, q \in NodeId : J[o] \cap M[q] = {}
  BY <1>1, <1>3 DEF Forest
<1>7. ASSUME NEW m \in NodeId
      PROVE  m \in L \ {n, p} <=> (\E o \in D : m \in J[o]) \/ (\E q \in NodeId : m \in M[q])
  <2>1. CASE m \in {n, p}
    BY <2>1, <1>1, <1>2, <1>3
  <2>2. CASE m = s
    <3>1. (\E o \in D : p \in H[o]) \/ (\E q \in NodeId : q # p /\ p \in K[q])
      BY <1>1, <1>2 DEF Forest
    <3> QED BY <2>2, <3>1, <1>1, <1>2, <1>3
  <2>3. CASE m \notin {n, p, s}
    BY <2>3, <1>3 DEF Forest
  <2> QED BY <2>1, <2>2, <2>3
<1>8. \A q \in NodeId : M[q] # {} => q \in L \ {n, p}
  <2> SUFFICES ASSUME NEW q \in NodeId, M[q] # {} PROVE q \in L \ {n, p}
    OBVIOUS
  <2>1. q # p /\ K[q] # {}
    BY <1>3
  <2> QED BY <2>1 DEF Forest
<1>9. Grounded(M)
  <2> SUFFICES ASSUME NEW C \in SUBSET NodeId, \A m \in C : \E q \in C : m \in M[q]
               PROVE  C = {}
    BY DEF Grounded
  <2> DEFINE B == C \cup (IF s \in C THEN {p} ELSE {})
  <2>1. \A m \in B : \E q \in B : m \in K[q]
    <3> SUFFICES ASSUME NEW m \in B PROVE \E q \in B : m \in K[q]
      OBVIOUS
    <3>1. ASSUME s \in C PROVE \E q \in C : p \in K[q]
      <4>1. PICK q \in C : s \in M[q]
        BY <3>1
      <4> QED BY <4>1, <1>1, <1>3
    <3>2. CASE m = s /\ s \in C
      BY <3>2
    <3>3. CASE m = p /\ s \in C
      BY <3>1, <3>3
    <3>4. CASE m \in C /\ m # s
      BY <3>4, <1>3
    <3> QED BY <3>2, <3>3, <3>4
  <2>2. B \in SUBSET NodeId
    OBVIOUS
  <2>3. B = {}
    <3> HIDE DEF B
    <3> QED BY <2>1, <2>2 DEF Forest, Grounded
  <2> QED BY <2>3
<1> QED BY <1>4, <1>5, <1>6, <1>7, <1>8, <1>9 DEF Forest

\* A new output, with one new root.
OneMore(D, E, d, H, J, x) ==
    d \notin D /\ E = D \cup {d} /\ (\A p \in D : J[p] = H[p]) /\ J[d] = {x}

\* One more output with a new node of its own keeps the forest.
LEMMA OutputAdded ==
    ASSUME NEW D, NEW d, NEW E,
           NEW H \in Family(D), NEW J \in Family(E), NEW K \in Family(NodeId),
           NEW L, Forest(H, K, L), NEW x \in NodeId, x \notin L,
           OneMore(D, E, d, H, J, x), NEW N, N = L \cup {x}
    PROVE  Forest(J, K, N)
<1> USE DEF Forest, Family, OneMore
<1>1. \A p \in D : x \notin H[p]
  OBVIOUS
<1>2. \A p \in NodeId : x \notin K[p]
  OBVIOUS
<1>3. \A p, q \in E : J[p] \cap J[q] # {} => p = q
  BY <1>1
<1>4. \A p \in E, q \in NodeId : J[p] \cap K[q] = {}
  BY <1>2
<1>5. \A n \in NodeId :
        n \in N <=> (\E p \in E : n \in J[p]) \/ (\E p \in NodeId : n \in K[p])
  OBVIOUS
<1> QED BY <1>3, <1>4, <1>5

\* The nodes R go: all the roots of output o, and all below what goes.
WholeTree(H, K, o, R) ==
    /\ H[o] \subseteq R
    /\ \A n \in R : K[n] \subseteq R
    /\ \A n \in R : n \in H[o] \/ \E p \in R : n \in K[p]
Renumbers(D, E, H, J, o, f) ==
    /\ \A p, q \in E : f[p] = f[q] => p = q
    /\ \A d \in D : d # o => \E p \in E : f[p] = d
    /\ \A p \in E : f[p] # o /\ J[p] = H[f[p]]
Cut(K, M, R) == \A n \in NodeId : M[n] = IF n \in R THEN {} ELSE K[n]

\* Taking an output away with every node under its entries keeps the forest.
LEMMA TreeDropped ==
    ASSUME NEW D, NEW E, NEW H \in Family(D), NEW J \in Family(E),
           NEW K \in Family(NodeId), NEW M \in Family(NodeId), NEW L, Forest(H, K, L),
           NEW o \in D, NEW R \in SUBSET NodeId, WholeTree(H, K, o, R),
           NEW f \in [E -> D], Renumbers(D, E, H, J, o, f), Cut(K, M, R),
           NEW N, N = L \ R
    PROVE  Forest(J, M, N)
<1> USE DEF Family, WholeTree, Renumbers, Cut
<1>1. \A n \in NodeId \ R : K[n] \cap R = {}
  BY DEF Forest
<1>2. \A d \in D : d # o => H[d] \cap R = {}
  BY DEF Forest
<1>3. \A p, q \in E : J[p] \cap J[q] # {} => p = q
  BY DEF Forest
<1>4. \A p, q \in NodeId : M[p] \cap M[q] # {} => p = q
  BY DEF Forest
<1>5. \A p \in E, q \in NodeId : J[p] \cap M[q] = {}
  BY DEF Forest
<1>6. ASSUME NEW n \in NodeId
      PROVE  n \in L \ R <=> (\E p \in E : n \in J[p]) \/ (\E p \in NodeId : n \in M[p])
  <2>1. CASE n \in R
    BY <2>1, <1>1, <1>2
  <2>2. CASE n \notin R
    <3>1. n \in L <=> (\E d \in D : n \in H[d]) \/ (\E p \in NodeId : n \in K[p])
      BY DEF Forest
    <3>2. (\E d \in D : n \in H[d]) <=> (\E p \in E : n \in J[p])
      BY <2>2
    <3>3. (\E p \in NodeId : n \in K[p]) <=> (\E p \in NodeId : n \in M[p])
      BY <2>2
    <3> QED BY <3>1, <3>2, <3>3, <2>2
  <2> QED BY <2>1, <2>2
<1>7. \A p \in NodeId : M[p] # {} => p \in L \ R
  BY DEF Forest
<1>8. Grounded(M)
  BY FewerChildren DEF Forest
<1> QED BY <1>3, <1>4, <1>5, <1>6, <1>7, <1>8 DEF Forest

-----------------------------------------------------------------------------
(* The tree of a state.                                                    *)

Tops      == [o \in DOMAIN outputs |-> ToSet(outputs[o].huts)]
Below     == [n \in NodeId |-> ToSet(children[n])]
LiveNodes == {n \in NodeId : kind[n] # "none"}

\* The lists of the outputs and of the wrappers are a forest over the nodes that
\* are there, none of them names a node twice, and the keys follow the children.
TreeInv ==
    /\ Forest(Tops, Below, LiveNodes)
    /\ \A o \in DOMAIN outputs : IsInjective(outputs[o].huts)
    /\ \A n \in NodeId : IsInjective(children[n])
    /\ KeyedByChildren

\* Under: everything the children lead to, which takes at most MaxNodes steps.
Nearer(N) == N \cup (UNION {ToSet(children[n]) : n \in N})

\* Under (all_ids_under) is what the recursion reaches in MaxNodes steps.
LEMMA UnderSteps ==
    ASSUME children \in [NodeId -> Seq(NodeId)], NEW top \in NodeId
    PROVE  \E f \in [0..MaxNodes -> SUBSET NodeId] :
             /\ f[0] = {top}
             /\ \A k \in 1..MaxNodes : f[k] = Nearer(f[k - 1])
             /\ Under(top) = f[MaxNodes]
<1> DEFINE T == SUBSET NodeId
           c == {top}
           G == [N \in T |-> Nearer(N)]
           Def(g) == [k \in 0..MaxNodes |-> IF k = 0 THEN c ELSE Nearer(g[k - 1])]
           h == CHOOSE g : g = Def(g)
<1>1. Under(top) = h[MaxNodes]
  BY DEF Under, Nearer
<1>2. \A N \in T : Nearer(N) \in T
  BY DEF ToSet, Nearer
<1>3. MaxNodes \in Nat /\ c \in T /\ c = {top}
  BY BoundsAssumption
<1> HIDE DEF T, c
<1>4. G \in [T -> T]
  BY <1>2
<1>5. HasIterates(T, c, G, MaxNodes)
  <2> HIDE DEF G
  <2> QED BY <1>3, <1>4, Iterated
<1>6. PICK f \in [0..MaxNodes -> T] :
         f[0] = c /\ \A k \in 1..MaxNodes : f[k] = Nearer(f[k - 1])
  <2>1. PICK f \in [0..MaxNodes -> T] :
           f[0] = c /\ \A k \in 1..MaxNodes : f[k] = G[f[k - 1]]
    BY <1>5 DEF HasIterates
  <2>2. ASSUME NEW k \in 1..MaxNodes PROVE f[k] = Nearer(f[k - 1])
    <3>1. f[k - 1] \in T /\ f[k] = G[f[k - 1]]
      BY <2>1, <1>3
    <3> QED BY <3>1
  <2> QED BY <2>1, <2>2
<1>7. f = Def(f)
  BY <1>3, <1>6
<1> HIDE DEF h
<1>8. h = Def(h)
  <2> HIDE DEF Def
  <2> QED BY <1>7 DEF h
<1>9. h[0] = c /\ \A k \in 1..MaxNodes : h[k] = Nearer(h[k - 1])
  <2>1. \A k \in 0..MaxNodes : Def(h)[k] = IF k = 0 THEN c ELSE Nearer(h[k - 1])
    OBVIOUS
  <2>2. \A k \in 0..MaxNodes : h[k] = IF k = 0 THEN c ELSE Nearer(h[k - 1])
    <3> HIDE DEF Def
    <3> QED BY <1>8, <2>1
  <2> QED BY <1>3, <2>2
<1>10. h \in [0..MaxNodes -> T]
  <2> DEFINE S == {k \in Nat : k \in 0..MaxNodes => h[k] \in T}
  <2>1. 0 \in S
    BY <1>3, <1>9
  <2>2. ASSUME NEW k \in Nat, k \in S PROVE k + 1 \in S
    <3> SUFFICES ASSUME k + 1 \in 0..MaxNodes PROVE h[k + 1] \in T
      OBVIOUS
    <3>1. h[k] \in T /\ k + 1 \in 1..MaxNodes /\ (k + 1) - 1 = k
      BY <2>2, <1>3
    <3>2. h[k + 1] = Nearer(h[k])
      BY <1>9, <3>1
    <3> QED BY <3>1, <3>2, <1>2
  <2> HIDE DEF S
  <2>3. Nat \subseteq S
    BY <2>1, <2>2, NatSetInduction
  <2>4. \A k \in 0..MaxNodes : h[k] \in T
    BY <2>3, <1>3 DEF S
  <2>5. h = [k \in 0..MaxNodes |-> h[k]]
    BY <1>8
  <2> QED BY <2>4, <2>5
<1> QED BY <1>1, <1>3, <1>9, <1>10 DEF T

\* Under(top) holds top and the children of what it holds, and nothing else.
LEMMA UnderFacts ==
    ASSUME children \in [NodeId -> Seq(NodeId)], NEW top \in NodeId
    PROVE  /\ top \in Under(top) /\ Under(top) \subseteq NodeId
           /\ \A n \in Under(top) : ToSet(children[n]) \subseteq Under(top)
           /\ \A n \in Under(top) : n = top \/ \E p \in Under(top) : n \in ToSet(children[p])
<1>1. PICK f \in [0..MaxNodes -> SUBSET NodeId] :
             /\ f[0] = {top}
             /\ \A k \in 1..MaxNodes : f[k] = Nearer(f[k - 1])
             /\ Under(top) = f[MaxNodes]
  BY UnderSteps
<1>2. MaxNodes \in Nat /\ IsFiniteSet(NodeId) /\ Cardinality(NodeId) = MaxNodes
  BY BoundsAssumption, FS_Interval DEF NodeId
<1> DEFINE Closed(N) == \A n \in N : ToSet(children[n]) \subseteq N
           Rooted(N) == top \in N /\ \A n \in N : n = top \/ \E p \in N : n \in ToSet(children[p])
           S == {k \in Nat : k \in 0..MaxNodes =>
                   Rooted(f[k]) /\ (Closed(f[k]) \/ Cardinality(f[k]) >= k + 1)}
<1>3. 0 \in S
  <2>1. Cardinality(f[0]) = 1
    BY <1>1, FS_Singleton
  <2>2. Rooted(f[0])
    BY <1>1
  <2> QED BY <2>1, <2>2
<1>4. ASSUME NEW k \in Nat, k \in S PROVE k + 1 \in S
  <2> SUFFICES ASSUME k + 1 \in 0..MaxNodes
               PROVE  Rooted(f[k + 1]) /\ (Closed(f[k + 1]) \/ Cardinality(f[k + 1]) >= k + 2)
    OBVIOUS
  <2>1. k \in 0..MaxNodes /\ k + 1 \in 1..MaxNodes /\ (k + 1) - 1 = k
    BY <1>2
  <2>2. f[k + 1] = f[k] \cup (UNION {ToSet(children[n]) : n \in f[k]})
    BY <1>1, <2>1 DEF Nearer
  <2>3. Rooted(f[k]) /\ (Closed(f[k]) \/ Cardinality(f[k]) >= k + 1)
    BY <1>4, <2>1
  <2>4. Rooted(f[k + 1])
    BY <2>2, <2>3
  <2>5. CASE Closed(f[k])
    <3>1. f[k + 1] = f[k]
      BY <2>2, <2>5
    <3> QED BY <3>1, <2>4, <2>5
  <2>6. CASE ~Closed(f[k])
    <3>1. f[k] \subseteq f[k + 1] /\ f[k] # f[k + 1] /\ f[k + 1] \in SUBSET NodeId
      BY <2>1, <2>2, <2>6
    <3>2. /\ IsFiniteSet(f[k + 1])
          /\ Cardinality(f[k + 1]) \in Nat
      BY <3>1, <1>2, FS_Subset, FS_CardinalityType
    <3>3. /\ Cardinality(f[k]) <= Cardinality(f[k + 1])
          /\ Cardinality(f[k]) # Cardinality(f[k + 1])
          /\ Cardinality(f[k]) \in Nat
      BY <3>1, <3>2, FS_Subset, FS_CardinalityType
    <3>4. Cardinality(f[k]) >= k + 1
      BY <2>3, <2>6
    <3>5. Cardinality(f[k + 1]) >= k + 2
      BY <3>2, <3>3, <3>4
    <3> QED BY <3>5, <2>4
  <2> QED BY <2>5, <2>6
<1>5. MaxNodes \in S
  <2> HIDE DEF S
  <2> QED BY <1>2, <1>3, <1>4, NatSetInduction
<1>6. Cardinality(f[MaxNodes]) <= MaxNodes
  <2>1. f[MaxNodes] \in SUBSET NodeId
    BY <1>2
  <2> QED BY <2>1, <1>2, FS_Subset
<1>7. Cardinality(f[MaxNodes]) \in Nat
  <2>1. f[MaxNodes] \in SUBSET NodeId
    BY <1>2
  <2> QED BY <2>1, <1>2, FS_Subset, FS_CardinalityType
<1>8. Rooted(f[MaxNodes]) /\ Closed(f[MaxNodes])
  BY <1>2, <1>5, <1>6, <1>7
<1>9. f[MaxNodes] \subseteq NodeId
  BY <1>2
<1> QED BY <1>1, <1>8, <1>9

\* FocusedPath: the walk along the focused children from an entry, to its end.
Follow(s) == s \o FocusedChild(Last(s))

Chained(s, top) ==
    /\ s \in Seq(NodeId) /\ Len(s) >= 1 /\ s[1] = top
    /\ \A i \in 1..(Len(s) - 1) : FocusedChild(s[i]) = <<s[i + 1]>>

\* The focused child of a node is one of its children, if there is one.
LEMMA FocusedChildFacts ==
    ASSUME children \in [NodeId -> Seq(NodeId)], NEW n \in NodeId
    PROVE  \/ FocusedChild(n) = <<>>
           \/ \E m \in NodeId : m \in ToSet(children[n]) /\ FocusedChild(n) = <<m>>
<1>1. children[n] \in Seq(NodeId)
  OBVIOUS
<1>2. ASSUME active[n] \in DOMAIN children[n]
      PROVE  children[n][active[n]] \in NodeId /\ children[n][active[n]] \in ToSet(children[n])
  BY <1>1, <1>2 DEF ToSet
<1> QED BY <1>2 DEF FocusedChild

\* One more step down the focused children keeps a chain a chain.
LEMMA FollowFacts ==
    ASSUME children \in [NodeId -> Seq(NodeId)], NEW top, NEW s, Chained(s, top)
    PROVE  /\ Chained(Follow(s), top)
           /\ FocusedChild(Last(s)) = <<>> => Follow(s) = s
           /\ FocusedChild(Last(s)) # <<>> => Len(Follow(s)) = Len(s) + 1
<1>1. s \in Seq(NodeId) /\ Len(s) \in Nat \ {0} /\ Last(s) = s[Len(s)] /\ Last(s) \in NodeId
  BY DEF Chained, Last
<1>2. CASE FocusedChild(Last(s)) = <<>>
  <2>1. Follow(s) = s
    BY <1>1, <1>2 DEF Follow
  <2> QED BY <1>2, <2>1
<1>3. CASE FocusedChild(Last(s)) # <<>>
  <2>1. PICK m \in NodeId : FocusedChild(Last(s)) = <<m>>
    BY <1>1, <1>3, FocusedChildFacts
  <2> DEFINE t == s \o <<m>>
  <2>2. /\ t \in Seq(NodeId) /\ Len(t) = Len(s) + 1
        /\ \A i \in 1..Len(s) : t[i] = s[i]
        /\ t[Len(s) + 1] = m
    BY <1>1, <2>1
  <2>3. Follow(s) = t
    BY <2>1 DEF Follow
  <2> HIDE DEF t
  <2>4. Chained(t, top)
    <3>1. t[1] = top
      BY <1>1, <2>2 DEF Chained
    <3>2. ASSUME NEW i \in 1..(Len(t) - 1) PROVE FocusedChild(t[i]) = <<t[i + 1]>>
      <4>1. CASE i = Len(s)
        BY <4>1, <1>1, <2>1, <2>2
      <4>2. CASE i # Len(s)
        <5>1. i \in 1..(Len(s) - 1) /\ t[i] = s[i] /\ t[i + 1] = s[i + 1]
          BY <4>2, <1>1, <2>2
        <5> QED BY <5>1 DEF Chained
      <4> QED BY <4>1, <4>2
    <3> QED BY <3>1, <3>2, <1>1, <2>2 DEF Chained
  <2> QED BY <1>3, <2>2, <2>3, <2>4
<1> QED BY <1>2, <1>3

\* The focused path is a chain that ends where no child is focused, or at the bound.
LEMMA PathSteps ==
    ASSUME children \in [NodeId -> Seq(NodeId)], NEW top \in NodeId
    PROVE  /\ Chained(FocusedPath(top), top)
           /\ \/ FocusedChild(FocusedLeaf(top)) = <<>>
              \/ Len(FocusedPath(top)) = MaxNodes + 1
<1> DEFINE T == {s \in Seq(NodeId) : Chained(s, top)}
           c == <<top>>
           G == [s \in T |-> Follow(s)]
           Def(g) == [k \in 0..MaxNodes |->
                        IF k = 0 THEN c ELSE Follow(g[k - 1])]
           h == CHOOSE g : g = Def(g)
<1>1. FocusedPath(top) = h[MaxNodes]
  BY DEF FocusedPath, Follow
<1>2. \A s \in T : Follow(s) \in T
  <2> SUFFICES ASSUME NEW s, Chained(s, top) PROVE Chained(Follow(s), top) /\ Follow(s) \in Seq(NodeId)
    OBVIOUS
  <2> QED BY FollowFacts DEF Chained
<1>3. MaxNodes \in Nat /\ c \in T /\ c = <<top>> /\ Len(c) = 1
  BY BoundsAssumption DEF Chained
<1>t. \A s \in T : Chained(s, top)
  OBVIOUS
<1> HIDE DEF T, c
<1>4. G \in [T -> T]
  BY <1>2
<1>5. HasIterates(T, c, G, MaxNodes)
  <2> HIDE DEF G
  <2> QED BY <1>3, <1>4, Iterated
<1>6. PICK f \in [0..MaxNodes -> T] :
         f[0] = c /\ \A k \in 1..MaxNodes : f[k] = Follow(f[k - 1])
  <2>1. PICK f \in [0..MaxNodes -> T] :
           f[0] = c /\ \A k \in 1..MaxNodes : f[k] = G[f[k - 1]]
    BY <1>5 DEF HasIterates
  <2>2. ASSUME NEW k \in 1..MaxNodes PROVE f[k] = Follow(f[k - 1])
    <3>1. f[k - 1] \in T /\ f[k] = G[f[k - 1]]
      BY <2>1, <1>3
    <3> QED BY <3>1
  <2> QED BY <2>1, <2>2
<1>7. f = Def(f)
  <2>1. \A k \in 0..MaxNodes : f[k] = IF k = 0 THEN c ELSE Follow(f[k - 1])
    BY <1>3, <1>6
  <2>2. f = [k \in 0..MaxNodes |-> f[k]]
    OBVIOUS
  <2> QED BY <2>1, <2>2, Zenon
<1> HIDE DEF h
<1>8. h = Def(h)
  <2> HIDE DEF Def
  <2> QED BY <1>7 DEF h
<1>9. h[0] = c /\ \A k \in 1..MaxNodes : h[k] = Follow(h[k - 1])
  <2>1. \A k \in 0..MaxNodes : Def(h)[k] = IF k = 0 THEN c ELSE Follow(h[k - 1])
    OBVIOUS
  <2>2. \A k \in 0..MaxNodes : h[k] = IF k = 0 THEN c ELSE Follow(h[k - 1])
    <3> HIDE DEF Def
    <3> QED BY <1>8, <2>1
  <2> QED BY <1>3, <2>2
<1> DEFINE S == {k \in Nat : k \in 0..MaxNodes =>
                  /\ Chained(h[k], top)
                  /\ FocusedChild(Last(h[k])) = <<>> \/ Len(h[k]) = k + 1}
<1>10. 0 \in S
  <2>1. Chained(h[0], top) /\ Len(h[0]) = 0 + 1
    BY <1>3, <1>9, <1>t
  <2> QED BY <2>1
<1>11. ASSUME NEW k \in Nat, k \in S PROVE k + 1 \in S
  <2> SUFFICES ASSUME k + 1 \in 0..MaxNodes
               PROVE  /\ Chained(h[k + 1], top)
                      /\ FocusedChild(Last(h[k + 1])) = <<>> \/ Len(h[k + 1]) = k + 2
    OBVIOUS
  <2>1. k \in 0..MaxNodes /\ k + 1 \in 1..MaxNodes /\ (k + 1) - 1 = k
    BY <1>3
  <2>2. h[k + 1] = Follow(h[k])
    BY <1>9, <2>1
  <2>3. Chained(h[k], top) /\ (FocusedChild(Last(h[k])) = <<>> \/ Len(h[k]) = k + 1)
    BY <1>11, <2>1
  <2>4. /\ Chained(Follow(h[k]), top)
        /\ FocusedChild(Last(h[k])) = <<>> => Follow(h[k]) = h[k]
        /\ FocusedChild(Last(h[k])) # <<>> => Len(Follow(h[k])) = Len(h[k]) + 1
    BY <2>3, FollowFacts
  <2> QED BY <2>2, <2>3, <2>4
<1>12. MaxNodes \in S
  <2> HIDE DEF S
  <2> QED BY <1>3, <1>10, <1>11, NatSetInduction
<1> QED BY <1>1, <1>3, <1>12 DEF FocusedLeaf

\* Where there is no cycle a walk meets no node twice.
LEMMA WalkIsInjective ==
    ASSUME children \in [NodeId -> Seq(NodeId)], Grounded(Below),
           NEW top, NEW s, Chained(s, top)
    PROVE  IsInjective(s)
<1>1. s \in Seq(NodeId) /\ Len(s) \in Nat \ {0} /\ s \in [1..Len(s) -> NodeId]
  BY DEF Chained
<1>2. SUFFICES ASSUME NEW i \in 1..Len(s), NEW j \in 1..Len(s), i < j, s[i] = s[j]
               PROVE  FALSE
  BY <1>1 DEF IsInjective
<1> DEFINE C == {s[k] : k \in (i + 1)..j}
<1>3. C \in SUBSET NodeId /\ s[j] \in C
  <2>1. j \in (i + 1)..j
    BY <1>2
  <2>2. \A k \in (i + 1)..j : s[k] \in NodeId
    BY <1>1
  <2> QED BY <2>1, <2>2
<1>4. ASSUME NEW n \in C PROVE \E p \in C : n \in Below[p]
  <2>1. PICK k \in (i + 1)..j : n = s[k]
    OBVIOUS
  <2>2. s[k - 1] \in C
    BY <1>2
  <2>3. k - 1 \in 1..(Len(s) - 1) /\ (k - 1) + 1 = k
    BY <1>1
  <2>4. s[k - 1] \in NodeId
    BY <1>1, <2>3
  <2>5. FocusedChild(s[k - 1]) = <<s[k]>>
    BY <2>3 DEF Chained
  <2>6. PICK m \in NodeId : m \in ToSet(children[s[k - 1]]) /\ FocusedChild(s[k - 1]) = <<m>>
    <3>1. FocusedChild(s[k - 1]) # <<>>
      <4>1. Len(<<s[k]>>) = 1 /\ Len(<<>>) = 0
        OBVIOUS
      <4> QED BY <2>5, <4>1
    <3> QED BY <2>4, <3>1, FocusedChildFacts
  <2>7. m = s[k]
    BY <2>5, <2>6
  <2>8. s[k] \in Below[s[k - 1]]
    BY <2>4, <2>6, <2>7 DEF Below
  <2> QED BY <2>1, <2>2, <2>8
<1> HIDE DEF C
<1>5. C = {}
  BY <1>3, <1>4 DEF Grounded
<1> QED BY <1>3, <1>5

\* A list that names no node twice is no longer than there are nodes.
LEMMA ShortList ==
    ASSUME NEW s \in Seq(NodeId), IsInjective(s)
    PROVE  DOMAIN s \subseteq NodeId /\ Len(s) <= MaxNodes
<1>1. MaxNodes \in Nat /\ IsFiniteSet(NodeId) /\ Cardinality(NodeId) = MaxNodes
  BY BoundsAssumption, FS_Interval DEF NodeId
<1>2. Len(s) \in Nat /\ DOMAIN s = 1..Len(s) /\ s \in [1..Len(s) -> NodeId]
  OBVIOUS
<1>3. IsFiniteSet(1..Len(s)) /\ Cardinality(1..Len(s)) = Len(s)
  BY <1>2, FS_Interval
<1>4. ASSUME Len(s) > MaxNodes PROVE FALSE
  <2>1. Cardinality(NodeId) < Cardinality(1..Len(s))
    BY <1>1, <1>2, <1>3, <1>4
  <2>2. \E x, y \in 1..Len(s) : x # y /\ s[x] = s[y]
    BY <1>1, <1>2, <1>3, <2>1, FS_PigeonHole
  <2> QED BY <1>2, <2>2 DEF IsInjective
<1> QED BY <1>1, <1>2, <1>4 DEF NodeId

\* Where there is no cycle the walk is over before the bound.
LEMMA PathEnds ==
    ASSUME children \in [NodeId -> Seq(NodeId)], Grounded(Below), NEW top \in NodeId
    PROVE  FocusedChild(FocusedLeaf(top)) = <<>> /\ FocusedLeaf(top) \in NodeId
<1> DEFINE s == FocusedPath(top)
<1>1. Chained(s, top) /\ (FocusedChild(FocusedLeaf(top)) = <<>> \/ Len(s) = MaxNodes + 1)
  BY PathSteps
<1>2. FocusedLeaf(top) = s[Len(s)]
  BY DEF FocusedLeaf, Last
<1> HIDE DEF s
<1>3. s \in Seq(NodeId) /\ Len(s) \in Nat \ {0} /\ MaxNodes \in Nat
  BY <1>1, BoundsAssumption DEF Chained
<1>4. Len(s) <= MaxNodes
  BY <1>1, <1>3, WalkIsInjective, ShortList
<1> QED BY <1>1, <1>2, <1>3, <1>4

\* Every node of a walk from a live one is live, and the last is a console.
LEMMA WalkFacts ==
    ASSUME IInv, TreeInv, NEW top \in LiveNodes
    PROVE  /\ Chained(FocusedPath(top), top)
           /\ \A i \in DOMAIN FocusedPath(top) : FocusedPath(top)[i] \in LiveNodes
           /\ \A i \in 1..(Len(FocusedPath(top)) - 1) :
                FocusedPath(top)[i + 1] \in ToSet(children[FocusedPath(top)[i]])
           /\ FocusedLeaf(top) = FocusedPath(top)[Len(FocusedPath(top))]
           /\ kind[FocusedLeaf(top)] = "console"
<1>1. /\ children \in [NodeId -> Seq(NodeId)] /\ top \in NodeId
      /\ kind \in [NodeId -> Kinds] /\ WrappersArePairs
  BY DEF IInv, TypeOK, GraphInv, LiveNodes
<1>2. Forest(Tops, Below, LiveNodes)
  BY DEF TreeInv
<1>3. FocusedChild(FocusedLeaf(top)) = <<>> /\ FocusedLeaf(top) \in NodeId
  BY <1>1, <1>2, PathEnds DEF Forest
<1> DEFINE s == FocusedPath(top)
<1>4. Chained(s, top) /\ FocusedLeaf(top) = s[Len(s)]
  BY <1>1, PathSteps DEF FocusedLeaf, Last
<1> HIDE DEF s
<1>5. s \in Seq(NodeId) /\ Len(s) \in Nat \ {0} /\ s[1] = top /\ DOMAIN s = 1..Len(s)
      /\ \A i \in 1..Len(s) : s[i] \in NodeId
  BY <1>4 DEF Chained
<1>6. ASSUME NEW i \in 1..(Len(s) - 1)
      PROVE  s[i + 1] \in ToSet(children[s[i]]) /\ s[i + 1] \in LiveNodes
  <2>1. s[i] \in NodeId /\ s[i + 1] \in NodeId
    BY <1>5
  <2>2. FocusedChild(s[i]) = <<s[i + 1]>>
    BY <1>4 DEF Chained
  <2>3. FocusedChild(s[i]) # <<>>
    <3>1. Len(<<s[i + 1]>>) = 1 /\ Len(<<>>) = 0
      OBVIOUS
    <3> QED BY <2>2, <3>1
  <2>4. PICK m \in NodeId : m \in ToSet(children[s[i]]) /\ FocusedChild(s[i]) = <<m>>
    BY <1>1, <2>1, <2>3, FocusedChildFacts
  <2>5. s[i + 1] \in ToSet(children[s[i]])
    BY <2>2, <2>4
  <2>6. s[i + 1] \in Below[s[i]]
    BY <2>1, <2>5 DEF Below
  <2> QED BY <1>2, <2>1, <2>5, <2>6 DEF Forest
<1>7. ASSUME NEW i \in 1..Len(s) PROVE s[i] \in LiveNodes
  <2>1. CASE i = 1
    BY <1>5, <2>1
  <2>2. CASE i # 1
    <3>1. i - 1 \in 1..(Len(s) - 1) /\ (i - 1) + 1 = i
      BY <1>5, <2>2
    <3> QED BY <1>6, <3>1
  <2> QED BY <2>1, <2>2
<1>8. kind[FocusedLeaf(top)] \notin Wrappers
  <2> DEFINE leaf == FocusedLeaf(top)
  <2> SUFFICES ASSUME kind[leaf] \in Wrappers PROVE FALSE
    OBVIOUS
  <2>1. leaf \in NodeId /\ FocusedChild(leaf) = <<>>
    BY <1>3
  <2> HIDE DEF leaf
  <2>2. Len(children[leaf]) = 2 /\ active[leaf] \in 1..2 /\ children[leaf] \in Seq(NodeId)
    BY <1>1, <2>1 DEF WrappersArePairs
  <2>3. FocusedChild(leaf) = <<children[leaf][active[leaf]]>>
    BY <2>2 DEF FocusedChild
  <2>4. Len(<<children[leaf][active[leaf]]>>) = 1 /\ Len(<<>>) = 0
    OBVIOUS
  <2> QED BY <2>1, <2>3, <2>4
<1>9. kind[FocusedLeaf(top)] = "console"
  <2>1. FocusedLeaf(top) \in LiveNodes
    BY <1>4, <1>5, <1>7
  <2> QED BY <1>1, <1>8, <2>1 DEF LiveNodes, Kinds, Wrappers
<1> QED BY <1>4, <1>5, <1>6, <1>7, <1>9 DEF s

\* The entries of an output are live.
LEMMA EntriesLive ==
    ASSUME IInv, TreeInv, NEW o \in DOMAIN outputs, NEW i \in DOMAIN outputs[o].huts
    PROVE  /\ outputs[o].huts[i] \in LiveNodes
           /\ outputs[o].huts[i] \in ToSet(outputs[o].huts)
           /\ outputs[o].huts \in Seq(NodeId)
<1>1. outputs[o].huts \in Seq(NodeId)
  BY Halves, FocusedSlot DEF SlotHalf
<1>2. outputs[o].huts[i] \in Tops[o] /\ outputs[o].huts[i] \in NodeId
  BY <1>1 DEF Tops, ToSet
<1>3. Forest(Tops, Below, LiveNodes) /\ DOMAIN Tops = DOMAIN outputs
  BY DEF TreeInv, Tops
<1>4. outputs[o].huts[i] \in LiveNodes
  BY <1>2, <1>3 DEF Forest
<1> QED BY <1>1, <1>2, <1>4 DEF Tops

\* In a forest of pairs and consoles the focused path ends at a console.
LEMMA FocusIsAConsole == IInv /\ TreeInv => FocusReachesConsole
<1> SUFFICES ASSUME IInv, TreeInv, NEW o \in DOMAIN outputs, InRange(o)
             PROVE  kind[FocusedHut(o)] = "console"
  BY DEF FocusReachesConsole
<1>1. TopLevel(o) \in LiveNodes
  BY EntriesLive DEF InRange, TopLevel
<1> QED BY <1>1, WalkFacts DEF FocusedHut

-----------------------------------------------------------------------------
(* Each handler keeps the tree.                                            *)

\* What the type invariant says of the tree, in the terms of the forest.
LEMMA TreeTypes ==
    ASSUME IInv
    PROVE  /\ kind \in [NodeId -> Kinds] /\ children \in [NodeId -> Seq(NodeId)]
           /\ keyed \in [NodeId -> SUBSET NodeId] /\ nextId \in Nat \ {0}
           /\ outputs \in Seq(Slots) /\ focusedOutput \in DOMAIN outputs
           /\ Below \in Family(NodeId) /\ Tops \in Family(DOMAIN outputs)
           /\ \A o \in DOMAIN outputs : outputs[o].huts \in Seq(NodeId)
           /\ WrappersArePairs
<1>1. /\ kind \in [NodeId -> Kinds] /\ children \in [NodeId -> Seq(NodeId)]
      /\ keyed \in [NodeId -> SUBSET NodeId] /\ nextId \in Nat \ {0}
      /\ outputs \in Seq(Slots) /\ focusedOutput \in DOMAIN outputs
      /\ WrappersArePairs
  BY DEF IInv, TypeOK, GraphInv
<1>2. \A o \in DOMAIN outputs : outputs[o].huts \in Seq(NodeId)
  BY Halves, FocusedSlot
<1>3. \A n \in NodeId : ToSet(children[n]) \in SUBSET NodeId
  BY <1>1 DEF ToSet
<1>4. \A o \in DOMAIN outputs : ToSet(outputs[o].huts) \in SUBSET NodeId
  BY <1>2 DEF ToSet
<1>5. Below \in Family(NodeId)
  BY <1>3 DEF Below, Family
<1>6. Tops \in Family(DOMAIN outputs)
  BY <1>4 DEF Tops, Family
<1> QED BY <1>1, <1>2, <1>5, <1>6

\* The keys of one node, from its kind, its keys and its children.
KeysFollow(kd, keys, list) ==
    /\ kd = "tile" => keys = ToSet(list)
    /\ kd = "tab" => keys \subseteq ToSet(list)
    /\ kd \notin Wrappers => keys = {}

\* KeyedByChildren, node by node.
LEMMA KeyedPointwise ==
    KeyedByChildren <=> \A n \in NodeId : KeysFollow(kind[n], keyed[n], children[n])
  BY DEF KeyedByChildren, KeysFollow, Wrappers

\* KeyedByChildren after a step, node by node.
LEMMA KeyedPointwiseNext ==
    KeyedByChildren' <=> \A n \in NodeId : KeysFollow(kind'[n], keyed'[n], children'[n])
  BY DEF KeyedByChildren, KeysFollow, Wrappers

\* A step that leaves nodes, children and entries alone.
LEMMA SameTree ==
    ASSUME IInv, TreeInv, kind' = kind, children' = children,
           DOMAIN outputs' = DOMAIN outputs,
           \A o \in DOMAIN outputs : outputs'[o].huts = outputs[o].huts,
           KeyedByChildren'
    PROVE  TreeInv'
<1>1. Below' = Below /\ LiveNodes' = LiveNodes
  BY DEF Below, LiveNodes
<1>2. Tops' = Tops
  BY DEF Tops
<1> QED BY <1>1, <1>2, Zenon DEF TreeInv

\* A step that takes at most one console out of an output's list and puts at
\* most one fresh one in, in whatever order the list is then.
ListChange(o, gone, come) ==
    /\ gone = {} \/ \E x \in Tops[o] : gone = {x} /\ kind[x] = "console"
    /\ come = {} \/ come = {nextId}
    /\ \A n \in NodeId : kind'[n] = IF n \in gone THEN "none"
                                     ELSE IF n \in come THEN "console" ELSE kind[n]
    /\ \A n \in NodeId : children'[n] = IF n \in gone THEN <<>> ELSE children[n]
    /\ \A n \in NodeId : keyed'[n] = IF n \in gone THEN {} ELSE keyed[n]
    /\ DOMAIN outputs' = DOMAIN outputs
    /\ \A p \in DOMAIN outputs : p # o => outputs'[p].huts = outputs[p].huts
    /\ IsInjective(outputs'[o].huts)
    /\ ToSet(outputs'[o].huts) = (ToSet(outputs[o].huts) \ gone) \cup come

\* A step that changes one output's list by single nodes keeps the tree sound.
LEMMA ListStep ==
    ASSUME IInv, IInv', TreeInv, NEW o \in DOMAIN outputs,
           NEW gone \in SUBSET NodeId, NEW come \in SUBSET NodeId,
           ListChange(o, gone, come)
    PROVE  TreeInv'
<1> USE DEF ListChange
<1>t. /\ kind \in [NodeId -> Kinds] /\ children \in [NodeId -> Seq(NodeId)]
      /\ nextId \in Nat \ {0} /\ WrappersArePairs
      /\ Below \in Family(NodeId) /\ Tops \in Family(DOMAIN outputs)
  BY TreeTypes
<1>1. Forest(Tops, Below, LiveNodes) /\ KeyedByChildren
  BY DEF TreeInv
<1>2. \A n \in gone : kind[n] = "console" /\ children[n] = <<>> /\ Below[n] = {}
  <2> SUFFICES ASSUME NEW n \in gone PROVE kind[n] = "console" /\ children[n] = <<>> /\ Below[n] = {}
    OBVIOUS
  <2>1. kind[n] = "console" /\ n \in NodeId
    OBVIOUS
  <2>2. children[n] = <<>>
    BY <1>t, <2>1 DEF WrappersArePairs, Wrappers
  <2> QED BY <2>1, <2>2 DEF Below, ToSet
<1>3. \A n \in come : kind[n] = "none" /\ children[n] = <<>>
  <2> SUFFICES ASSUME NEW n \in come PROVE kind[n] = "none" /\ children[n] = <<>>
    OBVIOUS
  <2>1. n = nextId /\ n \in NodeId
    OBVIOUS
  <2>2. kind[n] = "none"
    BY <1>t, <2>1 DEF IInv, GraphInv
  <2> QED BY <1>t, <2>1, <2>2 DEF WrappersArePairs, Wrappers
<1>4. children' = children
  <2>1. children' \in [NodeId -> Seq(NodeId)]
    BY DEF IInv, TypeOK
  <2>2. \A n \in NodeId : children'[n] = children[n]
    BY <1>2
  <2> QED BY <1>t, <2>1, <2>2
<1>5. Below' = Below
  BY <1>4 DEF Below
<1>6. LiveNodes' = (LiveNodes \ gone) \cup come
  BY <1>2, <1>3 DEF LiveNodes
<1> DEFINE D == DOMAIN outputs
           H == [p \in D |-> IF p = o THEN Tops[p] \ gone ELSE Tops[p]]
<1>7. H \in Family(D) /\ \A p \in D : H[p] = IF p = o THEN Tops[p] \ gone ELSE Tops[p]
  BY <1>t DEF Family
<1>d. o \in D /\ Tops \in Family(D) /\ Below \in Family(NodeId)
  BY <1>t
<1> HIDE DEF H, D
<1>8. Forest(H, Below, LiveNodes \ gone)
  <2>1. CASE gone = {}
    <3>1. H = Tops
      BY <2>1, <1>7, <1>d DEF Family
    <3>2. LiveNodes \ gone = LiveNodes
      BY <2>1
    <3> QED BY <1>1, <3>1, <3>2
  <2>2. ASSUME NEW x \in Tops[o], gone = {x}, kind[x] = "console"
        PROVE  Forest(H, Below, LiveNodes \ gone)
    <3>1. Below[x] = {}
      BY <1>2, <2>2
    <3>2. DropsRoot(D, Tops, H, o, x)
      BY <1>7, <2>2 DEF DropsRoot
    <3>4. x \in NodeId
      BY <2>2
    <3> DEFINE N == LiveNodes \ {x}
    <3>5. N = LiveNodes \ {x}
      OBVIOUS
    <3> HIDE DEF N
    <3>3. Forest(H, Below, N)
      BY <3>5, <1>1, <1>7, <1>d, <2>2, <3>1, <3>2, <3>4, RootDropped
    <3> QED BY <2>2, <3>3, <3>5
  <2> QED BY <2>1, <2>2
<1>9. /\ Tops' \in Family(D)
      /\ \A p \in D : Tops'[p] = IF p = o THEN H[p] \cup come ELSE H[p]
  <2>1. \A p \in D : Tops'[p] = ToSet(outputs'[p].huts) /\ Tops[p] = ToSet(outputs[p].huts)
    BY DEF Tops, D
  <2>5. \A p \in D : p # o => Tops'[p] = Tops[p]
    BY <2>1 DEF D
  <2>6. Tops'[o] = (Tops[o] \ gone) \cup come
    BY <2>1, <1>d
  <2>2. \A p \in D : Tops'[p] = IF p = o THEN H[p] \cup come ELSE H[p]
    BY <1>7, <1>d, <2>5, <2>6
  <2>3. Tops' = [p \in D |-> Tops'[p]]
    BY DEF Tops, D
  <2>4. \A p \in D : Tops'[p] \in SUBSET NodeId
    BY <1>7, <2>2 DEF Family
  <2> QED BY <2>2, <2>3, <2>4 DEF Family
<1>10. Forest(Tops', Below', LiveNodes')
  <2>1. CASE come = {}
    <3>1. Tops' = H
      BY <2>1, <1>7, <1>9 DEF Family
    <3>2. LiveNodes' = LiveNodes \ gone
      BY <2>1, <1>6
    <3> QED BY <1>5, <1>8, <3>1, <3>2
  <2>2. CASE come = {nextId}
    <3>1. nextId \in NodeId /\ nextId \notin LiveNodes \ gone
      BY <2>2, <1>3 DEF LiveNodes
    <3>2. \A p \in D : Tops'[p] = IF p = o THEN H[p] \cup {nextId} ELSE H[p]
      BY <2>2, <1>9
    <3> DEFINE L == LiveNodes \ gone
               J == Tops'
               N == L \cup {nextId}
    <3>4. Forest(H, Below, L) /\ nextId \in NodeId /\ nextId \notin L /\ J \in Family(D)
          /\ AddsRoot(D, H, J, o, nextId)
      BY <1>8, <1>9, <3>1, <3>2 DEF AddsRoot
    <3>6. N = L \cup {nextId}
      OBVIOUS
    <3> HIDE DEF L, J, N
    <3>5. Forest(J, Below, N)
      BY <3>6, <1>7, <1>d, <3>4, RootAdded
    <3>3. Forest(Tops', Below, (LiveNodes \ gone) \cup {nextId})
      BY <3>5, <3>6 DEF L, J
    <3> QED BY <1>5, <1>6, <2>2, <3>3
  <2> QED BY <2>1, <2>2
<1>11. (\A p \in DOMAIN outputs : IsInjective(outputs[p].huts))'
  BY DEF TreeInv
<1>12. (\A n \in NodeId : IsInjective(children[n]))'
  BY <1>4 DEF TreeInv
<1>13. KeyedByChildren'
  <2> SUFFICES ASSUME NEW n \in NodeId
               PROVE  KeysFollow(kind'[n], keyed'[n], children'[n])
    BY KeyedPointwiseNext
  <2>0. KeysFollow(kind[n], keyed[n], children[n])
    BY <1>1, KeyedPointwise
  <2>1. CASE n \in gone
    <3>1. kind'[n] = "none" /\ keyed'[n] = {}
      BY <2>1
    <3> QED BY <3>1 DEF KeysFollow, Wrappers
  <2>2. CASE n \notin gone /\ n \in come
    <3>1. kind'[n] = "console" /\ keyed'[n] = keyed[n] /\ kind[n] = "none"
      BY <2>2, <1>3
    <3> QED BY <3>1, <2>0 DEF KeysFollow, Wrappers
  <2>3. CASE n \notin gone /\ n \notin come
    <3>1. kind'[n] = kind[n] /\ keyed'[n] = keyed[n] /\ children'[n] = children[n]
      BY <2>3
    <3> QED BY <3>1, <2>0
  <2> QED BY <2>1, <2>2, <2>3
<1> QED BY <1>10, <1>11, <1>12, <1>13 DEF TreeInv

\* The id a spawn hands out has no place yet; what has a place is live.
LEMMA PlacesLive ==
    ASSUME IInv, TreeInv
    PROVE  /\ nextId \notin LiveNodes
           /\ \A o \in DOMAIN outputs : Tops[o] = ToSet(outputs[o].huts) /\ Tops[o] \subseteq LiveNodes
           /\ \A n \in NodeId : Below[n] = ToSet(children[n]) /\ Below[n] \subseteq LiveNodes
<1>1. nextId \notin LiveNodes
  BY TreeTypes DEF IInv, GraphInv, LiveNodes, NodeId
<1>2. \A o \in DOMAIN outputs : Tops[o] = ToSet(outputs[o].huts)
  BY DEF Tops
<1>3. \A n \in NodeId : Below[n] = ToSet(children[n])
  BY DEF Below
<1>4. \A o \in DOMAIN outputs : Tops[o] \subseteq NodeId
  BY TreeTypes DEF Family
<1>5. \A n \in NodeId : Below[n] \subseteq NodeId
  BY TreeTypes DEF Family
<1>6. Forest(Tops, Below, LiveNodes) /\ DOMAIN Tops = DOMAIN outputs
  BY DEF TreeInv, Tops
<1>7. \A o \in DOMAIN outputs : Tops[o] \subseteq LiveNodes
  BY <1>4, <1>6 DEF Forest
<1>8. \A n \in NodeId : Below[n] \subseteq LiveNodes
  BY <1>5, <1>6 DEF Forest
<1> QED BY <1>1, <1>2, <1>3, <1>7, <1>8

\* A slot's list after the step, whatever its indexes are.
LEMMA LandedHuts ==
    ASSUME NEW slot \in Slots, SlotGood(slot), NEW pos \in Nat \ {0},
           NEW huts \in Seq(NodeId)
    PROVE  /\ Landed(slot, pos).huts = slot.huts
           /\ [Landed(slot, pos) EXCEPT !.huts = huts].huts = huts
<1>0. slot.huts \in Seq(NodeId)
  BY DEF Slots
<1>1. Landed(slot, pos).huts = slot.huts
      /\ Landed(slot, pos) = [Landed(slot, pos) EXCEPT !.huts = slot.huts]
      /\ [Landed(slot, pos) EXCEPT !.huts = slot.huts] \in Slots
  BY <1>0, LandedFacts
<1> DEFINE new == Landed(slot, pos)
<1>2. new \in Slots
  BY <1>1, Zenon
<1> HIDE DEF new
<1>3. [new EXCEPT !.huts = huts] =
            [huts |-> huts, current |-> new.current, preview |-> new.preview]
  BY <1>2, SlotUpdates
<1>4. [new EXCEPT !.huts = huts].huts = huts
  BY <1>3
<1> QED BY <1>1, <1>4 DEF new

\* remove_node and add_node around one output's list.
LEMMA ReshapeKeepsTree ==
    ASSUME IInv, IInv', TreeInv, NEW o \in DOMAIN outputs, NEW gone, NEW ok \in BOOLEAN,
           gone = {} \/ \E x \in Tops[o] : gone = {x} /\ kind[x] = "console",
           ok => nextId \in NodeId,
           Reshape(gone, ok), NEW slot, SetSlot(o, slot), NEW huts, slot.huts = huts,
           IsInjective(huts),
           ToSet(huts) = (ToSet(outputs[o].huts) \ gone) \cup (IF ok THEN {nextId} ELSE {})
    PROVE  TreeInv'
<1> DEFINE come == IF ok THEN {nextId} ELSE {}
<1>1. gone \in SUBSET NodeId
  <2>1. Tops[o] \subseteq NodeId
    BY TreeTypes DEF Family
  <2> QED BY <2>1
<1>2. come \in SUBSET NodeId /\ (come = {} \/ come = {nextId})
  OBVIOUS
<1>3. \A n \in NodeId : kind'[n] = IF n \in gone THEN "none"
                                   ELSE IF n \in come THEN "console" ELSE kind[n]
  BY DEF Reshape
<1>4. \A n \in NodeId : children'[n] = IF n \in gone THEN <<>> ELSE children[n]
  BY DEF Reshape
<1>5. \A n \in NodeId : keyed'[n] = IF n \in gone THEN {} ELSE keyed[n]
  BY DEF Reshape
<1>6. /\ DOMAIN outputs' = DOMAIN outputs /\ outputs'[o] = slot
      /\ \A p \in DOMAIN outputs : p # o => outputs'[p] = outputs[p]
  BY DEF SetSlot
<1>7. /\ \A p \in DOMAIN outputs : p # o => outputs'[p].huts = outputs[p].huts
      /\ outputs'[o].huts = huts
  BY <1>6
<1>8. ToSet(huts) = (ToSet(outputs[o].huts) \ gone) \cup come
  OBVIOUS
<1> HIDE DEF come
<1>9. ListChange(o, gone, come)
  BY <1>2, <1>3, <1>4, <1>5, <1>6, <1>7, <1>8 DEF ListChange
<1> QED BY <1>1, <1>2, <1>9, ListStep

\* A list in a new order, or as it was.
LEMMA ReorderKeepsTree ==
    ASSUME IInv, IInv', TreeInv, NEW o \in DOMAIN outputs, UNCHANGED <<kind, children, keyed>>,
           NEW slot, SetSlot(o, slot), IsInjective(slot.huts),
           ToSet(slot.huts) = ToSet(outputs[o].huts)
    PROVE  TreeInv'
<1>6. /\ DOMAIN outputs' = DOMAIN outputs /\ outputs'[o] = slot
      /\ \A p \in DOMAIN outputs : p # o => outputs'[p] = outputs[p]
  BY DEF SetSlot
<1>7. /\ \A p \in DOMAIN outputs : p # o => outputs'[p].huts = outputs[p].huts
      /\ IsInjective(outputs'[o].huts)
  BY <1>6
<1>8. ToSet(outputs'[o].huts) = (ToSet(outputs[o].huts) \ {}) \cup {}
  BY <1>6
<1>9. kind' = kind /\ children' = children /\ keyed' = keyed
  OBVIOUS
<1> DEFINE none == {}
<1>10. none \in SUBSET NodeId /\ none = {}
  OBVIOUS
<1> HIDE DEF none
<1>11. /\ \A n \in NodeId : kind'[n] = IF n \in none THEN "none"
                                       ELSE IF n \in none THEN "console" ELSE kind[n]
       /\ \A n \in NodeId : children'[n] = IF n \in none THEN <<>> ELSE children[n]
       /\ \A n \in NodeId : keyed'[n] = IF n \in none THEN {} ELSE keyed[n]
  <2>1. \A n \in NodeId : n \notin none
    BY <1>10
  <2>2. \A n \in NodeId : kind'[n] = IF n \in none THEN "none"
                                      ELSE IF n \in none THEN "console" ELSE kind[n]
    BY <1>9, <2>1
  <2>3. \A n \in NodeId : children'[n] = IF n \in none THEN <<>> ELSE children[n]
    BY <1>9, <2>1
  <2>4. \A n \in NodeId : keyed'[n] = IF n \in none THEN {} ELSE keyed[n]
    BY <1>9, <2>1
  <2> QED BY <2>2, <2>3, <2>4
<1>12. ToSet(outputs'[o].huts) = (ToSet(outputs[o].huts) \ none) \cup none
  BY <1>8, <1>10
<1>13. ListChange(o, none, none)
  BY <1>6, <1>7, <1>10, <1>11, <1>12 DEF ListChange
<1>14. none \in SUBSET NodeId
  BY <1>10
<1> QED BY <1>13, <1>14, ListStep

\* The list of the focused output, and what an untouched entry of it is.
LEMMA FocusedList ==
    ASSUME IInv, TreeInv, NEW o \in DOMAIN outputs
    PROVE  /\ outputs[o] \in Slots /\ SlotGood(outputs[o])
           /\ Pos(outputs[o]) \in Nat \ {0}
           /\ outputs[o].huts \in Seq(NodeId) /\ IsInjective(outputs[o].huts)
           /\ nextId \notin ToSet(outputs[o].huts)
           /\ \A i \in DOMAIN outputs[o].huts : /\ outputs[o].huts[i] \in Tops[o]
                                                /\ outputs[o].huts[i] \in ToSet(outputs[o].huts)
<1>1. /\ outputs[o] \in Slots /\ SlotGood(outputs[o])
      /\ Pos(outputs[o]) \in Nat \ {0}
      /\ outputs[o].huts \in Seq(NodeId)
  BY Halves, FocusedSlot
<1>2. IsInjective(outputs[o].huts)
  BY DEF TreeInv
<1>3. nextId \notin ToSet(outputs[o].huts)
  BY PlacesLive
<1>4. \A i \in DOMAIN outputs[o].huts : /\ outputs[o].huts[i] \in Tops[o]
                                        /\ outputs[o].huts[i] \in ToSet(outputs[o].huts)
  BY DEF Tops, ToSet
<1> QED BY <1>1, <1>2, <1>3, <1>4

\* A successful spawn appended to a list without it.
LEMMA AppendedEntries ==
    ASSUME NEW s \in Seq(NodeId), IsInjective(s), nextId \notin ToSet(s),
           NEW ok \in BOOLEAN, ok => nextId \in NodeId
    PROVE  /\ Appended(s, ok) \in Seq(NodeId) /\ IsInjective(Appended(s, ok))
           /\ ToSet(Appended(s, ok)) = ToSet(s) \cup (IF ok THEN {nextId} ELSE {})
<1>1. CASE ok
  BY <1>1, AppendEntries DEF Appended
<1>2. CASE ~ok
  BY <1>2 DEF Appended
<1> QED BY <1>1, <1>2

\* A list of one node.
LEMMA SingleEntries ==
    ASSUME NEW x \in NodeId
    PROVE  /\ <<x>> \in Seq(NodeId) /\ IsInjective(<<x>>) /\ ToSet(<<x>>) = {x}
<1>1. <<x>> \in Seq(NodeId) /\ DOMAIN <<x>> = {1} /\ <<x>>[1] = x
  OBVIOUS
<1> QED BY <1>1 DEF IsInjective, ToSet

\* stack_next keeps the tree sound, whatever it spawns or removes.
LEMMA StackNextKeepsTree ==
    ASSUME IInv, IInv', TreeInv, StackNext
    PROVE  TreeInv'
<1> DEFINE o    == focusedOutput
           slot == outputs[o]
           pos  == Pos(slot)
<1>1. o \in DOMAIN outputs
  BY DEF IInv, TypeOK
<1>2. /\ slot \in Slots /\ SlotGood(slot) /\ pos \in Nat \ {0}
      /\ slot.huts \in Seq(NodeId) /\ IsInjective(slot.huts)
      /\ nextId \notin ToSet(slot.huts)
      /\ \A i \in DOMAIN slot.huts : slot.huts[i] \in Tops[o] /\ slot.huts[i] \in ToSet(slot.huts)
  BY <1>1, FocusedList
<1>3. \A ok \in SpawnOutcomes(1) : ok \in BOOLEAN /\ (ok => nextId \in NodeId)
  BY Halves, SpawnedId DEF SpawnOutcomes, GraphHalf
<1> DEFINE Change(gone, ok, new, huts) ==
             /\ gone = {} \/ \E x \in Tops[o] : gone = {x} /\ kind[x] = "console"
             /\ Reshape(gone, ok) /\ SetSlot(o, new) /\ new.huts = huts /\ IsInjective(huts)
             /\ ToSet(huts) = (ToSet(slot.huts) \ gone) \cup (IF ok THEN {nextId} ELSE {})
<1>4. ASSUME NEW ok \in SpawnOutcomes(1), NEW gone, NEW new, NEW huts, Change(gone, ok, new, huts)
      PROVE  TreeInv'
  BY <1>1, <1>3, <1>4, ReshapeKeepsTree
<1>5. \A p \in Nat \ {0} : Landed(slot, p).huts = slot.huts
  BY <1>2, LandedHuts
<1>6. ASSUME NEW p \in Nat \ {0}, NEW huts \in Seq(NodeId)
      PROVE  [Landed(slot, p) EXCEPT !.huts = huts].huts = huts
  BY <1>2, LandedHuts
<1>7. CASE AdvanceEmpty(o, slot)
  <2>1. PICK ok \in SpawnOutcomes(1) :
          /\ Reshape({}, ok)
          /\ SetSlot(o, IF ok THEN [Landed(slot, 1) EXCEPT !.huts = <<nextId>>] ELSE slot)
    BY <1>7 DEF AdvanceEmpty
  <2>2. slot.huts = <<>> /\ ToSet(slot.huts) = {}
    BY <1>7 DEF AdvanceEmpty, ToSet
  <2>3. CASE ok
    <3> DEFINE huts == <<nextId>>
               new == [Landed(slot, 1) EXCEPT !.huts = huts]
    <3>1. huts \in Seq(NodeId) /\ IsInjective(huts) /\ ToSet(huts) = {nextId}
      BY <2>3, <1>3, SingleEntries
    <3>2. SetSlot(o, new)
      BY <2>1, <2>3, Zenon
    <3>3. new.huts = huts
      BY <3>1, <1>6
    <3> HIDE DEF new, huts
    <3>4. ToSet(huts) = (ToSet(slot.huts) \ {}) \cup (IF ok THEN {nextId} ELSE {})
      BY <3>1, <2>2, <2>3
    <3>5. Change({}, ok, new, huts)
      BY <2>1, <3>1, <3>2, <3>3, <3>4
    <3> HIDE DEF Change
    <3> QED BY <1>4, <3>5
  <2>4. CASE ~ok
    <3>2. SetSlot(o, slot)
      BY <2>1, <2>4, Zenon
    <3>4. ToSet(slot.huts) = (ToSet(slot.huts) \ {}) \cup (IF ok THEN {nextId} ELSE {})
      BY <2>4
    <3>5. Change({}, ok, slot, slot.huts)
      BY <2>1, <1>2, <3>2, <3>4
    <3> HIDE DEF Change
    <3> QED BY <1>4, <3>5
  <2> QED BY <2>3, <2>4, <1>3
<1>8. CASE AdvanceOver(o, slot, pos)
  <2>1. /\ pos + 1 \in Nat \ {0} /\ SetSlot(o, Landed(slot, pos + 1))
        /\ UNCHANGED <<kind, children, keyed>>
    BY <1>2, <1>8 DEF AdvanceOver, graphVars
  <2>2. Landed(slot, pos + 1).huts = slot.huts
    BY <1>5, <2>1
  <2> DEFINE new == Landed(slot, pos + 1)
  <2>3. SetSlot(o, new) /\ new.huts = slot.huts
    BY <2>1, <2>2
  <2> HIDE DEF new
  <2>4. IsInjective(new.huts) /\ ToSet(new.huts) = ToSet(slot.huts)
    BY <1>2, <2>3
  <2> QED BY <1>1, <2>1, <2>3, <2>4, ReorderKeepsTree
<1>9. CASE AdvanceGrow(o, slot, pos)
  <2>1. PICK ok \in SpawnOutcomes(1) :
          /\ Reshape({}, ok)
          /\ SetSlot(o, [Landed(slot, IF ok THEN pos + 1 ELSE pos) EXCEPT
                           !.huts = Appended(@, ok)])
    BY <1>9 DEF AdvanceGrow
  <2> DEFINE p    == IF ok THEN pos + 1 ELSE pos
             huts == Appended(slot.huts, ok)
             new  == [Landed(slot, p) EXCEPT !.huts = huts]
  <2>2. /\ huts \in Seq(NodeId) /\ IsInjective(huts)
        /\ ToSet(huts) = ToSet(slot.huts) \cup (IF ok THEN {nextId} ELSE {})
    BY <1>2, <1>3, AppendedEntries
  <2>3. p \in Nat \ {0}
    BY <1>2
  <2>4. Landed(slot, p).huts = slot.huts
    BY <1>5, <2>3
  <2>5. SetSlot(o, new)
    BY <2>1, <2>4, Zenon
  <2>6. new.huts = huts
    BY <1>6, <2>2, <2>3
  <2> HIDE DEF new, huts
  <2>7. Change({}, ok, new, huts)
    BY <2>1, <2>2, <2>5, <2>6
  <2> HIDE DEF Change
  <2> QED BY <1>4, <2>7
<1>10. CASE AdvanceDiscard(o, slot, pos)
  <2>1. PICK ok \in SpawnOutcomes(1) :
          /\ Reshape({slot.huts[pos]}, ok)
          /\ SetSlot(o, [Landed(slot, Len(Appended(RemoveAt(slot.huts, pos), ok))) EXCEPT
                           !.huts = Appended(RemoveAt(slot.huts, pos), ok)])
          /\ pos \in DOMAIN slot.huts /\ Len(slot.huts) > 1 /\ ~Kept(slot, pos)
    BY <1>10 DEF AdvanceDiscard
  <2> DEFINE left == RemoveAt(slot.huts, pos)
             huts == Appended(left, ok)
             new  == [Landed(slot, Len(huts)) EXCEPT !.huts = huts]
             x    == slot.huts[pos]
  <2>2. /\ left \in Seq(NodeId) /\ Len(left) = Len(slot.huts) - 1
        /\ IsInjective(left) /\ ToSet(left) = ToSet(slot.huts) \ {x}
    BY <1>2, <2>1, RemoveAtFacts, RemoveAtEntries
  <2>3. x \in Tops[o] /\ kind[x] = "console"
    BY <1>2, <2>1 DEF Kept, Touched
  <2>4. SetSlot(o, new) /\ Reshape({x}, ok)
    BY <2>1, Zenon
  <2> HIDE DEF left, x
  <2>5. /\ huts \in Seq(NodeId) /\ IsInjective(huts)
        /\ ToSet(huts) = ToSet(left) \cup (IF ok THEN {nextId} ELSE {})
    <3>1. nextId \notin ToSet(left)
      BY <1>2, <2>2
    <3> QED BY <1>3, <2>2, <3>1, AppendedEntries
  <2>6. Len(huts) \in Nat \ {0}
    <3>1. Len(left) \in Nat /\ Len(left) >= 1
      BY <1>2, <2>1, <2>2
    <3>2. CASE ok
      BY <1>3, <2>2, <3>1, <3>2 DEF Appended
    <3>3. CASE ~ok
      BY <3>1, <3>3 DEF Appended
    <3> QED BY <3>2, <3>3
  <2>7. new.huts = huts
    BY <1>6, <2>5, <2>6
  <2> HIDE DEF new, huts
  <2>8. ToSet(huts) = (ToSet(slot.huts) \ {x}) \cup (IF ok THEN {nextId} ELSE {})
    BY <2>2, <2>5
  <2>9. Change({x}, ok, new, huts)
    BY <2>3, <2>4, <2>5, <2>7, <2>8
  <2> HIDE DEF Change
  <2> QED BY <1>4, <2>9
<1>11. CASE AdvanceReplace(o, slot, pos)
  <2>1. PICK ok \in SpawnOutcomes(1) :
          /\ Reshape(IF ok THEN {slot.huts[1]} ELSE {}, ok)
          /\ SetSlot(o, [Landed(slot, 1) EXCEPT !.huts = Replaced(@, ok)])
          /\ Len(slot.huts) = 1 /\ pos = 1 /\ ~Kept(slot, pos)
    BY <1>11 DEF AdvanceReplace
  <2> DEFINE gone == IF ok THEN {slot.huts[1]} ELSE {}
             huts == Replaced(slot.huts, ok)
             new  == [Landed(slot, 1) EXCEPT !.huts = huts]
  <2>2. 1 \in DOMAIN slot.huts /\ ToSet(slot.huts) = {slot.huts[1]}
    <3>1. DOMAIN slot.huts = {1}
      BY <1>2, <2>1
    <3> QED BY <3>1 DEF ToSet
  <2>3. slot.huts[1] \in Tops[o] /\ kind[slot.huts[1]] = "console"
    BY <1>2, <2>1, <2>2 DEF Kept, Touched
  <2>4. /\ huts \in Seq(NodeId) /\ IsInjective(huts)
        /\ ToSet(huts) = (ToSet(slot.huts) \ gone) \cup (IF ok THEN {nextId} ELSE {})
    <3>1. CASE ok
      <4>1. huts = <<nextId>>
        BY <3>1 DEF Replaced
      <4> QED BY <1>3, <2>2, <3>1, <4>1, SingleEntries
    <3>2. CASE ~ok
      BY <1>2, <3>2 DEF Replaced
    <3> QED BY <3>1, <3>2
  <2>5. SetSlot(o, new) /\ Reshape(gone, ok)
    <3>1. Landed(slot, 1).huts = slot.huts
      BY <1>5
    <3> QED BY <2>1, <3>1, Zenon
  <2>6. new.huts = huts
    BY <1>6, <2>4
  <2>7. gone = {} \/ \E x \in Tops[o] : gone = {x} /\ kind[x] = "console"
    BY <2>3
  <2> HIDE DEF new, huts, gone
  <2>8. Change(gone, ok, new, huts)
    BY <2>4, <2>5, <2>6, <2>7
  <2> HIDE DEF Change
  <2> QED BY <1>4, <2>8
<1> QED BY <1>7, <1>8, <1>9, <1>10, <1>11 DEF StackNext

\* stack_prev keeps the tree sound.
LEMMA StackPrevKeepsTree ==
    ASSUME IInv, IInv', TreeInv, StackPrev
    PROVE  TreeInv'
<1> DEFINE o    == focusedOutput
           slot == outputs[o]
           pos  == Pos(slot)
<1>1. o \in DOMAIN outputs
  BY DEF IInv, TypeOK
<1>2. /\ slot \in Slots /\ SlotGood(slot) /\ pos \in Nat \ {0}
      /\ slot.huts \in Seq(NodeId) /\ IsInjective(slot.huts)
      /\ \A i \in DOMAIN slot.huts : slot.huts[i] \in Tops[o]
  BY <1>1, FocusedList
<1>3. ASSUME NEW p \in Nat \ {0}, SetSlot(o, Landed(slot, p)), UNCHANGED <<graphVars, useVars>>
      PROVE  TreeInv'
  <2> DEFINE new == Landed(slot, p)
  <2>1. SetSlot(o, new) /\ new.huts = slot.huts
    BY <1>2, <1>3, LandedHuts
  <2>2. UNCHANGED <<kind, children, keyed>>
    BY <1>3 DEF graphVars
  <2> HIDE DEF new
  <2>3. IsInjective(new.huts) /\ ToSet(new.huts) = ToSet(slot.huts)
    BY <1>2, <2>1
  <2> QED BY <1>1, <2>1, <2>2, <2>3, ReorderKeepsTree
<1>4. CASE OpenAtEnd(o, slot)
  <2>1. MaxIndex(Len(slot.huts)) \in Nat \ {0}
    BY <1>2 DEF MaxIndex
  <2> QED BY <1>3, <1>4, <2>1 DEF OpenAtEnd
<1>5. CASE RetreatOver(o, slot, pos)
  <2> DEFINE p == IF pos = 1 \/ slot.huts = <<>> THEN pos ELSE pos - 1
  <2>1. p \in Nat \ {0}
    BY <1>2
  <2> QED BY <1>3, <1>5, <2>1 DEF RetreatOver
<1>6. CASE RetreatDiscard(o, slot, pos)
  <2> DEFINE huts == RemoveAt(slot.huts, pos)
             new  == [Landed(slot, pos - 1) EXCEPT !.huts = huts]
             x    == slot.huts[pos]
  <2>1. /\ pos \in DOMAIN slot.huts /\ pos # 1 /\ ~Kept(slot, pos)
        /\ Reshape({x}, FALSE)
        /\ SetSlot(o, [Landed(slot, pos - 1) EXCEPT !.huts = RemoveAt(@, pos)])
    BY <1>6 DEF RetreatDiscard
  <2>2. huts \in Seq(NodeId) /\ IsInjective(huts) /\ ToSet(huts) = ToSet(slot.huts) \ {x}
    BY <1>2, <2>1, RemoveAtFacts, RemoveAtEntries
  <2>3. x \in Tops[o] /\ kind[x] = "console"
    BY <1>2, <2>1 DEF Kept, Touched
  <2>4. pos - 1 \in Nat \ {0}
    BY <1>2, <2>1
  <2>5. Landed(slot, pos - 1).huts = slot.huts /\ new.huts = huts
    BY <1>2, <2>2, <2>4, LandedHuts
  <2>6. SetSlot(o, new)
    BY <2>1, <2>5, Zenon
  <2> HIDE DEF huts, new, x
  <2>7. Reshape({x}, FALSE) /\ (FALSE => nextId \in NodeId)
    BY <2>1
  <2>8. ToSet(huts) = (ToSet(outputs[o].huts) \ {x}) \cup (IF FALSE THEN {nextId} ELSE {})
    BY <2>2
  <2>9. {x} = {} \/ \E y \in Tops[o] : {x} = {y} /\ kind[y] = "console"
    BY <2>3
  <2> QED BY <1>1, <2>2, <2>5, <2>6, <2>7, <2>8, <2>9, ReshapeKeepsTree
<1> QED BY <1>4, <1>5, <1>6 DEF StackPrev

\* spawn_with_command keeps the tree sound.
LEMMA SpawnWithCommandKeepsTree ==
    ASSUME IInv, IInv', TreeInv, SpawnWithCommand
    PROVE  TreeInv'
<1> DEFINE o    == focusedOutput
           slot == outputs[o]
           huts == Append(slot.huts, nextId)
           new  == [slot EXCEPT !.huts = huts]
           come == {nextId}
           gone == come \ {nextId}
<1>0. nextId \in NodeId
  BY Halves, SpawnedId DEF SpawnWithCommand, GraphHalf
<1>1. o \in DOMAIN outputs
  BY DEF IInv, TypeOK
<1>2. /\ slot \in Slots /\ slot.huts \in Seq(NodeId) /\ IsInjective(slot.huts)
      /\ nextId \notin ToSet(slot.huts)
  BY <1>1, FocusedList
<1>3. IsInjective(huts) /\ ToSet(huts) = ToSet(slot.huts) \cup {nextId}
  BY <1>0, <1>2, AppendEntries
<1>4. SetSlot(o, new)
  BY DEF SpawnWithCommand
<1>5. new = [huts |-> huts, current |-> slot.current, preview |-> slot.preview]
  BY <1>2, SlotUpdates, Zenon
<1>6. new.huts = huts
  BY <1>5
<1> HIDE DEF new, huts
<1>7. /\ DOMAIN outputs' = DOMAIN outputs /\ outputs'[o].huts = huts
      /\ \A p \in DOMAIN outputs : p # o => outputs'[p].huts = outputs[p].huts
  BY <1>1, <1>4, <1>6 DEF SetSlot
<1>8. gone = {} /\ gone \in SUBSET NodeId /\ come = {nextId}
  OBVIOUS
<1>9. come \in SUBSET NodeId /\ \A n \in NodeId : n \in come <=> n = nextId
  BY <1>0
<1> HIDE DEF gone, come
<1>10. \A n \in NodeId : n \notin gone
  BY <1>8
<1>11. \A n \in NodeId : kind'[n] = IF n \in gone THEN "none"
                                   ELSE IF n \in come THEN "console" ELSE kind[n]
  BY <1>9, <1>10, TreeTypes DEF SpawnWithCommand
<1>12. children' = children /\ keyed' = keyed
  BY DEF SpawnWithCommand
<1>13. ToSet(outputs'[o].huts) = (ToSet(slot.huts) \ gone) \cup come
  BY <1>3, <1>7, <1>8
<1>14. ListChange(o, gone, come)
  BY <1>3, <1>7, <1>8, <1>10, <1>11, <1>12, <1>13 DEF ListChange
<1>15. gone \in SUBSET NodeId
  BY <1>8
<1> QED BY <1>1, <1>9, <1>14, <1>15, ListStep

\* commit_preview only moves one entry to the front.
LEMMA CommittedList ==
    ASSUME NEW slot \in Slots, IsInjective(slot.huts)
    PROVE  /\ Committed(slot).huts \in Seq(NodeId) /\ IsInjective(Committed(slot).huts)
           /\ ToSet(Committed(slot).huts) = ToSet(slot.huts)
<1> DEFINE first == <<slot.huts[slot.preview]>> \o RemoveAt(slot.huts, slot.preview)
           huts  == IF slot.preview \in DOMAIN slot.huts THEN first ELSE slot.huts
<1>0. slot.huts \in Seq(NodeId)
  BY DEF Slots
<1>1. CASE slot.preview = 0
  BY <1>0, <1>1 DEF Committed
<1>2. CASE slot.preview # 0
  <2>1. Committed(slot).huts = huts
    BY <1>2 DEF Committed
  <2>2. ASSUME slot.preview \in DOMAIN slot.huts
        PROVE  first \in Seq(NodeId) /\ IsInjective(first) /\ ToSet(first) = ToSet(slot.huts)
    <3>1. slot.huts[slot.preview] \in NodeId
      BY <1>0, <2>2
    <3>2. RemoveAt(slot.huts, slot.preview) \in Seq(NodeId)
      BY <1>0, <2>2, RemoveAtFacts, Zenon
    <3>3. first \in Seq(NodeId)
      BY <3>1, <3>2, PrependFacts
    <3>4. IsInjective(first) /\ ToSet(first) = ToSet(slot.huts)
      BY <1>0, <2>2, FrontEntries
    <3> QED BY <3>3, <3>4
  <2> HIDE DEF first
  <2>3. huts \in Seq(NodeId) /\ IsInjective(huts) /\ ToSet(huts) = ToSet(slot.huts)
    BY <1>0, <2>2
  <2> QED BY <2>1, <2>3
<1> QED BY <1>1, <1>2

\* commit_preview keeps the tree sound.
LEMMA CommitKeepsTree ==
    ASSUME IInv, IInv', TreeInv, CommitPreview
    PROVE  TreeInv'
<1> DEFINE o   == focusedOutput
           new == Committed(outputs[o])
<1>1. o \in DOMAIN outputs
  BY DEF IInv, TypeOK
<1>2. outputs[o] \in Slots /\ IsInjective(outputs[o].huts)
  BY <1>1, FocusedList
<1>3. SetSlot(o, new) /\ UNCHANGED <<kind, children, keyed>>
  BY DEF CommitPreview, graphVars
<1>4. IsInjective(new.huts) /\ ToSet(new.huts) = ToSet(outputs[o].huts)
  BY <1>2, CommittedList
<1> HIDE DEF new
<1> QED BY <1>1, <1>3, <1>4, ReorderKeepsTree

\* The exit of a top-level console's shell keeps the tree sound.
LEMMA ExitTopLevelKeepsTree ==
    ASSUME IInv, IInv', TreeInv, NEW n \in NodeId, kind[n] = "console", ExitTopLevel(n)
    PROVE  TreeInv'
<1>1. PICK o \in DOMAIN outputs :
        \E i \in DOMAIN outputs[o].huts : outputs[o].huts[i] = n /\ ExitEntry(o, i, n)
  BY DEF ExitTopLevel
<1>2. PICK i \in DOMAIN outputs[o].huts : outputs[o].huts[i] = n /\ ExitEntry(o, i, n)
  BY <1>1
<1>3. PICK ok \in IF Len(outputs[o].huts) = 1 THEN SpawnOutcomes(1) ELSE {FALSE} :
        /\ Reshape({n}, ok)
        /\ SetSlot(o, SlotWithout(outputs[o], i, ok))
  BY <1>2 DEF ExitEntry
<1>4. ok \in BOOLEAN /\ (ok => nextId \in NodeId)
  <2>1. ok \in SpawnOutcomes(1) \/ ok = FALSE
    OBVIOUS
  <2>2. ok \in BOOLEAN /\ (ok => ok \in SpawnOutcomes(1))
    BY <2>1 DEF SpawnOutcomes
  <2> QED BY <2>2, SpawnedId, Halves DEF GraphHalf
<1> DEFINE left == RemoveAt(outputs[o].huts, i)
           huts == Appended(left, ok)
           new  == SlotWithout(outputs[o], i, ok)
<1>5. /\ outputs[o].huts \in Seq(NodeId) /\ IsInjective(outputs[o].huts)
      /\ nextId \notin ToSet(outputs[o].huts) /\ n \in Tops[o]
  BY <1>2, FocusedList
<1>6. left \in Seq(NodeId) /\ IsInjective(left) /\ ToSet(left) = ToSet(outputs[o].huts) \ {n}
  BY <1>2, <1>5, RemoveAtFacts, RemoveAtEntries
<1>7. SetSlot(o, new) /\ new.huts = huts
  BY <1>3 DEF SlotWithout
<1> HIDE DEF left, new
<1>8. IsInjective(huts) /\ ToSet(huts) = ToSet(left) \cup (IF ok THEN {nextId} ELSE {})
  BY <1>4, <1>5, <1>6, AppendedEntries
<1> HIDE DEF huts
<1>9. ToSet(huts) = (ToSet(outputs[o].huts) \ {n}) \cup (IF ok THEN {nextId} ELSE {})
  BY <1>6, <1>8
<1>10. {n} = {} \/ \E y \in Tops[o] : {n} = {y} /\ kind[y] = "console"
  BY <1>5
<1>11. Reshape({n}, ok)
  BY <1>3
<1> QED BY <1>4, <1>7, <1>8, <1>9, <1>10, <1>11, ReshapeKeepsTree

\* The lists of entries and of children after a step are families of sets of nodes.
LEMMA FamiliesNext ==
    ASSUME IInv'
    PROVE  /\ Tops' \in Family(DOMAIN outputs') /\ Below' \in Family(NodeId)
           /\ children' \in [NodeId -> Seq(NodeId)]
           /\ \A o \in DOMAIN outputs' : Tops'[o] = ToSet(outputs'[o].huts)
           /\ \A n \in NodeId : Below'[n] = ToSet(children'[n])
<1>1. children' \in [NodeId -> Seq(NodeId)] /\ outputs' \in Seq(Slots)
  BY DEF IInv, TypeOK
<1>2. \A o \in DOMAIN outputs' : outputs'[o].huts \in Seq(NodeId)
  <2> SUFFICES ASSUME NEW o \in DOMAIN outputs' PROVE outputs'[o].huts \in Seq(NodeId)
    OBVIOUS
  <2>1. outputs'[o] \in Slots
    BY <1>1
  <2> QED BY <2>1 DEF Slots
<1>3. \A n \in NodeId : ToSet(children'[n]) \in SUBSET NodeId
  BY <1>1 DEF ToSet
<1>4. \A o \in DOMAIN outputs' : ToSet(outputs'[o].huts) \in SUBSET NodeId
  BY <1>2 DEF ToSet
<1>5. Below' \in Family(NodeId) /\ \A n \in NodeId : Below'[n] = ToSet(children'[n])
  BY <1>3 DEF Below, Family
<1>6. Tops' \in Family(DOMAIN outputs')
      /\ \A o \in DOMAIN outputs' : Tops'[o] = ToSet(outputs'[o].huts)
  BY <1>4 DEF Tops, Family
<1> QED BY <1>1, <1>5, <1>6

\* A new output comes with one fresh console.
LEMMA AddOutputKeepsTree ==
    ASSUME IInv, IInv', TreeInv, AddOutput
    PROVE  TreeInv'
<1> DEFINE D == DOMAIN outputs
           d == Len(outputs) + 1
           E == D \cup {d}
           x == nextId
           N == LiveNodes \cup {x}
<1>0. x \in NodeId /\ x \notin LiveNodes /\ kind[x] = "none"
  <2>1. x \in NodeId
    BY Halves, SpawnedId DEF AddOutput, GraphHalf
  <2>2. x \notin LiveNodes
    BY PlacesLive
  <2> QED BY <2>1, <2>2 DEF LiveNodes
<1>t. /\ outputs \in Seq(Slots) /\ Below \in Family(NodeId) /\ Tops \in Family(D)
      /\ children \in [NodeId -> Seq(NodeId)] /\ WrappersArePairs
  BY TreeTypes
<1>r. /\ \A n \in NodeId : kind'[n] = IF n = x THEN "console" ELSE kind[n]
      /\ children' = children /\ keyed' = keyed
  <2>1. Reshape({}, TRUE)
    BY DEF AddOutput
  <2>2. children \in [NodeId -> Seq(NodeId)] /\ keyed \in [NodeId -> SUBSET NodeId]
    BY TreeTypes
  <2> QED BY <2>1, <2>2 DEF Reshape
<1>o. /\ DOMAIN outputs' = E /\ d \notin D
      /\ \A p \in D : outputs'[p] = outputs[p]
      /\ outputs'[d] = NewSlot(x)
  <2>1. outputs' = Append(outputs, NewSlot(x))
    BY DEF AddOutput
  <2>2. DOMAIN outputs = 1..Len(outputs) /\ Len(outputs) \in Nat
    BY <1>t
  <2>3. DOMAIN Append(outputs, NewSlot(x)) = 1..(Len(outputs) + 1)
        /\ \A p \in 1..Len(outputs) : Append(outputs, NewSlot(x))[p] = outputs[p]
        /\ Append(outputs, NewSlot(x))[Len(outputs) + 1] = NewSlot(x)
    BY <1>t
  <2> QED BY <2>1, <2>2, <2>3
<1>h. outputs'[d].huts = <<x>> /\ IsInjective(<<x>>) /\ ToSet(<<x>>) = {x}
  BY <1>0, <1>o, SingleEntries DEF NewSlot
<1>1. Below' = Below
  BY <1>r DEF Below
<1>2. LiveNodes' = N
  BY <1>0, <1>r DEF LiveNodes
<1> DEFINE J == Tops'
<1>3. J \in Family(E) /\ (\A p \in D : J[p] = Tops[p]) /\ J[d] = {x}
  <2>1. Tops' \in Family(DOMAIN outputs')
        /\ \A p \in DOMAIN outputs' : Tops'[p] = ToSet(outputs'[p].huts)
    BY FamiliesNext
  <2>2. \A p \in D : Tops[p] = ToSet(outputs[p].huts)
    BY DEF Tops
  <2>3. \A p \in D : Tops'[p] = Tops[p]
    BY <2>1, <2>2, <1>o
  <2>4. Tops'[d] = {x}
    BY <2>1, <1>o, <1>h
  <2> QED BY <2>1, <2>3, <2>4, <1>o
<1>4. Forest(Tops, Below, LiveNodes)
  BY DEF TreeInv
<1>5. N = LiveNodes \cup {x} /\ OneMore(D, E, d, Tops, J, x)
  BY <1>o, <1>3 DEF OneMore
<1>6. Forest(J, Below, N)
  <2> HIDE DEF J, N, E, D, d, x
  <2> QED BY <1>0, <1>t, <1>o, <1>3, <1>4, <1>5, OutputAdded
<1>7. Forest(Tops', Below', LiveNodes')
  BY <1>1, <1>2, <1>6
<1>8. (\A p \in DOMAIN outputs : IsInjective(outputs[p].huts))'
  BY <1>o, <1>h DEF TreeInv
<1>9. (\A n \in NodeId : IsInjective(children[n]))'
  BY <1>r DEF TreeInv
<1>10. KeyedByChildren'
  <2> SUFFICES ASSUME NEW n \in NodeId
               PROVE  KeysFollow(kind'[n], keyed'[n], children'[n])
    BY KeyedPointwiseNext
  <2>1. KeysFollow(kind[n], keyed[n], children[n])
    BY KeyedPointwise DEF TreeInv
  <2>2. CASE n = x
    BY <1>0, <1>r, <2>1, <2>2 DEF KeysFollow, Wrappers
  <2>3. CASE n # x
    BY <1>r, <2>1, <2>3
  <2> QED BY <2>2, <2>3
<1> QED BY <1>7, <1>8, <1>9, <1>10 DEF TreeInv

\* An unplugged output takes its whole tree with it.
LEMMA RemoveOutputKeepsTree ==
    ASSUME IInv, IInv', TreeInv, NEW o, RemoveOutput(o)
    PROVE  TreeInv'
<1> DEFINE D == DOMAIN outputs
           E == DOMAIN outputs'
           R == UnderOutput(o)
           f == [p \in E |-> IF p < o THEN p ELSE p + 1]
           N == LiveNodes \ R
           J == Tops'
           M == Below'
<1>0. o \in D /\ Reshape(R, FALSE) /\ outputs' = RemoveAt(outputs, o)
  BY DEF RemoveOutput
<1>t. /\ outputs \in Seq(Slots) /\ Below \in Family(NodeId) /\ Tops \in Family(D)
      /\ children \in [NodeId -> Seq(NodeId)] /\ keyed \in [NodeId -> SUBSET NodeId]
      /\ outputs[o].huts \in Seq(NodeId)
  BY <1>0, TreeTypes
<1>r. /\ \A n \in NodeId : kind'[n] = IF n \in R THEN "none" ELSE kind[n]
      /\ \A n \in NodeId : children'[n] = IF n \in R THEN <<>> ELSE children[n]
      /\ \A n \in NodeId : keyed'[n] = IF n \in R THEN {} ELSE keyed[n]
  <2> HIDE DEF R
  <2> QED BY <1>0 DEF Reshape
<1>n. /\ D = 1..Len(outputs) /\ E = 1..(Len(outputs) - 1) /\ Len(outputs) \in Nat
      /\ o \in 1..Len(outputs)
      /\ \A p \in 1..(Len(outputs) - 1) :
           outputs'[p] = IF p < o THEN outputs[p] ELSE outputs[p + 1]
  <2>1. D = 1..Len(outputs) /\ Len(outputs) \in Nat /\ o \in 1..Len(outputs)
    BY <1>0, <1>t
  <2>2. /\ outputs' \in Seq(Slots) /\ Len(outputs') = Len(outputs) - 1
        /\ \A p \in 1..(Len(outputs) - 1) :
             outputs'[p] = IF p < o THEN outputs[p] ELSE outputs[p + 1]
    BY <1>0, <1>t, RemoveAtFacts
  <2>3. E = 1..(Len(outputs) - 1)
    BY <2>2
  <2> QED BY <2>1, <2>2, <2>3
<1>u. \A top \in ToSet(outputs[o].huts) :
        /\ top \in Under(top) /\ Under(top) \subseteq NodeId
        /\ \A n \in Under(top) : ToSet(children[n]) \subseteq Under(top)
        /\ \A n \in Under(top) : n = top \/ \E p \in Under(top) : n \in ToSet(children[p])
  <2> SUFFICES ASSUME NEW top \in NodeId
               PROVE  /\ top \in Under(top) /\ Under(top) \subseteq NodeId
                      /\ \A n \in Under(top) : ToSet(children[n]) \subseteq Under(top)
                      /\ \A n \in Under(top) : n = top \/ \E p \in Under(top) : n \in ToSet(children[p])
    BY <1>t DEF ToSet
  <2> QED BY <1>t, UnderFacts
<1>1. R \in SUBSET NodeId
  BY <1>u DEF UnderOutput
<1>2. WholeTree(Tops, Below, o, R)
  <2>1. Tops[o] = ToSet(outputs[o].huts)
    BY <1>0 DEF Tops
  <2>2. \A n \in NodeId : Below[n] = ToSet(children[n])
    BY DEF Below
  <2>3. Tops[o] \subseteq R
    BY <1>u, <2>1 DEF UnderOutput
  <2>4. \A n \in R : Below[n] \subseteq R
    BY <1>1, <1>u, <2>2 DEF UnderOutput
  <2>5. \A n \in R : n \in Tops[o] \/ \E p \in R : n \in Below[p]
    <3> SUFFICES ASSUME NEW top \in ToSet(outputs[o].huts), NEW n \in Under(top)
                 PROVE  n \in Tops[o] \/ \E p \in R : n \in Below[p]
      BY DEF UnderOutput
    <3>1. CASE n = top
      BY <3>1, <2>1
    <3>2. CASE n # top
      <4>1. PICK p \in Under(top) : n \in ToSet(children[p])
        BY <1>u, <3>2
      <4>2. p \in R /\ p \in NodeId
        BY <1>u DEF UnderOutput
      <4> QED BY <4>1, <4>2, <2>2
    <3> QED BY <3>1, <3>2
  <2> HIDE DEF R
  <2> QED BY <2>3, <2>4, <2>5 DEF WholeTree
<1>f. /\ J \in Family(E) /\ M \in Family(NodeId)
      /\ \A p \in E : J[p] = ToSet(outputs'[p].huts)
      /\ \A n \in NodeId : M[n] = ToSet(children'[n])
      /\ children' \in [NodeId -> Seq(NodeId)]
  BY FamiliesNext
<1>3. Cut(Below, M, R)
  <2> SUFFICES ASSUME NEW n \in NodeId PROVE M[n] = IF n \in R THEN {} ELSE Below[n]
    BY DEF Cut
  <2>1. M[n] = ToSet(children'[n]) /\ Below[n] = ToSet(children[n])
    BY <1>f DEF Below
  <2>2. ToSet(<<>>) = {}
    BY DEF ToSet
  <2> HIDE DEF R, M
  <2> QED BY <1>r, <2>1, <2>2
<1>4. f \in [E -> D]
  BY <1>n
<1>5. Renumbers(D, E, Tops, J, o, f)
  <2>1. \A p \in E : f[p] = IF p < o THEN p ELSE p + 1
    OBVIOUS
  <2>2. \A p, q \in E : f[p] = f[q] => p = q
    BY <1>n
  <2>3. \A d \in D : d # o => \E p \in E : f[p] = d
    <3> SUFFICES ASSUME NEW d \in D, d # o PROVE \E p \in E : f[p] = d
      OBVIOUS
    <3>1. CASE d < o
      <4>1. d \in E /\ f[d] = d
        BY <1>n, <3>1
      <4> QED BY <4>1
    <3>2. CASE d > o
      <4>1. d - 1 \in E /\ f[d - 1] = d
        BY <1>n, <3>2
      <4> QED BY <4>1
    <3> QED BY <1>n, <3>1, <3>2
  <2>4. \A p \in E : f[p] # o /\ f[p] \in D
    BY <1>n
  <2>5. \A p \in E : outputs'[p] = outputs[f[p]]
    BY <1>n, <2>1
  <2>6. \A p \in E : J[p] = Tops[f[p]]
    <3> SUFFICES ASSUME NEW p \in E PROVE J[p] = Tops[f[p]]
      OBVIOUS
    <3>1. Tops[f[p]] = ToSet(outputs[f[p]].huts)
      BY <2>4 DEF Tops
    <3>2. J[p] = ToSet(outputs'[p].huts) /\ outputs'[p] = outputs[f[p]]
      BY <1>f, <2>5
    <3> HIDE DEF J, f
    <3> QED BY <3>1, <3>2
  <2> HIDE DEF f, J, E, D
  <2> QED BY <2>2, <2>3, <2>4, <2>6 DEF Renumbers
<1>6. Forest(Tops, Below, LiveNodes) /\ N = LiveNodes \ R
  BY DEF TreeInv
<1>7. Forest(J, M, N)
  <2> HIDE DEF D, E, R, f, N, J, M
  <2> QED BY <1>0, <1>t, <1>1, <1>2, <1>f, <1>3, <1>4, <1>5, <1>6, TreeDropped
<1>8. LiveNodes' = N
  <2> HIDE DEF R
  <2> QED BY <1>r DEF LiveNodes
<1>9. Forest(Tops', Below', LiveNodes')
  BY <1>7, <1>8
<1>10. (\A p \in DOMAIN outputs : IsInjective(outputs[p].huts))'
  <2> SUFFICES ASSUME NEW p \in E PROVE IsInjective(outputs'[p].huts)
    OBVIOUS
  <2>1. PICK d \in D : outputs'[p] = outputs[d]
    BY <1>n
  <2> QED BY <2>1 DEF TreeInv
<1>11. (\A n \in NodeId : IsInjective(children[n]))'
  <2>1. IsInjective(<<>>)
    BY DEF IsInjective
  <2> HIDE DEF R
  <2> QED BY <1>r, <2>1 DEF TreeInv
<1>12. KeyedByChildren'
  <2> SUFFICES ASSUME NEW n \in NodeId
               PROVE  KeysFollow(kind'[n], keyed'[n], children'[n])
    BY KeyedPointwiseNext
  <2>1. KeysFollow(kind[n], keyed[n], children[n])
    BY KeyedPointwise DEF TreeInv
  <2> HIDE DEF R
  <2>2. CASE n \in R
    <3>1. kind'[n] = "none" /\ keyed'[n] = {}
      BY <1>r, <2>2
    <3> QED BY <3>1 DEF KeysFollow, Wrappers
  <2>3. CASE n \notin R
    BY <1>r, <2>1, <2>3
  <2> QED BY <2>2, <2>3
<1> QED BY <1>9, <1>10, <1>11, <1>12 DEF TreeInv

\* A fresh wrapper w in a live node's place, over it and a fresh console.
PairChange(kd, new, w, leaf) ==
    /\ \A n \in NodeId : kind'[n] = IF n = w THEN kd ELSE IF n = new THEN "console" ELSE kind[n]
    /\ DOMAIN outputs' = DOMAIN outputs
    /\ Swapped(DOMAIN outputs, Tops, Tops', leaf, w)
    /\ PairBelow(Below, Below', new, leaf, w)
    /\ \A o \in DOMAIN outputs : IsInjective(outputs'[o].huts)
    /\ \A n \in NodeId : IsInjective(children'[n]) /\ KeysFollow(kind'[n], keyed'[n], children'[n])

\* Putting a node into a new pair keeps the tree sound.
LEMMA PairStep ==
    ASSUME IInv, IInv', TreeInv, NEW kd \in Wrappers, NEW leaf \in LiveNodes,
           NEW new \in NodeId, NEW w \in NodeId, new = nextId, w = nextId + 1,
           PairChange(kd, new, w, leaf)
    PROVE  TreeInv'
<1> DEFINE D == DOMAIN outputs
           J == Tops'
           M == Below'
           N == LiveNodes \cup {new, w}
<1>1. new \notin LiveNodes /\ w \notin LiveNodes /\ new # w /\ leaf \in NodeId
  BY TreeTypes DEF IInv, GraphInv, LiveNodes
<1>2. /\ Tops \in Family(D) /\ Below \in Family(NodeId) /\ Forest(Tops, Below, LiveNodes)
  BY TreeTypes DEF TreeInv
<1>3. J \in Family(D) /\ M \in Family(NodeId)
  BY FamiliesNext DEF PairChange
<1>4. Swapped(D, Tops, J, leaf, w) /\ PairBelow(Below, M, new, leaf, w)
  BY DEF PairChange
<1>5. N = LiveNodes \cup {new, w}
  OBVIOUS
<1>6. Forest(J, M, N)
  <2> HIDE DEF D, J, M, N
  <2> QED BY <1>1, <1>2, <1>3, <1>4, <1>5, Wrapped
<1>7. LiveNodes' = N
  <2>1. \A n \in NodeId : kind'[n] # "none" <=> n = w \/ n = new \/ kind[n] # "none"
    BY DEF PairChange, Wrappers
  <2> QED BY <2>1 DEF LiveNodes
<1>8. Forest(Tops', Below', LiveNodes')
  BY <1>6, <1>7
<1>9. (\A p \in DOMAIN outputs : IsInjective(outputs[p].huts))'
  BY DEF PairChange
<1>10. (\A n \in NodeId : IsInjective(children[n]))'
  BY DEF PairChange
<1>11. KeyedByChildren'
  BY KeyedPointwiseNext DEF PairChange
<1> QED BY <1>8, <1>9, <1>10, <1>11 DEF TreeInv

\* A node has no other place than the one it is found in.
LEMMA OnePlace ==
    ASSUME IInv, TreeInv, NEW n
    PROVE  /\ \A o \in DOMAIN outputs : n \in Tops[o] =>
                /\ \A p \in DOMAIN outputs : n \in Tops[p] => p = o
                /\ \A m \in NodeId : n \notin Below[m]
           /\ \A m \in NodeId : n \in Below[m] =>
                /\ \A p \in DOMAIN outputs : n \notin Tops[p]
                /\ \A k \in NodeId : n \in Below[k] => k = m
<1>1. Forest(Tops, Below, LiveNodes) /\ DOMAIN Tops = DOMAIN outputs
  BY DEF TreeInv, Tops
<1> QED BY <1>1 DEF Forest

\* A list of two nodes.
LEMMA PairEntries ==
    ASSUME NEW x \in NodeId, NEW y \in NodeId, x # y
    PROVE  <<x, y>> \in Seq(NodeId) /\ IsInjective(<<x, y>>) /\ ToSet(<<x, y>>) = {x, y}
<1>1. DOMAIN <<x, y>> = {1, 2} /\ <<x, y>>[1] = x /\ <<x, y>>[2] = y
  OBVIOUS
<1> QED BY <1>1 DEF IsInjective, ToSet

\* wrap_link, where the list is the output's own in some order.
LEMMA WrapLinkKeepsTree ==
    ASSUME IInv, IInv', TreeInv, NEW kd \in Wrappers, NEW o \in DOMAIN outputs,
           NEW slot \in Slots, IsInjective(slot.huts),
           ToSet(slot.huts) = ToSet(outputs[o].huts), slot.current \in DOMAIN slot.huts,
           nextId \in NodeId, nextId + 1 \in NodeId,
           WrapLink(o, slot, kd, nextId, nextId + 1)
    PROVE  TreeInv'
<1> DEFINE new  == nextId
           w    == nextId + 1
           top  == slot.huts[slot.current]
           path == FocusedPath(top)
<1>t. /\ kind \in [NodeId -> Kinds] /\ children \in [NodeId -> Seq(NodeId)]
      /\ keyed \in [NodeId -> SUBSET NodeId] /\ outputs \in Seq(Slots)
      /\ slot.huts \in Seq(NodeId)
  BY TreeTypes DEF Slots
<1>p. /\ \A p \in DOMAIN outputs : Tops[p] = ToSet(outputs[p].huts) /\ Tops[p] \subseteq LiveNodes
      /\ \A n \in NodeId : Below[n] = ToSet(children[n]) /\ Below[n] \subseteq LiveNodes
  BY PlacesLive
<1>f. /\ DOMAIN outputs' = DOMAIN outputs
      /\ \A p \in DOMAIN outputs : Tops'[p] = ToSet(outputs'[p].huts)
      /\ \A n \in NodeId : Below'[n] = ToSet(children'[n])
  <2>1. DOMAIN outputs' = DOMAIN outputs
    BY DEF WrapLink, SetSlot
  <2> QED BY <2>1, FamiliesNext
<1>k. \A n \in NodeId : KeysFollow(kind[n], keyed[n], children[n]) /\ IsInjective(children[n])
  BY KeyedPointwise DEF TreeInv
<1>1. top \in Tops[o] /\ top \in LiveNodes
  <2>1. top \in ToSet(slot.huts)
    BY DEF ToSet
  <2> QED BY <2>1, <1>p
<1>2. /\ path \in Seq(NodeId) /\ Len(path) \in Nat \ {0} /\ path[1] = top
      /\ \A i \in DOMAIN path : path[i] \in LiveNodes
      /\ \A i \in 1..(Len(path) - 1) : path[i + 1] \in ToSet(children[path[i]])
  <2> HIDE DEF top
  <2> QED BY <1>1, WalkFacts DEF Chained
<1>3. PICK leaf \in NodeId :
        /\ leaf = Last(path)
        /\ kind' = [kind EXCEPT ![new] = "console", ![w] = kd]
        /\ \/ /\ Len(path) = 1
              /\ children' = [children EXCEPT ![w] = WrapChildren(new, leaf)]
              /\ keyed' = [keyed EXCEPT ![w] = IF kd = "tile" THEN {new, leaf} ELSE {}]
              /\ SetSlot(o, [slot EXCEPT !.huts = ReplaceAt(slot.huts, slot.current, w)])
           \/ /\ Len(path) > 1
              /\ \E parent \in NodeId :
                   /\ parent = Last(Front(path))
                   /\ children' = [children EXCEPT
                        ![parent] = ReplaceAll(@, leaf, w),
                        ![w] = WrapChildren(new, leaf)]
                   /\ keyed' = [keyed EXCEPT
                        ![parent] = SwapKey(parent, leaf, w),
                        ![w] = IF kd = "tile" THEN {new, leaf} ELSE {}]
              /\ SetSlot(o, slot)
  BY Zenon DEF WrapLink
<1> HIDE DEF path
<1>4. leaf \in LiveNodes /\ leaf = path[Len(path)]
  BY <1>2, <1>3 DEF Last
<1>5. /\ kind[new] = "none" /\ kind[w] = "none" /\ new # w
      /\ new \notin LiveNodes /\ w \notin LiveNodes
      /\ leaf # new /\ leaf # w /\ new \in NodeId /\ w \in NodeId
  <2>1. kind[new] = "none" /\ kind[w] = "none" /\ new # w
    BY TreeTypes DEF IInv, GraphInv
  <2> QED BY <2>1, <1>4 DEF LiveNodes
<1>6. \A n \in NodeId : kind'[n] = IF n = w THEN kd ELSE IF n = new THEN "console" ELSE kind[n]
  BY <1>t, <1>3, <1>5
<1>7. /\ WrapChildren(new, leaf) = <<new, leaf>>
      /\ <<new, leaf>> \in Seq(NodeId) /\ IsInjective(<<new, leaf>>)
      /\ ToSet(<<new, leaf>>) = {new, leaf}
  BY <1>5, PairEntries DEF WrapChildren
<1> HIDE DEF new, w, top
<1>8. KeysFollow(kd, IF kd = "tile" THEN {new, leaf} ELSE {}, <<new, leaf>>)
  BY <1>7 DEF KeysFollow, Wrappers
<1>9. CASE /\ Len(path) = 1
           /\ children' = [children EXCEPT ![w] = WrapChildren(new, leaf)]
           /\ keyed' = [keyed EXCEPT ![w] = IF kd = "tile" THEN {new, leaf} ELSE {}]
           /\ SetSlot(o, [slot EXCEPT !.huts = ReplaceAt(slot.huts, slot.current, w)])
  <2> DEFINE huts == ReplaceAt(slot.huts, slot.current, w)
             slot2 == [slot EXCEPT !.huts = huts]
  <2>1. leaf = top /\ leaf \in Tops[o]
    BY <1>1, <1>2, <1>4, <1>9
  <2>2. w \notin ToSet(slot.huts)
    BY <1>5, <1>p
  <2>3. IsInjective(huts) /\ ToSet(huts) = (ToSet(slot.huts) \ {leaf}) \cup {w}
    <3>1. IsInjective(huts) /\ ToSet(huts) = (ToSet(slot.huts) \ {slot.huts[slot.current]}) \cup {w}
      BY <1>t, <1>5, <2>2, ReplaceAtEntries
    <3> QED BY <3>1, <2>1 DEF top
  <2>4. slot2.huts = huts
    <3>1. slot2 = [huts |-> huts, current |-> slot.current, preview |-> slot.preview]
      BY SlotUpdates, Zenon
    <3> QED BY <3>1
  <2>5. SetSlot(o, slot2)
    BY <1>9
  <2> HIDE DEF huts, slot2
  <2>6. outputs'[o].huts = huts /\ \A p \in DOMAIN outputs : p # o => outputs'[p] = outputs[p]
    BY <2>4, <2>5 DEF SetSlot
  <2>7. Swapped(DOMAIN outputs, Tops, Tops', leaf, w)
    <3>1. Tops'[o] = Swap(Tops[o], leaf, w)
      BY <1>f, <1>p, <2>1, <2>3, <2>6 DEF Swap
    <3>2. ASSUME NEW p \in DOMAIN outputs, p # o PROVE Tops'[p] = Swap(Tops[p], leaf, w)
      <4>1. leaf \notin Tops[p]
        BY <2>1, <3>2, OnePlace
      <4>2. Tops'[p] = Tops[p]
        BY <1>f, <1>p, <2>6, <3>2
      <4> QED BY <4>1, <4>2 DEF Swap
    <3> QED BY <3>1, <3>2 DEF Swapped
  <2>8. PairBelow(Below, Below', new, leaf, w)
    <3> SUFFICES ASSUME NEW n \in NodeId
                 PROVE  Below'[n] = IF n = w THEN {new, leaf} ELSE Swap(Below[n], leaf, w)
      BY DEF PairBelow
    <3>1. CASE n = w
      BY <1>f, <1>t, <1>7, <1>9, <3>1
    <3>2. CASE n # w
      <4>1. Below'[n] = Below[n]
        BY <1>f, <1>p, <1>9, <3>2
      <4>2. leaf \notin Below[n]
        BY <2>1, OnePlace
      <4> QED BY <3>2, <4>1, <4>2 DEF Swap
    <3> QED BY <3>1, <3>2
  <2>9. \A p \in DOMAIN outputs : IsInjective(outputs'[p].huts)
    BY <2>3, <2>6 DEF TreeInv
  <2>10. ASSUME NEW n \in NodeId
         PROVE  IsInjective(children'[n]) /\ KeysFollow(kind'[n], keyed'[n], children'[n])
    <3>1. CASE n = w
      <4>1. children'[n] = <<new, leaf>> /\ kind'[n] = kd
            /\ keyed'[n] = IF kd = "tile" THEN {new, leaf} ELSE {}
        BY <1>t, <1>6, <1>7, <1>9, <3>1
      <4> QED BY <4>1, <1>7, <1>8
    <3>2. CASE n # w
      <4>1. children'[n] = children[n] /\ keyed'[n] = keyed[n]
        BY <1>t, <1>9, <3>2
      <4>2. kind'[n] = kind[n] \/ (kind[n] = "none" /\ kind'[n] = "console")
        BY <1>5, <1>6, <3>2
      <4> QED BY <1>k, <4>1, <4>2 DEF KeysFollow, Wrappers
    <3> QED BY <3>1, <3>2
  <2>11. PairChange(kd, new, w, leaf)
    BY <1>6, <1>f, <2>7, <2>8, <2>9, <2>10 DEF PairChange
  <2> QED BY <1>4, <1>5, <2>11, PairStep DEF new, w
<1>10. ASSUME NEW parent \in NodeId, Len(path) > 1, parent = Last(Front(path)),
              children' = [children EXCEPT
                   ![parent] = ReplaceAll(@, leaf, w),
                   ![w] = WrapChildren(new, leaf)],
              keyed' = [keyed EXCEPT
                   ![parent] = SwapKey(parent, leaf, w),
                   ![w] = IF kd = "tile" THEN {new, leaf} ELSE {}],
              SetSlot(o, slot)
       PROVE  TreeInv'
  <2>1. parent = path[Len(path) - 1]
    BY <1>2, <1>10 DEF Front, Last
  <2>2. leaf \in Below[parent]
    <3>1. Len(path) - 1 \in 1..(Len(path) - 1) /\ (Len(path) - 1) + 1 = Len(path)
      BY <1>2, <1>10
    <3>2. path[Len(path)] \in ToSet(children[path[Len(path) - 1]])
      BY <1>2, <3>1
    <3> QED BY <1>4, <1>p, <2>1, <3>2
  <2>3. parent # w
    <3>1. children[w] = <<>>
      BY <1>5, TreeTypes DEF WrappersArePairs, Wrappers
    <3>2. Below[w] = {}
      BY <1>p, <1>5, <3>1 DEF ToSet
    <3> QED BY <2>2, <3>2
  <2> DEFINE list == ReplaceAll(children[parent], leaf, w)
  <2>4. IsInjective(list) /\ ToSet(list) = (ToSet(children[parent]) \ {leaf}) \cup {w}
    <3>1. children[parent] \in Seq(NodeId) /\ w \notin ToSet(children[parent])
          /\ IsInjective(children[parent]) /\ leaf \in ToSet(children[parent])
      BY <1>t, <1>p, <1>k, <1>5, <2>2
    <3> QED BY <3>1, <1>5, ReplaceAllEntries
  <2>5. /\ children'[parent] = list /\ children'[w] = <<new, leaf>>
        /\ \A n \in NodeId : n # parent /\ n # w => children'[n] = children[n]
    BY <1>t, <1>5, <1>7, <1>10, <2>3
  <2>6. /\ keyed'[parent] = SwapKey(parent, leaf, w)
        /\ keyed'[w] = IF kd = "tile" THEN {new, leaf} ELSE {}
        /\ \A n \in NodeId : n # parent /\ n # w => keyed'[n] = keyed[n]
    BY <1>t, <1>5, <1>10, <2>3
  <2> HIDE DEF list
  <2>7. outputs'[o].huts = slot.huts /\ \A p \in DOMAIN outputs : p # o => outputs'[p] = outputs[p]
    BY <1>10 DEF SetSlot
  <2>8. Swapped(DOMAIN outputs, Tops, Tops', leaf, w)
    <3> SUFFICES ASSUME NEW p \in DOMAIN outputs PROVE Tops'[p] = Swap(Tops[p], leaf, w)
      BY DEF Swapped
    <3>1. leaf \notin Tops[p]
      BY <2>2, OnePlace
    <3>2. Tops'[p] = Tops[p]
      BY <1>f, <1>p, <2>7
    <3> QED BY <3>1, <3>2 DEF Swap
  <2>9. PairBelow(Below, Below', new, leaf, w)
    <3> SUFFICES ASSUME NEW n \in NodeId
                 PROVE  Below'[n] = IF n = w THEN {new, leaf} ELSE Swap(Below[n], leaf, w)
      BY DEF PairBelow
    <3>1. CASE n = w
      BY <1>f, <1>7, <2>5, <3>1
    <3>2. CASE n = parent
      <4>1. Below'[n] = (Below[n] \ {leaf}) \cup {w}
        BY <1>f, <1>p, <2>4, <2>5, <3>2
      <4> QED BY <4>1, <2>2, <2>3, <3>2 DEF Swap
    <3>3. CASE n # w /\ n # parent
      <4>1. Below'[n] = Below[n]
        BY <1>f, <1>p, <2>5, <3>3
      <4>2. leaf \notin Below[n]
        BY <2>2, <3>3, OnePlace
      <4> QED BY <3>3, <4>1, <4>2 DEF Swap
    <3> QED BY <3>1, <3>2, <3>3
  <2>10. \A p \in DOMAIN outputs : IsInjective(outputs'[p].huts)
    BY <2>7 DEF TreeInv
  <2>11. ASSUME NEW n \in NodeId
         PROVE  IsInjective(children'[n]) /\ KeysFollow(kind'[n], keyed'[n], children'[n])
    <3>1. CASE n = w
      <4>1. children'[n] = <<new, leaf>> /\ kind'[n] = kd
            /\ keyed'[n] = IF kd = "tile" THEN {new, leaf} ELSE {}
        BY <1>6, <2>5, <2>6, <3>1
      <4> QED BY <4>1, <1>7, <1>8
    <3>2. CASE n = parent
      <4>1. kind[n] # "none"
        <5>1. Forest(Tops, Below, LiveNodes)
          BY DEF TreeInv
        <5> QED BY <5>1, <2>2, <3>2 DEF Forest, LiveNodes
      <4>2. kind'[n] = kind[n]
        BY <4>1, <1>5, <1>6, <2>3, <3>2
      <4>3. keyed'[n] = SwapKey(n, leaf, w) /\ ToSet(children'[n]) = (ToSet(children[n]) \ {leaf}) \cup {w}
            /\ leaf \in ToSet(children[n]) /\ IsInjective(children'[n])
        BY <2>2, <2>4, <2>5, <2>6, <3>2, <1>p
      <4>4. keyed'[n] = (keyed[n] \ {leaf}) \cup
                          (IF kind[n] = "tile" /\ leaf \in keyed[n] THEN {w} ELSE {})
        BY <4>3 DEF SwapKey
      <4>5. KeysFollow(kind[n], keyed[n], children[n])
        BY <1>k
      <4> QED BY <4>2, <4>3, <4>4, <4>5 DEF KeysFollow, Wrappers
    <3>3. CASE n # w /\ n # parent
      <4>1. children'[n] = children[n] /\ keyed'[n] = keyed[n]
        BY <2>5, <2>6, <3>3
      <4>2. kind'[n] = kind[n] \/ (kind[n] = "none" /\ kind'[n] = "console")
        BY <1>5, <1>6, <3>3
      <4> QED BY <1>k, <4>1, <4>2 DEF KeysFollow, Wrappers
    <3> QED BY <3>1, <3>2, <3>3
  <2>12. PairChange(kd, new, w, leaf)
    BY <1>6, <1>f, <2>8, <2>9, <2>10, <2>11 DEF PairChange
  <2> QED BY <1>4, <1>5, <2>12, PairStep DEF new, w
<1> QED BY <1>3, <1>9, <1>10

\* wrap_tab and wrap_tile keep the tree sound, whichever node they take.
LEMMA WrapKeepsTree ==
    ASSUME IInv, IInv', TreeInv, NEW kd \in Wrappers, Wrap(kd)
    PROVE  TreeInv'
<1> DEFINE o    == focusedOutput
           slot == Committed(outputs[o])
<1>1. o \in DOMAIN outputs
  BY DEF IInv, TypeOK
<1>2. outputs[o] \in Slots /\ SlotGood(outputs[o]) /\ IsInjective(outputs[o].huts)
  BY <1>1, FocusedList
<1>3. slot \in Slots /\ IsInjective(slot.huts) /\ ToSet(slot.huts) = ToSet(outputs[o].huts)
  BY <1>2, CommittedFacts, CommittedList
<1>4. slot.current \in DOMAIN slot.huts
  BY DEF Wrap
<1>5. \/ SetSlot(o, slot) /\ UNCHANGED graphVars
      \/ TRUE \in SpawnOutcomes(2) /\ WrapLink(o, slot, kd, nextId, nextId + 1)
  <2>1. PICK ok \in SpawnOutcomes(2) :
          IF ok
          THEN WrapLink(o, slot, kd, nextId, nextId + 1) /\ nextId' = nextId + 2
          ELSE SetSlot(o, slot) /\ UNCHANGED graphVars
    BY Zenon DEF Wrap
  <2>2. ok \in BOOLEAN
    BY DEF SpawnOutcomes
  <2>3. CASE ok = TRUE
    BY <2>1, <2>3, Zenon
  <2>4. CASE ok = FALSE
    BY <2>1, <2>4, Zenon
  <2> QED BY <2>2, <2>3, <2>4
<1> HIDE DEF slot
<1>6. CASE SetSlot(o, slot) /\ UNCHANGED graphVars
  <2>1. UNCHANGED <<kind, children, keyed>>
    BY <1>6 DEF graphVars
  <2> QED BY <1>1, <1>3, <1>6, <2>1, ReorderKeepsTree
<1>7. CASE TRUE \in SpawnOutcomes(2) /\ WrapLink(o, slot, kd, nextId, nextId + 1)
  <2>1. nextId \in NodeId /\ nextId + 1 \in NodeId
    <3>1. TRUE \in SpawnOutcomes(2) /\ nextId \in Nat \ {0}
      BY <1>7, TreeTypes
    <3>2. nextId + 2 - 1 \in NodeId
      BY <3>1, Zenon DEF SpawnOutcomes
    <3> QED BY <3>1, <3>2, BoundsAssumption DEF NodeId
  <2> QED BY <1>1, <1>3, <1>4, <1>7, <2>1, WrapLinkKeepsTree
<1> QED BY <1>5, <1>6, <1>7

\* Steps that move a focus, draw, type or map: no place changes.
LEMMA OtherStepsKeepTree ==
    ASSUME IInv, TreeInv, UNCHANGED <<kind, children, keyed, outputs>>
    PROVE  TreeInv'
<1>1. KeyedByChildren'
  BY DEF TreeInv, KeyedByChildren
<1> QED BY <1>1, SameTree

\* Drawing the tab strips fills in titles and keeps the tree sound.
LEMMA RenderKeepsTree ==
    ASSUME IInv, TreeInv, NEW o \in DOMAIN outputs, RenderTabStrips(o)
    PROVE  TreeInv'
<1> DEFINE path  == FocusedPath(TopLevel(o))
           drawn == {path[k] : k \in {i \in DOMAIN path : \A j \in 1..i : kind[path[j]] = "tab"}}
<1>1. /\ UNCHANGED <<kind, children, outputs>>
      /\ keyed' = [n \in NodeId |-> IF n \in drawn
                                    THEN keyed[n] \cup ToSet(children[n]) ELSE keyed[n]]
  BY DEF RenderTabStrips, slotVars
<1>2. TopLevel(o) \in LiveNodes
  BY EntriesLive DEF RenderTabStrips, InRange, TopLevel
<1>3. Len(path) \in Nat /\ DOMAIN path = 1..Len(path)
  BY <1>2, WalkFacts DEF Chained
<1>4. \A n \in drawn : kind[n] = "tab"
  <2> HIDE DEF path
  <2> QED BY <1>3
<1> HIDE DEF drawn
<1>5. KeyedByChildren'
  <2> SUFFICES ASSUME NEW n \in NodeId
               PROVE  KeysFollow(kind'[n], keyed'[n], children'[n])
    BY KeyedPointwiseNext
  <2>1. KeysFollow(kind[n], keyed[n], children[n])
    BY KeyedPointwise DEF TreeInv
  <2>2. kind'[n] = kind[n] /\ children'[n] = children[n]
        /\ keyed'[n] = IF n \in drawn THEN keyed[n] \cup ToSet(children[n]) ELSE keyed[n]
    BY <1>1
  <2> QED BY <1>4, <2>1, <2>2 DEF KeysFollow, Wrappers
<1> QED BY <1>1, <1>5, SameTree

\* The same, with the swap of the two entries as one set.
LEMMA SwappedEntries ==
    ASSUME NEW S, NEW s \in Seq(S), IsInjective(s), NEW old \in S, NEW new \in S,
           new \notin ToSet(s), NEW r, r = ReplaceAll(s, old, new)
    PROVE  IsInjective(r) /\ ToSet(r) = Swap(ToSet(s), old, new)
<1>1. DOMAIN r = DOMAIN s /\ \A j \in DOMAIN s : r[j] = IF s[j] = old THEN new ELSE s[j]
  BY DEF ReplaceAll
<1>2. IsInjective(r)
  BY <1>1 DEF IsInjective, ToSet
<1>3. CASE old \in ToSet(s)
  <2>1. ToSet(r) = (ToSet(s) \ {old}) \cup {new}
    BY <1>1, <1>3 DEF ToSet
  <2> QED BY <1>2, <1>3, <2>1 DEF Swap
<1>4. CASE old \notin ToSet(s)
  <2>1. ToSet(r) = ToSet(s)
    BY <1>1, <1>4 DEF ToSet
  <2> QED BY <1>2, <1>4, <2>1 DEF Swap
<1> QED BY <1>3, <1>4

\* A nested shell n exits: its parent, a pair, collapses onto the other child s,
\* which takes the parent's place in the lists and under the keys.
CollapsesOnto(n, parent, s, at) ==
    /\ kind[parent] \in Wrappers /\ s # n /\ parent # n /\ Below[parent] = {n, s}
    /\ kind' = [kind EXCEPT ![n] = "none", ![parent] = "none"]
    /\ children' = [m \in NodeId |-> IF m = parent THEN <<>>
                      ELSE ReplaceAll(children[m], parent, s)]
    /\ keyed' = [m \in NodeId |-> IF m = parent THEN {} ELSE SwapKey(m, parent, s)]
    /\ active' = [active EXCEPT ![parent] = 1]
    /\ DOMAIN outputs' = DOMAIN outputs
    /\ \A o \in DOMAIN outputs :
         /\ outputs'[o].huts = ReplaceAll(outputs[o].huts, parent, s)
         /\ outputs'[o].current =
              IF o = at THEN ClampIndex(outputs[o].current, Len(outputs[o].huts))
              ELSE outputs[o].current
         /\ outputs'[o].preview =
              IF o = at /\ outputs[o].preview # 0
              THEN ClampIndex(outputs[o].preview, Len(outputs[o].huts))
              ELSE outputs[o].preview

\* The exit of a nested shell collapses its pair onto the other child.
LEMMA ExitNestedCollapses ==
    ASSUME IInv, TreeInv, NEW n \in NodeId, kind[n] = "console", ExitNested(n)
    PROVE  \E parent, s \in NodeId, at \in DOMAIN outputs : CollapsesOnto(n, parent, s, at)
<1>1. PICK parent \in NodeId : \E i \in DOMAIN children[parent] :
        children[parent][i] = n /\ \E o \in DOMAIN outputs : ExitChild(parent, i, n, o)
  BY Zenon DEF ExitNested
<1>2. PICK i \in DOMAIN children[parent] :
        children[parent][i] = n /\ \E o \in DOMAIN outputs : ExitChild(parent, i, n, o)
  BY <1>1
<1>3. PICK at \in DOMAIN outputs : ExitChild(parent, i, n, at)
  BY <1>2
<1> DEFINE left == RemoveAt(children[parent], i)
           s    == left[1]
           D    == DOMAIN outputs
<1>t. /\ kind \in [NodeId -> Kinds] /\ children \in [NodeId -> Seq(NodeId)]
      /\ keyed \in [NodeId -> SUBSET NodeId] /\ outputs \in Seq(Slots)
      /\ \A o \in DOMAIN outputs : outputs[o].huts \in Seq(NodeId)
      /\ Below \in Family(NodeId) /\ Tops \in Family(D) /\ WrappersArePairs
  BY TreeTypes
<1>p. /\ \A o \in D : Tops[o] = ToSet(outputs[o].huts) /\ Tops[o] \subseteq LiveNodes
      /\ \A m \in NodeId : Below[m] = ToSet(children[m]) /\ Below[m] \subseteq LiveNodes
  BY PlacesLive
<1>k. /\ \A m \in NodeId : KeysFollow(kind[m], keyed[m], children[m]) /\ IsInjective(children[m])
      /\ \A o \in D : IsInjective(outputs[o].huts)
  BY KeyedPointwise DEF TreeInv
<1>4. Len(children[parent]) = 2 /\ children[parent] \in Seq(NodeId) /\ kind[parent] \in Wrappers
  <2>1. children[parent] \in Seq(NodeId) /\ children[parent] # <<>>
    BY <1>t
  <2> QED BY <1>t, <2>1 DEF WrappersArePairs
<1>5. left \in Seq(NodeId) /\ Len(left) = 1 /\ ToSet(left) = ToSet(children[parent]) \ {n}
  <2>1. left \in Seq(NodeId) /\ Len(left) = Len(children[parent]) - 1
    BY <1>4, RemoveAtFacts, Zenon
  <2>2. ToSet(left) = ToSet(children[parent]) \ {children[parent][i]}
    BY <1>4, <1>k, RemoveAtEntries
  <2> HIDE DEF left
  <2> QED BY <1>2, <1>4, <2>1, <2>2
<1>6. s \in NodeId /\ s # n /\ Below[parent] = {n, s}
  <2> HIDE DEF left
  <2>1. DOMAIN left = {1}
    BY <1>5
  <2>2. ToSet(left) = {s}
    BY <2>1 DEF ToSet
  <2>3. s \in NodeId
    <3>1. \A l \in Seq(NodeId) : Len(l) = 1 => l[1] \in NodeId
      OBVIOUS
    <3> QED BY <1>5, <3>1
  <2>4. n \in ToSet(children[parent])
    BY <1>2 DEF ToSet
  <2> HIDE DEF s
  <2> QED BY <1>5, <1>p, <2>2, <2>3, <2>4
<1>7. Collapses(left)
  BY <1>5 DEF Collapses
<1> HIDE DEF left, s
<1>8. /\ kind' = [kind EXCEPT ![n] = "none", ![parent] = "none"]
      /\ children' = [m \in NodeId |-> IF m = parent THEN <<>>
                        ELSE ReplaceAll(children[m], parent, s)]
      /\ keyed' = [m \in NodeId |-> IF m = parent THEN {} ELSE SwapKey(m, parent, s)]
      /\ active' = [active EXCEPT ![parent] = 1]
  BY <1>3, <1>7, Zenon DEF ExitChild, Unlink, left, s
<1>9. /\ DOMAIN outputs' = D
      /\ \A o \in D :
           /\ outputs'[o].huts = ReplaceAll(outputs[o].huts, parent, s)
           /\ outputs'[o].current =
                IF o = at THEN ClampIndex(outputs[o].current, Len(outputs[o].huts))
                ELSE outputs[o].current
           /\ outputs'[o].preview =
                IF o = at /\ outputs[o].preview # 0
                THEN ClampIndex(outputs[o].preview, Len(outputs[o].huts))
                ELSE outputs[o].preview
  <2> DEFINE huts(o) == ReplaceAll(outputs[o].huts, parent, s)
             clamp(x) == ClampIndex(x, Len(outputs[at].huts))
             new(o) == IF o = at
                       THEN [huts |-> huts(o), current |-> clamp(outputs[o].current),
                             preview |-> IF outputs[o].preview = 0 THEN 0
                                         ELSE clamp(outputs[o].preview)]
                       ELSE [outputs[o] EXCEPT !.huts = huts(o)]
  <2>1. outputs' = [o \in DOMAIN outputs |-> new(o)]
    BY <1>3, <1>7, Zenon DEF ExitChild, left, s
  <2>2. ASSUME NEW o \in D
        PROVE  /\ new(o).huts = huts(o)
               /\ new(o).current = IF o = at THEN clamp(outputs[o].current)
                                   ELSE outputs[o].current
               /\ new(o).preview = IF o = at /\ outputs[o].preview # 0
                                   THEN clamp(outputs[o].preview) ELSE outputs[o].preview
    <3>1. outputs[o] \in Slots
      BY <1>t
    <3>2. [outputs[o] EXCEPT !.huts = huts(o)] =
            [huts |-> huts(o), current |-> outputs[o].current, preview |-> outputs[o].preview]
      BY <3>1, SlotUpdates, Zenon
    <3> HIDE DEF huts, clamp
    <3>3. CASE o = at
      BY <3>3
    <3>4. CASE o # at
      BY <3>2, <3>4
    <3> QED BY <3>3, <3>4
  <2> HIDE DEF new
  <2> QED BY <2>1, <2>2
<1>10. parent # n
  BY <1>4 DEF Wrappers
<1> QED BY <1>4, <1>6, <1>8, <1>9, <1>10 DEF CollapsesOnto

\* That collapse is a step from a forest to a forest.
LEMMA ExitNestedKeepsTree ==
    ASSUME IInv, IInv', TreeInv, NEW n \in NodeId, kind[n] = "console", ExitNested(n)
    PROVE  TreeInv'
<1>1. PICK parent, s \in NodeId, at \in DOMAIN outputs : CollapsesOnto(n, parent, s, at)
  BY ExitNestedCollapses
<1> DEFINE D == DOMAIN outputs
           J == Tops'
           M == Below'
           N == LiveNodes \ {n, parent}
<1>t. /\ kind \in [NodeId -> Kinds] /\ children \in [NodeId -> Seq(NodeId)]
      /\ keyed \in [NodeId -> SUBSET NodeId] /\ outputs \in Seq(Slots)
      /\ \A o \in DOMAIN outputs : outputs[o].huts \in Seq(NodeId)
      /\ Below \in Family(NodeId) /\ Tops \in Family(D) /\ WrappersArePairs
  BY TreeTypes
<1>p. /\ \A o \in D : Tops[o] = ToSet(outputs[o].huts) /\ Tops[o] \subseteq LiveNodes
      /\ \A m \in NodeId : Below[m] = ToSet(children[m]) /\ Below[m] \subseteq LiveNodes
  BY PlacesLive
<1>k. /\ \A m \in NodeId : KeysFollow(kind[m], keyed[m], children[m]) /\ IsInjective(children[m])
      /\ \A o \in D : IsInjective(outputs[o].huts)
  BY KeyedPointwise DEF TreeInv
<1>6. s \in NodeId /\ s # n /\ Below[parent] = {n, s}
  BY <1>1 DEF CollapsesOnto
<1>8. /\ kind' = [kind EXCEPT ![n] = "none", ![parent] = "none"]
      /\ children' = [m \in NodeId |-> IF m = parent THEN <<>>
                        ELSE ReplaceAll(children[m], parent, s)]
      /\ keyed' = [m \in NodeId |-> IF m = parent THEN {} ELSE SwapKey(m, parent, s)]
  BY <1>1 DEF CollapsesOnto
<1>9. /\ DOMAIN outputs' = D
      /\ \A o \in D : outputs'[o].huts = ReplaceAll(outputs[o].huts, parent, s)
  BY <1>1 DEF CollapsesOnto
<1>f. /\ J \in Family(D) /\ M \in Family(NodeId)
      /\ \A o \in D : J[o] = ToSet(outputs'[o].huts)
      /\ \A m \in NodeId : M[m] = ToSet(children'[m])
  BY <1>9, FamiliesNext
<1>10. /\ \A o \in D : s \notin Tops[o]
       /\ \A m \in NodeId : m # parent => s \notin Below[m]
  BY <1>6, OnePlace
<1>11. ASSUME NEW o \in D
       PROVE  IsInjective(outputs'[o].huts) /\ J[o] = Swap(Tops[o], parent, s)
  <2>1. /\ outputs[o].huts \in Seq(NodeId) /\ IsInjective(outputs[o].huts)
        /\ s \notin ToSet(outputs[o].huts) /\ Tops[o] = ToSet(outputs[o].huts)
    BY <1>t, <1>p, <1>k, <1>10
  <2> DEFINE list == ReplaceAll(outputs[o].huts, parent, s)
  <2>2. list = ReplaceAll(outputs[o].huts, parent, s)
    OBVIOUS
  <2> HIDE DEF list
  <2>3. outputs'[o].huts = list /\ J[o] = ToSet(outputs'[o].huts)
    BY <1>9, <1>f, <2>2
  <2>4. IsInjective(list) /\ ToSet(list) = Swap(ToSet(outputs[o].huts), parent, s)
    BY <1>6, <2>1, <2>2, SwappedEntries
  <2> HIDE DEF J
  <2> QED BY <2>1, <2>3, <2>4
<1>12. ASSUME NEW m \in NodeId, m # parent
       PROVE  /\ IsInjective(children'[m]) /\ M[m] = Swap(Below[m], parent, s)
              /\ M[m] = ToSet(children'[m]) /\ Below[m] = ToSet(children[m])
  <2>1. /\ children[m] \in Seq(NodeId) /\ IsInjective(children[m])
        /\ s \notin ToSet(children[m]) /\ Below[m] = ToSet(children[m])
    BY <1>t, <1>p, <1>k, <1>10, <1>12
  <2> DEFINE list == ReplaceAll(children[m], parent, s)
  <2>2. list = ReplaceAll(children[m], parent, s)
    OBVIOUS
  <2> HIDE DEF list
  <2>3. children'[m] = list /\ M[m] = ToSet(children'[m])
    BY <1>8, <1>12, <1>f, <2>2
  <2>4. IsInjective(list) /\ ToSet(list) = Swap(ToSet(children[m]), parent, s)
    BY <1>6, <2>1, <2>2, SwappedEntries
  <2> HIDE DEF M
  <2> QED BY <2>1, <2>3, <2>4
<1>13. children'[parent] = <<>> /\ M[parent] = {} /\ keyed'[parent] = {} /\ IsInjective(<<>>)
  <2>1. children'[parent] = <<>> /\ keyed'[parent] = {}
    BY <1>8
  <2>2. ToSet(<<>>) = {} /\ IsInjective(<<>>)
    BY DEF ToSet, IsInjective
  <2> QED BY <1>f, <2>1, <2>2
<1>14. Below[n] = {}
  <2>1. children[n] = <<>>
    BY <1>t DEF WrappersArePairs, Wrappers
  <2> QED BY <1>p, <2>1 DEF ToSet
<1>15. Swapped(D, Tops, J, parent, s)
  <2> HIDE DEF D, J
  <2> QED BY <1>11 DEF Swapped
<1>16. PairGone(Below, M, parent, s)
  <2> HIDE DEF M
  <2> QED BY <1>12, <1>13 DEF PairGone
<1>17. Forest(Tops, Below, LiveNodes) /\ N = LiveNodes \ {n, parent}
  BY DEF TreeInv
<1>18. Forest(J, M, N)
  <2> HIDE DEF D, J, M, N
  <2> QED BY <1>t, <1>f, <1>6, <1>14, <1>15, <1>16, <1>17, Collapsed
<1>19. LiveNodes' = N
  <2>1. \A m \in NodeId : kind'[m] = IF m \in {n, parent} THEN "none" ELSE kind[m]
    BY <1>t, <1>8
  <2> QED BY <2>1 DEF LiveNodes
<1>20. Forest(Tops', Below', LiveNodes')
  BY <1>18, <1>19
<1>21. (\A o \in DOMAIN outputs : IsInjective(outputs[o].huts))'
  BY <1>9, <1>11
<1>22. (\A m \in NodeId : IsInjective(children[m]))'
  BY <1>12, <1>13
<1>23. KeyedByChildren'
  <2> SUFFICES ASSUME NEW m \in NodeId
               PROVE  KeysFollow(kind'[m], keyed'[m], children'[m])
    BY KeyedPointwiseNext
  <2>0. kind'[m] = IF m \in {n, parent} THEN "none" ELSE kind[m]
    BY <1>t, <1>8
  <2>1. CASE m = parent
    BY <1>13, <2>0, <2>1 DEF KeysFollow, Wrappers
  <2>2. CASE m # parent
    <3>1. KeysFollow(kind[m], keyed[m], children[m])
      BY <1>k
    <3>2. keyed'[m] = SwapKey(m, parent, s)
      BY <1>8, <2>2
    <3>3. ToSet(children'[m]) = Swap(ToSet(children[m]), parent, s)
      BY <1>12, <2>2
    <3>4. CASE m = n
      <4>1. kind[m] = "console" /\ kind'[m] = "none" /\ keyed[m] = {}
        BY <3>1, <3>4, <2>0 DEF KeysFollow, Wrappers
      <4>2. keyed'[m] = {}
        BY <3>2, <4>1 DEF SwapKey
      <4> QED BY <4>1, <4>2 DEF KeysFollow, Wrappers
    <3>5. CASE m # n
      <4>1. kind'[m] = kind[m]
        BY <2>0, <2>2, <3>5
      <4>2. CASE parent \in ToSet(children[m])
        <5>1. keyed'[m] = (keyed[m] \ {parent}) \cup
                            (IF kind[m] = "tile" /\ parent \in keyed[m] THEN {s} ELSE {})
          BY <3>2, <4>2 DEF SwapKey
        <5>2. ToSet(children'[m]) = (ToSet(children[m]) \ {parent}) \cup {s}
          BY <3>3, <4>2 DEF Swap
        <5> QED BY <3>1, <4>1, <4>2, <5>1, <5>2 DEF KeysFollow, Wrappers
      <4>3. CASE parent \notin ToSet(children[m])
        <5>1. keyed'[m] = keyed[m] /\ ToSet(children'[m]) = ToSet(children[m])
          BY <3>2, <3>3, <4>3 DEF SwapKey, Swap
        <5> QED BY <3>1, <4>1, <5>1 DEF KeysFollow
      <4> QED BY <4>2, <4>3
    <3> QED BY <3>4, <3>5
  <2> QED BY <2>1, <2>2
<1> QED BY <1>20, <1>21, <1>22, <1>23 DEF TreeInv

-----------------------------------------------------------------------------
(* The invariant as a whole.                                               *)

\* One console in one list: the smallest forest.
LEMMA InitTree == Init => TreeInv
<1> SUFFICES ASSUME Init PROVE TreeInv
  OBVIOUS
<1> USE BoundsAssumption
<1>1. 1 \in NodeId
  BY DEF NodeId
<1>2. /\ outputs = <<NewSlot(1)>> /\ NewSlot(1).huts = <<1>>
      /\ DOMAIN outputs = {1} /\ outputs[1].huts = <<1>>
  BY DEF Init, NewSlot
<1>3. \A n \in NodeId : /\ children[n] = <<>> /\ keyed[n] = {}
                        /\ kind[n] = IF n = 1 THEN "console" ELSE "none"
  BY DEF Init
<1>4. ToSet(<<1>>) = {1} /\ IsInjective(<<1>>)
  BY SingleEntries, <1>1
<1>5. ToSet(<<>>) = {} /\ IsInjective(<<>>)
  BY DEF ToSet, IsInjective
<1>6. DOMAIN Tops = {1} /\ Tops[1] = {1}
  BY <1>2, <1>4 DEF Tops
<1>7. DOMAIN Below = NodeId /\ \A n \in NodeId : Below[n] = {}
  BY <1>3, <1>5 DEF Below
<1>8. LiveNodes = {1}
  BY <1>1, <1>3 DEF LiveNodes
<1>9. Forest(Tops, Below, LiveNodes)
  BY <1>6, <1>7, <1>8 DEF Forest, Grounded
<1>10. KeyedByChildren
  <2> SUFFICES ASSUME NEW n \in NodeId PROVE KeysFollow(kind[n], keyed[n], children[n])
    BY KeyedPointwise
  <2> QED BY <1>3 DEF KeysFollow, Wrappers
<1>11. \A n \in NodeId : IsInjective(children[n])
  BY <1>3, <1>5
<1> QED BY <1>2, <1>4, <1>9, <1>10, <1>11 DEF TreeInv

\* Every handler keeps the outputs' lists and the wrappers' children a forest.
LEMMA StepTree == IInv /\ TreeInv /\ [Next]_vars => TreeInv'
<1> SUFFICES ASSUME IInv, TreeInv, [Next]_vars PROVE TreeInv'
  OBVIOUS
<1>0. IInv'
  BY StepIInv
<1>1. CASE SpawnWithCommand
  BY <1>0, <1>1, SpawnWithCommandKeepsTree
<1>2. CASE RunLoop \/ Panic \/ EndBatch \/ UNCHANGED vars
  <2>1. UNCHANGED <<kind, children, keyed, outputs>>
    BY <1>2 DEF RunLoop, Panic, EndBatch, vars, graphVars, slotVars
  <2> QED BY <2>1, OtherStepsKeepTree
<1>3. CASE StackNext
  BY <1>0, <1>3, StackNextKeepsTree
<1>4. CASE StackPrev
  BY <1>0, <1>4, StackPrevKeepsTree
<1>5. CASE ReleaseHold \/ LateCommit
  <2>1. CommitPreview
    BY <1>5 DEF ReleaseHold, LateCommit
  <2> QED BY <1>0, <2>1, CommitKeepsTree
<1>6. CASE PressHold
  <2>1. UNCHANGED <<kind, children, keyed, outputs>>
    BY <1>6 DEF PressHold, graphVars, slotVars
  <2> QED BY <2>1, OtherStepsKeepTree
<1>7. ASSUME NEW kd \in Wrappers, Wrap(kd) PROVE TreeInv'
  BY <1>0, <1>7, WrapKeepsTree
<1>8. ASSUME NEW dir \in {"next", "prev"}, CycleInnermost(dir) PROVE TreeInv'
  <2>1. UNCHANGED <<kind, children, keyed, outputs>>
    BY <1>8 DEF CycleInnermost, slotVars
  <2> QED BY <2>1, OtherStepsKeepTree
<1>9. CASE ClickChrome
  <2>1. UNCHANGED <<kind, children, keyed, outputs>>
    BY <1>9 DEF ClickChrome, slotVars
  <2> QED BY <2>1, OtherStepsKeepTree
<1>10. CASE Type \/ (\E n \in AllHuts : MapWindow(n) \/ UnmapWindows(n))
  <2>1. UNCHANGED <<kind, children, keyed, outputs>>
    BY <1>10 DEF Type, MapWindow, UnmapWindows, graphVars, slotVars
  <2> QED BY <2>1, OtherStepsKeepTree
<1>11. ASSUME NEW o \in DOMAIN outputs, RenderTabStrips(o) PROVE TreeInv'
  BY <1>11, RenderKeepsTree
<1>12. ASSUME NEW o, RemoveOutput(o) PROVE TreeInv'
  BY <1>0, <1>12, RemoveOutputKeepsTree
<1>13. ASSUME NEW o, SetFocusedOutput(o) PROVE TreeInv'
  <2>1. UNCHANGED <<kind, children, keyed, outputs>>
    BY <1>13 DEF SetFocusedOutput, graphVars
  <2> QED BY <2>1, OtherStepsKeepTree
<1>14. ASSUME NEW n \in AllHuts, Exited(n) PROVE TreeInv'
  <2>1. n \in NodeId /\ kind[n] = "console"
    BY DEF AllHuts
  <2>2. LogOut \/ ExitTopLevel(n) \/ ExitNested(n)
    BY <1>14 DEF Exited
  <2>3. CASE LogOut
    <3>1. UNCHANGED <<kind, children, keyed, outputs>>
      BY <2>3 DEF LogOut, graphVars, slotVars
    <3> QED BY <3>1, OtherStepsKeepTree
  <2> QED BY <1>0, <2>1, <2>2, <2>3, ExitTopLevelKeepsTree, ExitNestedKeepsTree
<1>15. CASE AddOutput
  BY <1>0, <1>15, AddOutputKeepsTree
<1> QED BY <1>1, <1>2, <1>3, <1>4, <1>5, <1>6, <1>7, <1>8, <1>9, <1>10, <1>11, <1>12,
           <1>13, <1>14, <1>15, Zenon DEF Next, Keyboard, Ended

\* In every reachable state the lists of the outputs and the children of the
\* wrappers form a forest over the nodes of the graph.
THEOREM TreeInductive == Spec => [](IInv /\ TreeInv)
<1>1. Init => IInv /\ TreeInv
  BY InitIInv, InitTree
<1>2. IInv /\ TreeInv /\ [Next]_vars => (IInv /\ TreeInv)'
  BY StepIInv, StepTree
<1> QED BY <1>1, <1>2, PTL DEF Spec

\* Whatever output the user is on, following the active children of its current
\* entry (focused_path) ends at a console: keys always have a terminal to go to.
THEOREM FocusStaysOnConsole == Spec => []FocusReachesConsole
  BY TreeInductive, FocusIsAConsole, PTL

\* A tab or a tile never holds a key (a label, a split) for a node that is not
\* its child, nor a tile lacks one: swap_child_in_place and remove_child keep
\* child_chrome and the children in step.
THEOREM KeysStayWithChildren == Spec => []KeyedByChildren
<1>1. TreeInv => KeyedByChildren
  BY DEF TreeInv
<1> QED BY <1>1, TreeInductive, PTL

-----------------------------------------------------------------------------
(* The tree as the runs state it: one slot for each node.                  *)

\* What all_ids collects: everything under an entry of an output.
LEMMA Collected ==
    ASSUME NEW n, NEW o \in DOMAIN outputs, NEW top \in ToSet(outputs[o].huts), n \in Under(top)
    PROVE  n \in AllNodeIds
<1>1. n \in UnderOutput(o)
  BY DEF UnderOutput
<1> QED BY <1>1 DEF AllNodeIds

\* Every node of the graph is reached from some output's list: what is not would
\* have all its parents out of reach as well, and a forest has no such set.
LEMMA AllReached ==
    ASSUME IInv, TreeInv
    PROVE  LiveNodes \subseteq AllNodeIds
<1> DEFINE C == LiveNodes \ AllNodeIds
<1>1. /\ Forest(Tops, Below, LiveNodes) /\ DOMAIN Tops = DOMAIN outputs
      /\ children \in [NodeId -> Seq(NodeId)] /\ Below \in Family(NodeId)
      /\ Tops \in Family(DOMAIN outputs) /\ LiveNodes \in SUBSET NodeId
  BY TreeTypes DEF TreeInv, Tops, LiveNodes
<1>2. /\ \A o \in DOMAIN outputs : Tops[o] = ToSet(outputs[o].huts) /\ Tops[o] \subseteq NodeId
      /\ \A p \in NodeId : Below[p] = ToSet(children[p])
  BY <1>1, PlacesLive
<1>3. ASSUME NEW n \in C PROVE \E p \in C : n \in Below[p]
  <2>1. \A o \in DOMAIN outputs : n \notin Tops[o]
    <3> SUFFICES ASSUME NEW o \in DOMAIN outputs, n \in Tops[o] PROVE FALSE
      OBVIOUS
    <3>1. n \in Under(n) /\ n \in ToSet(outputs[o].huts)
      BY <1>1, <1>2, UnderFacts
    <3> QED BY <3>1, Collected
  <2>2. PICK p \in NodeId : n \in Below[p]
    BY <1>1, <2>1 DEF Forest
  <2>3. p \in LiveNodes
    BY <1>1, <2>2 DEF Forest
  <2>4. p \notin AllNodeIds
    <3> SUFFICES ASSUME p \in AllNodeIds PROVE FALSE
      OBVIOUS
    <3>1. PICK o \in DOMAIN outputs : p \in UnderOutput(o)
      BY DEF AllNodeIds
    <3>2. PICK top \in ToSet(outputs[o].huts) : p \in Under(top)
      BY <3>1 DEF UnderOutput
    <3>3. top \in NodeId
      BY <1>2, <3>2
    <3>4. n \in Under(top)
      BY <1>1, <1>2, <2>2, <3>2, <3>3, UnderFacts
    <3> QED BY <3>4, Collected
  <2> QED BY <2>2, <2>3, <2>4
<1>4. C \in SUBSET NodeId
  BY <1>1
<1>5. C = {}
  <2> HIDE DEF C
  <2> QED BY <1>1, <1>3, <1>4 DEF Forest, Grounded
<1> QED BY <1>5

\* Where the lists name a node: in one slot if its place is in such a list, in
\* none otherwise.
LEMMA TopPlacesCount ==
    ASSUME IInv, TreeInv, NEW n \in NodeId
    PROVE  /\ IsFiniteSet(TopPlaces(n))
           /\ Cardinality(TopPlaces(n)) =
                IF \E o \in DOMAIN outputs : n \in Tops[o] THEN 1 ELSE 0
<1>1. /\ \A o \in DOMAIN outputs : outputs[o].huts \in Seq(NodeId)
      /\ \A o \in DOMAIN outputs : IsInjective(outputs[o].huts)
      /\ \A o \in DOMAIN outputs : Tops[o] = ToSet(outputs[o].huts)
  BY TreeTypes, PlacesLive DEF TreeInv
<1>2. CASE \E o \in DOMAIN outputs : n \in Tops[o]
  <2>1. PICK o \in DOMAIN outputs : n \in Tops[o]
    BY <1>2
  <2>2. PICK i \in DOMAIN outputs[o].huts : outputs[o].huts[i] = n
    BY <1>1, <2>1 DEF ToSet
  <2>3. \A p \in DOMAIN outputs : n \in Tops[p] => p = o
    BY <2>1, OnePlace
  <2>4. i \in NodeId
    BY <1>1, <2>2, ShortList
  <2>5. ASSUME NEW q \in TopPlaces(n) PROVE q = <<o, i>>
    <3>1. PICK p \in DOMAIN outputs, j \in NodeId :
            q = <<p, j>> /\ j \in DOMAIN outputs[p].huts /\ outputs[p].huts[j] = n
      BY DEF TopPlaces
    <3>2. n \in Tops[p]
      BY <1>1, <3>1 DEF ToSet
    <3>3. p = o
      BY <2>3, <3>2
    <3>4. j = i
      BY <1>1, <2>2, <3>1, <3>3 DEF IsInjective
    <3> QED BY <3>1, <3>3, <3>4
  <2>6. <<o, i>> \in TopPlaces(n)
    BY <2>2, <2>4 DEF TopPlaces
  <2>7. TopPlaces(n) = {<<o, i>>}
    BY <2>5, <2>6, Zenon
  <2> QED BY <1>2, <2>7, FS_Singleton
<1>3. CASE ~\E o \in DOMAIN outputs : n \in Tops[o]
  <2>1. ASSUME NEW q \in TopPlaces(n) PROVE FALSE
    <3>1. PICK p \in DOMAIN outputs, j \in NodeId :
            q = <<p, j>> /\ j \in DOMAIN outputs[p].huts /\ outputs[p].huts[j] = n
      BY DEF TopPlaces
    <3> QED BY <1>1, <1>3, <3>1 DEF ToSet
  <2>2. TopPlaces(n) = {}
    BY <2>1, Zenon
  <2> QED BY <1>3, <2>2, FS_EmptySet
<1> QED BY <1>2, <1>3

\* The same for the children of the wrappers.
LEMMA ChildPlacesCount ==
    ASSUME IInv, TreeInv, NEW n \in NodeId
    PROVE  /\ IsFiniteSet(ChildPlaces(n))
           /\ Cardinality(ChildPlaces(n)) =
                IF \E p \in NodeId : n \in Below[p] THEN 1 ELSE 0
<1>1. /\ children \in [NodeId -> Seq(NodeId)]
      /\ \A p \in NodeId : IsInjective(children[p])
      /\ \A p \in NodeId : Below[p] = ToSet(children[p])
  BY TreeTypes, PlacesLive DEF TreeInv
<1>2. CASE \E p \in NodeId : n \in Below[p]
  <2>1. PICK p \in NodeId : n \in Below[p]
    BY <1>2
  <2>2. PICK i \in DOMAIN children[p] : children[p][i] = n
    BY <1>1, <2>1 DEF ToSet
  <2>3. \A m \in NodeId : n \in Below[m] => m = p
    BY <2>1, OnePlace
  <2>4. i \in NodeId
    BY <1>1, <2>2, ShortList
  <2>5. ASSUME NEW q \in ChildPlaces(n) PROVE q = <<p, i>>
    <3>1. PICK m \in NodeId, j \in NodeId :
            q = <<m, j>> /\ j \in DOMAIN children[m] /\ children[m][j] = n
      BY DEF ChildPlaces
    <3>2. n \in Below[m]
      BY <1>1, <3>1 DEF ToSet
    <3>3. m = p
      BY <2>3, <3>2
    <3>4. j = i
      BY <1>1, <2>2, <3>1, <3>3 DEF IsInjective
    <3> QED BY <3>1, <3>3, <3>4
  <2>6. <<p, i>> \in ChildPlaces(n)
    BY <2>2, <2>4 DEF ChildPlaces
  <2>7. ChildPlaces(n) = {<<p, i>>}
    BY <2>5, <2>6, Zenon
  <2> QED BY <1>2, <2>7, FS_Singleton
<1>3. CASE ~\E p \in NodeId : n \in Below[p]
  <2>1. ASSUME NEW q \in ChildPlaces(n) PROVE FALSE
    <3>1. PICK m \in NodeId, j \in NodeId :
            q = <<m, j>> /\ j \in DOMAIN children[m] /\ children[m][j] = n
      BY DEF ChildPlaces
    <3> QED BY <1>1, <1>3, <3>1 DEF ToSet
  <2>2. ChildPlaces(n) = {}
    BY <2>1, Zenon
  <2> QED BY <1>3, <2>2, FS_EmptySet
<1> QED BY <1>2, <1>3

\* A forest over the nodes of the graph is what ReferencedOnce asks for.
LEMMA EachInItsSlot == IInv /\ TreeInv => ReferencedOnce
<1> SUFFICES ASSUME IInv, TreeInv, NEW n \in NodeId
             PROVE  LET places == Cardinality(TopPlaces(n)) + Cardinality(ChildPlaces(n)) IN
                    IF kind[n] = "none" THEN places = 0 ELSE places = 1 /\ n \in AllNodeIds
  BY DEF ReferencedOnce
<1> DEFINE top   == \E o \in DOMAIN outputs : n \in Tops[o]
           child == \E p \in NodeId : n \in Below[p]
<1>1. Forest(Tops, Below, LiveNodes) /\ DOMAIN Tops = DOMAIN outputs
  BY DEF TreeInv, Tops
<1>2. ~(top /\ child)
  BY OnePlace
<1>3. n \in LiveNodes <=> top \/ child
  BY <1>1 DEF Forest
<1>4. /\ Cardinality(TopPlaces(n)) = IF top THEN 1 ELSE 0
      /\ Cardinality(ChildPlaces(n)) = IF child THEN 1 ELSE 0
  BY TopPlacesCount, ChildPlacesCount
<1> HIDE DEF top, child
<1>5. n \in LiveNodes <=> kind[n] # "none"
  BY DEF LiveNodes
<1>6. n \in LiveNodes => n \in AllNodeIds
  BY AllReached
<1> QED BY <1>2, <1>3, <1>4, <1>5, <1>6

\* The tree of huts is sound in every reachable state: every node has one slot
\* and is reached from an output, wrappers are pairs, the focus ends at a console
\* and the keys follow the children; every look-up of graph_stack.rs and
\* graph_nodes.rs takes this for granted.
THEOREM TreeStaysSound == Spec => []TreeIsSound
<1>1. IInv /\ TreeInv => TreeIsSound
  <2>1. IInv /\ TreeInv => TypeOK /\ WrappersArePairs /\ KeyedByChildren
    BY DEF IInv, GraphInv, TreeInv
  <2> QED BY <2>1, EachInItsSlot, FocusIsAConsole DEF TreeIsSound
<1> QED BY <1>1, TreeInductive, PTL

-----------------------------------------------------------------------------
(* Walks: what an output is focused on is where the one walk from its      *)
(* current entry ends, so a step that leaves a walk to the same console    *)
(* leaves the focus.                                                       *)

Walk(w, top, x) == Chained(w, top) /\ w[Len(w)] = x /\ kind[x] = "console"

\* The same of a graph given by its kinds, children and active indexes.
Follows(w, kd, ch, act) ==
    \A i \in 1..(Len(w) - 1) :
        /\ kd[w[i]] \in Wrappers
        /\ act[w[i]] \in DOMAIN ch[w[i]]
        /\ ch[w[i]][act[w[i]]] = w[i + 1]

FocusWalks ==
    \A o \in DOMAIN outputs : InRange(o) =>
      \A w, x : Walk(w, TopLevel(o), x) => FocusedHut(o) = x

\* Lists of one entry are not empty and are told apart by it.
LEMMA Singles == \A x, y : <<x>> # <<>> /\ (<<x>> = <<y>> => x = y)
<1> SUFFICES ASSUME NEW x, NEW y PROVE <<x>> # <<>> /\ (<<x>> = <<y>> => x = y)
  OBVIOUS
<1>1. Len(<<x>>) = 1 /\ Len(<<>>) = 0 /\ <<x>>[1] = x /\ <<y>>[1] = y
  OBVIOUS
<1> QED BY <1>1

\* Two walks to a console from the same node are the same.
LEMMA OneWalk ==
    ASSUME NEW top, NEW v, NEW w, NEW x, NEW y, Walk(v, top, x), Walk(w, top, y)
    PROVE  x = y
<1>1. /\ Len(v) \in Nat \ {0} /\ Len(w) \in Nat \ {0} /\ v[1] = top /\ w[1] = top
      /\ \A i \in 1..(Len(v) - 1) : FocusedChild(v[i]) = <<v[i + 1]>>
      /\ \A i \in 1..(Len(w) - 1) : FocusedChild(w[i]) = <<w[i + 1]>>
      /\ v[Len(v)] = x /\ w[Len(w)] = y
  BY DEF Walk, Chained
<1>2. FocusedChild(x) = <<>> /\ FocusedChild(y) = <<>>
  BY DEF Walk, FocusedChild, Wrappers
<1> DEFINE S == {k \in Nat : k + 1 <= Len(v) /\ k + 1 <= Len(w) => v[k + 1] = w[k + 1]}
<1>3. 0 \in S
  BY <1>1
<1>4. ASSUME NEW k \in Nat, k \in S PROVE k + 1 \in S
  <2> SUFFICES ASSUME k + 2 <= Len(v), k + 2 <= Len(w) PROVE v[k + 2] = w[k + 2]
    OBVIOUS
  <2>1. k + 1 \in 1..(Len(v) - 1) /\ k + 1 \in 1..(Len(w) - 1) /\ (k + 1) + 1 = k + 2
    BY <1>1
  <2>2. v[k + 1] = w[k + 1]
    BY <1>1, <1>4
  <2>3. FocusedChild(v[k + 1]) = <<v[k + 2]>> /\ FocusedChild(w[k + 1]) = <<w[k + 2]>>
    BY <1>1, <2>1
  <2> QED BY <2>2, <2>3, Singles
<1>5. Nat \subseteq S
  <2> HIDE DEF S
  <2> QED BY <1>3, <1>4, NatSetInduction
<1>6. \A i \in 1..Len(v) : i <= Len(w) => v[i] = w[i]
  <2> SUFFICES ASSUME NEW i \in 1..Len(v), i <= Len(w) PROVE v[i] = w[i]
    OBVIOUS
  <2>1. i - 1 \in Nat /\ (i - 1) + 1 = i /\ i <= Len(v)
    BY <1>1
  <2>2. i - 1 \in S
    <3> HIDE DEF S
    <3> QED BY <1>5, <2>1
  <2> QED BY <2>1, <2>2
<1>7. CASE Len(v) < Len(w)
  <2>1. Len(v) \in 1..(Len(w) - 1) /\ w[Len(v)] = x
    BY <1>1, <1>6, <1>7
  <2> QED BY <1>1, <1>2, <2>1, Singles
<1>8. CASE Len(w) < Len(v)
  <2>1. Len(w) \in 1..(Len(v) - 1) /\ v[Len(w)] = y
    BY <1>1, <1>6, <1>8
  <2> QED BY <1>1, <1>2, <2>1, Singles
<1>9. CASE Len(v) = Len(w)
  BY <1>1, <1>6, <1>9
<1> QED BY <1>1, <1>7, <1>8, <1>9

\* The walk of a live node, in terms of the graph.
LEMMA WalkOf ==
    ASSUME IInv, TreeInv, NEW top \in LiveNodes, NEW w, w = FocusedPath(top)
    PROVE  /\ Walk(w, top, FocusedLeaf(top)) /\ w \in Seq(NodeId) /\ Len(w) \in Nat \ {0}
           /\ w[1] = top /\ w[Len(w)] = FocusedLeaf(top) /\ kind[FocusedLeaf(top)] = "console"
           /\ Follows(w, kind, children, active) /\ IsInjective(w)
           /\ \A i \in 1..Len(w) : w[i] \in LiveNodes
<1>1. /\ Chained(w, top) /\ w[Len(w)] = FocusedLeaf(top) /\ kind[FocusedLeaf(top)] = "console"
      /\ \A i \in DOMAIN w : w[i] \in LiveNodes
  BY WalkFacts
<1>2. w \in Seq(NodeId) /\ Len(w) \in Nat \ {0} /\ w[1] = top
  BY <1>1 DEF Chained
<1>3. IsInjective(w)
  <2>1. children \in [NodeId -> Seq(NodeId)] /\ Grounded(Below)
    BY TreeTypes DEF TreeInv, Forest
  <2> QED BY <1>1, <2>1, WalkIsInjective
<1>4. Follows(w, kind, children, active)
  <2> SUFFICES ASSUME NEW i \in 1..(Len(w) - 1)
               PROVE  /\ kind[w[i]] \in Wrappers /\ active[w[i]] \in DOMAIN children[w[i]]
                      /\ children[w[i]][active[w[i]]] = w[i + 1]
    BY DEF Follows
  <2>1. FocusedChild(w[i]) = <<w[i + 1]>>
    BY <1>1 DEF Chained
  <2>2. FocusedChild(w[i]) # <<>>
    BY <2>1, Singles
  <2>3. /\ kind[w[i]] \in Wrappers /\ active[w[i]] \in DOMAIN children[w[i]]
        /\ FocusedChild(w[i]) = <<children[w[i]][active[w[i]]]>>
    BY <2>2 DEF FocusedChild
  <2> QED BY <2>1, <2>3, Singles
<1> QED BY <1>1, <1>2, <1>3, <1>4 DEF Walk

\* Whatever console a walk along the focused children ends at is the focused hut.
LEMMA FocusIsWalked == IInv /\ TreeInv => FocusWalks
<1> SUFFICES ASSUME IInv, TreeInv, NEW o \in DOMAIN outputs, InRange(o), NEW w, NEW x,
                    Walk(w, TopLevel(o), x)
             PROVE  FocusedHut(o) = x
  BY DEF FocusWalks
<1>1. TopLevel(o) \in LiveNodes
  BY EntriesLive DEF InRange, TopLevel
<1>2. Walk(FocusedPath(TopLevel(o)), TopLevel(o), FocusedHut(o))
  BY <1>1, WalkOf DEF FocusedHut
<1> QED BY <1>2, OneWalk

\* After a step: a sequence that follows the new graph from the new current entry
\* to a console ends at the new focus.
LEMMA NextFocus ==
    ASSUME IInv', TreeInv', NEW o \in DOMAIN outputs',
           outputs'[o].current \in DOMAIN outputs'[o].huts,
           NEW w \in Seq(NodeId), NEW x, Len(w) \in Nat \ {0},
           w[1] = outputs'[o].huts[outputs'[o].current], w[Len(w)] = x, kind'[x] = "console",
           Follows(w, kind', children', active')
    PROVE  InRange(o)' /\ FocusedHut(o)' = x
<1>1. FocusWalks'
  BY FocusIsWalked, PTL
<1>2. InRange(o)' /\ TopLevel(o)' = w[1]
  BY DEF InRange, TopLevel
<1>3. Chained(w, TopLevel(o))'
  <2>1. ASSUME NEW i \in 1..(Len(w) - 1) PROVE FocusedChild(w[i])' = <<w[i + 1]>>
    BY DEF Follows, FocusedChild
  <2> QED BY <1>2, <2>1 DEF Chained
<1>4. Walk(w, TopLevel(o), x)'
  BY <1>3 DEF Walk
<1> QED BY <1>1, <1>2, <1>4 DEF FocusWalks

\* In a preview session the current entry is the first one, and a step leaves
\* the first one where it is.
LEMMA WalkingKeepsFirst ==
    ASSUME IInv, NEW o \in DOMAIN outputs, o = focusedOutput, InRange(o),
           outputs[o].preview # 0, StackNext \/ StackPrev
    PROVE  /\ focusedOutput' = o /\ o \in DOMAIN outputs'
           /\ outputs'[o].current = 1 /\ outputs'[o].huts # <<>>
           /\ outputs'[o].huts[1] = outputs[o].huts[1] /\ outputs[o].current = 1
           /\ outputs'[o].huts \in Seq(NodeId)
<1> DEFINE slot == outputs[o]
           pos  == slot.preview
           kept == /\ focusedOutput' = o /\ o \in DOMAIN outputs'
                   /\ outputs'[o].current = 1 /\ outputs'[o].huts # <<>>
                   /\ outputs'[o].huts[1] = slot.huts[1] /\ outputs'[o].huts \in Seq(NodeId)
<1>1. slot \in Slots /\ SlotGood(slot) /\ slot.preview # 0
  BY Halves, FocusedSlot
<1>2. slot.huts \in Seq(NodeId) /\ slot.current = 1 /\ StackHold /\ pos \in Nat \ {0}
      /\ 1 \in DOMAIN slot.huts
  BY <1>1 DEF Slots, SlotGood, InRange
<1>3. Pos(slot) = pos
  BY <1>1 DEF Pos
<1>4. Kept(slot, 1)
  BY <1>2 DEF Kept
<1>5. ASSUME NEW p \in Nat \ {0}, NEW huts \in Seq(NodeId), huts # <<>>, huts[1] = slot.huts[1],
             SetSlot(o, [Landed(slot, p) EXCEPT !.huts = huts])
      PROVE  kept
  <2>1. outputs'[o] = [Landed(slot, p) EXCEPT !.huts = huts] /\ o \in DOMAIN outputs'
        /\ focusedOutput' = focusedOutput
    BY <1>5 DEF SetSlot
  <2>2. Landed(slot, p) = [huts |-> slot.huts, current |-> slot.current, preview |-> p]
    BY <1>1, <1>2, SlotUpdates, Zenon DEF Landed
  <2>3. [Landed(slot, p) EXCEPT !.huts = huts].huts = huts
        /\ [Landed(slot, p) EXCEPT !.huts = huts].current = slot.current
    BY <2>2
  <2> QED BY <1>2, <1>5, <2>1, <2>3
<1>6. ASSUME NEW p \in Nat \ {0}, SetSlot(o, Landed(slot, p))
      PROVE  kept
  <2>1. outputs'[o] = Landed(slot, p) /\ o \in DOMAIN outputs' /\ focusedOutput' = focusedOutput
    BY <1>6 DEF SetSlot
  <2>2. Landed(slot, p) = [huts |-> slot.huts, current |-> slot.current, preview |-> p]
    BY <1>1, <1>2, SlotUpdates, Zenon DEF Landed
  <2> QED BY <1>2, <2>1, <2>2
<1>l. ASSUME NEW p \in Nat \ {0} PROVE Landed(slot, p).huts = slot.huts
  <2>1. Landed(slot, p) = [huts |-> slot.huts, current |-> slot.current, preview |-> p]
    BY <1>1, <1>2, SlotUpdates, Zenon DEF Landed
  <2> QED BY <2>1
<1>a. ASSUME NEW s \in Seq(NodeId), s # <<>>, NEW ok \in SpawnOutcomes(1)
      PROVE  Appended(s, ok) \in Seq(NodeId) /\ Appended(s, ok) # <<>>
             /\ Appended(s, ok)[1] = s[1]
  <2>1. ok \in BOOLEAN /\ (ok => nextId \in NodeId)
    BY SpawnedId, TreeTypes, BoundsAssumption DEF SpawnOutcomes, NodeId, IInv, TypeOK
  <2>2. CASE ok
    BY <2>1, <2>2, <1>a DEF Appended
  <2>3. CASE ~ok
    BY <2>3, <1>a DEF Appended
  <2> QED BY <2>1, <2>2, <2>3
<1>r. ASSUME pos \in DOMAIN slot.huts, pos # 1
      PROVE  RemoveAt(slot.huts, pos) \in Seq(NodeId) /\ RemoveAt(slot.huts, pos) # <<>>
             /\ RemoveAt(slot.huts, pos)[1] = slot.huts[1]
  <2> HIDE DEF slot, pos
  <2>1. Len(slot.huts) \in Nat /\ Len(slot.huts) > 1 /\ pos > 1
    BY <1>2, <1>r
  <2>2. /\ RemoveAt(slot.huts, pos) \in Seq(NodeId)
        /\ Len(RemoveAt(slot.huts, pos)) = Len(slot.huts) - 1
        /\ \A j \in 1..(Len(slot.huts) - 1) :
             RemoveAt(slot.huts, pos)[j] = IF j < pos THEN slot.huts[j] ELSE slot.huts[j + 1]
    BY <1>2, <1>r, RemoveAtFacts
  <2> QED BY <2>1, <2>2
<1>g. SUFFICES kept
  BY <1>2
<1> HIDE DEF slot, pos, kept
<1>7. CASE StackNext
  <2>1. \/ AdvanceEmpty(o, slot) \/ AdvanceOver(o, slot, pos) \/ AdvanceGrow(o, slot, pos)
        \/ AdvanceDiscard(o, slot, pos) \/ AdvanceReplace(o, slot, pos)
    BY <1>3, <1>7 DEF StackNext, slot
  <2>2. ~AdvanceEmpty(o, slot)
    BY <1>2 DEF AdvanceEmpty
  <2>3. CASE AdvanceOver(o, slot, pos)
    <3>1. pos + 1 \in Nat \ {0} /\ SetSlot(o, Landed(slot, pos + 1))
      BY <1>2, <2>3 DEF AdvanceOver
    <3> QED BY <1>6, <3>1, Zenon
  <2>4. CASE AdvanceGrow(o, slot, pos)
    <3>1. PICK ok \in SpawnOutcomes(1) :
            SetSlot(o, [Landed(slot, IF ok THEN pos + 1 ELSE pos) EXCEPT
                          !.huts = Appended(@, ok)])
      BY <2>4 DEF AdvanceGrow
    <3> DEFINE p == IF ok THEN pos + 1 ELSE pos
    <3>2. p \in Nat \ {0}
      BY <1>2
    <3>3. SetSlot(o, [Landed(slot, p) EXCEPT !.huts = Appended(@, ok)])
      BY <3>1
    <3> HIDE DEF p
    <3>4. SetSlot(o, [Landed(slot, p) EXCEPT !.huts = Appended(slot.huts, ok)])
      BY <1>l, <3>2, <3>3
    <3>5. slot.huts # <<>>
      BY <1>2
    <3>6. Appended(slot.huts, ok) \in Seq(NodeId) /\ Appended(slot.huts, ok) # <<>>
          /\ Appended(slot.huts, ok)[1] = slot.huts[1]
      BY <1>2, <1>a, <3>5
    <3> QED BY <1>5, <3>2, <3>4, <3>6, Zenon
  <2>5. CASE AdvanceDiscard(o, slot, pos)
    <3>1. PICK ok \in SpawnOutcomes(1) :
            LET left == Appended(RemoveAt(slot.huts, pos), ok) IN
            SetSlot(o, [Landed(slot, Len(left)) EXCEPT !.huts = left])
      BY <2>5 DEF AdvanceDiscard
    <3>2. pos \in DOMAIN slot.huts /\ pos # 1
      BY <1>4, <2>5 DEF AdvanceDiscard
    <3> DEFINE left == Appended(RemoveAt(slot.huts, pos), ok)
    <3>3. left \in Seq(NodeId) /\ left # <<>> /\ left[1] = slot.huts[1]
      BY <1>a, <1>r, <3>2
    <3>4. SetSlot(o, [Landed(slot, Len(left)) EXCEPT !.huts = left])
      BY <3>1
    <3> HIDE DEF left
    <3>5. Len(left) \in Nat \ {0}
      BY <3>3
    <3> QED BY <1>5, <3>3, <3>4, <3>5, Zenon
  <2>6. ~AdvanceReplace(o, slot, pos)
    BY <1>4 DEF AdvanceReplace
  <2> QED BY <2>1, <2>2, <2>3, <2>4, <2>5, <2>6
<1>8. CASE StackPrev
  <2>1. RetreatOver(o, slot, pos) \/ RetreatDiscard(o, slot, pos)
    BY <1>1, <1>2, <1>3, <1>8 DEF StackPrev, slot, OpenAtEnd
  <2>2. CASE RetreatOver(o, slot, pos)
    <3>1. SetSlot(o, Landed(slot, IF pos = 1 \/ slot.huts = <<>> THEN pos ELSE pos - 1))
      BY <2>2 DEF RetreatOver
    <3> DEFINE p == IF pos = 1 \/ slot.huts = <<>> THEN pos ELSE pos - 1
    <3>2. p \in Nat \ {0} /\ SetSlot(o, Landed(slot, p))
      BY <1>2, <3>1
    <3> HIDE DEF p
    <3> QED BY <1>6, <3>2, Zenon
  <2>3. CASE RetreatDiscard(o, slot, pos)
    <3>1. pos \in DOMAIN slot.huts /\ pos # 1 /\ pos - 1 \in Nat \ {0}
      BY <1>2, <2>3 DEF RetreatDiscard
    <3>2. SetSlot(o, [Landed(slot, pos - 1) EXCEPT !.huts = RemoveAt(@, pos)])
      BY <2>3 DEF RetreatDiscard
    <3>3. SetSlot(o, [Landed(slot, pos - 1) EXCEPT !.huts = RemoveAt(slot.huts, pos)])
      BY <1>l, <3>1, <3>2
    <3> QED BY <1>5, <1>r, <3>1, <3>3, Zenon
  <2> QED BY <2>1, <2>2, <2>3
<1> QED BY <1>7, <1>8

\* Walking a preview session, discards included, never changes what the output is
\* focused on: advance_forward and advance_backward protect `current`.
THEOREM PreviewsKeepFocus == Spec => PreviewKeepsFocus
<1> DEFINE Keeps ==
      LET o == focusedOutput IN
        /\ InRange(o)
        /\ Len(outputs') = Len(outputs)
        /\ 0 \notin {outputs[o].preview, outputs'[o].preview}
        /\ StackNext \/ StackPrev
        => InRange(o)' /\ TopLevel(o)' = TopLevel(o)
<1>1. IInv => Keeps
  <2> SUFFICES ASSUME IInv, InRange(focusedOutput), outputs[focusedOutput].preview # 0,
                      StackNext \/ StackPrev
               PROVE  InRange(focusedOutput)' /\ TopLevel(focusedOutput)' = TopLevel(focusedOutput)
    OBVIOUS
  <2>1. focusedOutput \in DOMAIN outputs
    BY TreeTypes
  <2>2. /\ focusedOutput' = focusedOutput
        /\ outputs'[focusedOutput].current = 1 /\ outputs'[focusedOutput].huts # <<>>
        /\ outputs'[focusedOutput].huts[1] = outputs[focusedOutput].huts[1]
        /\ outputs[focusedOutput].current = 1
        /\ outputs'[focusedOutput].huts \in Seq(NodeId)
    BY <2>1, WalkingKeepsFirst
  <2> QED BY <2>2 DEF InRange, TopLevel
<1>2. IInv /\ [Next]_vars => [Keeps]_vars
  <2> HIDE DEF Keeps
  <2> QED BY <1>1
<1>3. Spec => [][Keeps]_vars
  <2> HIDE DEF Keeps
  <2> QED BY <1>2, Inductive, PTL DEF Spec
<1> QED BY <1>3 DEF PreviewKeepsFocus

\* An entry other than the removed one is where the shifted index points.
LEMMA ShiftedEntry ==
    ASSUME NEW s \in Seq(NodeId), NEW i \in 1..Len(s), NEW c \in 1..Len(s), c # i,
           NEW left, left = RemoveAt(s, i),
           NEW d, d = ClampIndex(ShiftOnRemoval(c, i, Len(left)), Len(left))
    PROVE  left \in Seq(NodeId) /\ d \in DOMAIN left /\ left[d] = s[c]
<1>1. /\ left \in Seq(NodeId) /\ Len(left) = Len(s) - 1 /\ Len(s) \in Nat
      /\ \A j \in 1..(Len(s) - 1) : left[j] = IF j < i THEN s[j] ELSE s[j + 1]
  BY RemoveAtFacts
<1>2. CASE c < i
  <2>1. c \in 1..(Len(s) - 1)
    BY <1>1, <1>2
  <2>2. d = c
    BY <1>1, <1>2, <2>1 DEF ShiftOnRemoval, ClampIndex, MaxIndex
  <2> QED BY <1>1, <1>2, <2>1, <2>2
<1>3. CASE i < c
  <2>1. c - 1 \in 1..(Len(s) - 1) /\ ~(c - 1 < i) /\ (c - 1) + 1 = c
    BY <1>1, <1>3
  <2>2. d = c - 1
    BY <1>1, <1>3, <2>1 DEF ShiftOnRemoval, ClampIndex, MaxIndex
  <2> QED BY <1>1, <2>1, <2>2
<1> QED BY <1>2, <1>3

\* remove_exited keeps every other output's current entry, and its own one too
\* unless that is what left.
LEMMA EntryAfterRemoval ==
    ASSUME NEW slot \in Slots, NEW i \in DOMAIN slot.huts, slot.current \in DOMAIN slot.huts,
           slot.current # i, NEW new, new = SlotWithout(slot, i, FALSE)
    PROVE  /\ new.huts \in Seq(NodeId)
           /\ new.current \in DOMAIN new.huts
           /\ new.huts[new.current] = slot.huts[slot.current]
<1> DEFINE left == RemoveAt(slot.huts, i)
<1>1. slot.huts \in Seq(NodeId)
  BY DEF Slots
<1>2. i \in 1..Len(slot.huts) /\ slot.current \in 1..Len(slot.huts)
  BY <1>1
<1>3. /\ new.huts = left
      /\ new.current = ClampIndex(ShiftOnRemoval(slot.current, i, Len(left)), Len(left))
  BY DEF SlotWithout, Appended
<1>4. left = RemoveAt(slot.huts, i)
  OBVIOUS
<1> DEFINE s == slot.huts
           c == slot.current
           d == new.current
<1>5. /\ s \in Seq(NodeId) /\ i \in 1..Len(s) /\ c \in 1..Len(s) /\ c # i
      /\ left = RemoveAt(s, i)
      /\ d = ClampIndex(ShiftOnRemoval(c, i, Len(left)), Len(left))
  BY <1>1, <1>2, <1>3
<1> HIDE DEF left, s, c, d
<1>6. left \in Seq(NodeId) /\ d \in DOMAIN left /\ left[d] = s[c]
  BY <1>5, ShiftedEntry
<1> QED BY <1>3, <1>6 DEF s, c, d

\* A walk that does not end at n never meets it: n has no children.
LEMMA WalkAvoids ==
    ASSUME NEW w, Len(w) \in Nat \ {0}, Follows(w, kind, children, active),
           NEW n, kind[n] = "console", w[Len(w)] # n
    PROVE  \A i \in 1..Len(w) : w[i] # n
<1> SUFFICES ASSUME NEW i \in 1..Len(w), w[i] = n PROVE FALSE
  OBVIOUS
<1>1. i \in 1..(Len(w) - 1)
  OBVIOUS
<1>2. kind[w[i]] \in Wrappers
  BY <1>1 DEF Follows
<1> QED BY <1>2 DEF Wrappers

\* The exit of a top-level shell.
LEMMA ExitTopLevelKeepsFocus ==
    ASSUME IInv, TreeInv, IInv', TreeInv', NEW n \in NodeId, kind[n] = "console",
           ExitTopLevel(n), NEW o \in DOMAIN outputs, InRange(o), FocusedHut(o) # n
    PROVE  InRange(o)' /\ FocusedHut(o)' = FocusedHut(o)
<1>1. PICK at \in DOMAIN outputs : \E i \in DOMAIN outputs[at].huts :
        outputs[at].huts[i] = n /\ ExitEntry(at, i, n)
  BY DEF ExitTopLevel
<1>2. PICK i \in DOMAIN outputs[at].huts : outputs[at].huts[i] = n /\ ExitEntry(at, i, n)
  BY <1>1
<1>3. PICK ok \in BOOLEAN : /\ Reshape({n}, ok)
                            /\ SetSlot(at, SlotWithout(outputs[at], i, ok))
                            /\ Len(outputs[at].huts) = 1 \/ ok = FALSE
  BY <1>2 DEF ExitEntry, SpawnOutcomes
<1> DEFINE top == TopLevel(o)
           w   == FocusedPath(top)
<1>4. /\ top \in LiveNodes /\ outputs[o].huts \in Seq(NodeId)
      /\ top = outputs[o].huts[outputs[o].current]
      /\ outputs[o].current \in DOMAIN outputs[o].huts
  BY EntriesLive DEF InRange, TopLevel
<1> HIDE DEF top
<1>5. /\ w \in Seq(NodeId) /\ Len(w) \in Nat \ {0} /\ w[1] = top
      /\ w[Len(w)] = FocusedHut(o) /\ kind[FocusedHut(o)] = "console"
      /\ Follows(w, kind, children, active) /\ \A j \in 1..Len(w) : w[j] \in LiveNodes
  BY <1>4, WalkOf DEF FocusedHut, top
<1> HIDE DEF w
<1>6. \A j \in 1..Len(w) : w[j] # n
  BY <1>5, WalkAvoids
<1>7. ASSUME NEW m \in LiveNodes, m # n
      PROVE  kind'[m] = kind[m] /\ children'[m] = children[m] /\ active'[m] = active[m]
  <2>1. m \in NodeId /\ m # nextId
    BY PlacesLive DEF LiveNodes
  <2> QED BY <1>3, <1>7, <2>1 DEF Reshape
<1>8. Follows(w, kind', children', active')
  <2> SUFFICES ASSUME NEW j \in 1..(Len(w) - 1)
               PROVE  /\ kind'[w[j]] \in Wrappers /\ active'[w[j]] \in DOMAIN children'[w[j]]
                      /\ children'[w[j]][active'[w[j]]] = w[j + 1]
    BY DEF Follows
  <2>1. w[j] \in LiveNodes /\ w[j] # n
    BY <1>5, <1>6
  <2> QED BY <1>5, <1>7, <2>1 DEF Follows
<1>9. kind'[FocusedHut(o)] = "console"
  <2>1. FocusedHut(o) \in LiveNodes
    BY <1>5
  <2> QED BY <1>5, <1>7, <2>1
<1>10. /\ o \in DOMAIN outputs' /\ outputs'[o].current \in DOMAIN outputs'[o].huts
       /\ outputs'[o].huts[outputs'[o].current] = top
  <2>1. CASE o # at
    <3>1. outputs'[o] = outputs[o] /\ o \in DOMAIN outputs'
      BY <1>3, <2>1 DEF SetSlot
    <3> QED BY <1>4, <3>1
  <2>2. CASE o = at
    <3>1. outputs[o].current # i
      BY <1>2, <1>4, <1>5, <1>6, <2>2
    <3>2. Len(outputs[o].huts) # 1
      BY <1>2, <1>4, <2>2, <3>1
    <3>3. outputs'[o] = SlotWithout(outputs[o], i, FALSE) /\ o \in DOMAIN outputs'
      BY <1>3, <2>2, <3>2 DEF SetSlot
    <3>4. outputs[o] \in Slots
      BY TreeTypes
    <3> QED BY <1>2, <1>4, <2>2, <3>1, <3>3, <3>4, EntryAfterRemoval
  <2> QED BY <2>1, <2>2
<1> QED BY <1>5, <1>8, <1>9, <1>10, NextFocus

\* A walk with its k-th node cut out: its neighbours are joined.
LEMMA CutOut ==
    ASSUME NEW S, NEW w \in Seq(S), NEW k \in 1..(Len(w) - 1), NEW v, v = RemoveAt(w, k)
    PROVE  /\ v \in Seq(S) /\ Len(v) = Len(w) - 1 /\ Len(v) \in Nat \ {0}
           /\ v[Len(v)] = w[Len(w)]
           /\ v[1] = IF k = 1 THEN w[2] ELSE w[1]
           /\ \A j \in 1..(Len(v) - 1) :
                \/ j < k - 1 /\ v[j] = w[j] /\ v[j + 1] = w[j + 1]
                \/ j = k - 1 /\ v[j] = w[j] /\ v[j + 1] = w[j + 2]
                \/ j > k - 1 /\ v[j] = w[j + 1] /\ v[j + 1] = w[j + 2]
<1>1. /\ v \in Seq(S) /\ Len(v) = Len(w) - 1 /\ Len(w) \in Nat /\ k \in 1..Len(w)
      /\ \A j \in 1..(Len(w) - 1) : v[j] = IF j < k THEN w[j] ELSE w[j + 1]
  <2>1. Len(w) \in Nat /\ k \in 1..Len(w) /\ k \in DOMAIN w
    OBVIOUS
  <2>2. /\ RemoveAt(w, k) \in Seq(S)
        /\ Len(RemoveAt(w, k)) = Len(w) - 1
        /\ \A j \in 1..(Len(w) - 1) :
              RemoveAt(w, k)[j] = IF j < k THEN w[j] ELSE w[j + 1]
    BY <2>1, RemoveAtFacts, Zenon
  <2> QED BY <2>1, <2>2
<1>2. Len(v) \in Nat \ {0} /\ Len(v) \in 1..(Len(w) - 1) /\ ~(Len(v) < k)
  BY <1>1
<1>3. v[Len(v)] = w[Len(w)]
  BY <1>1, <1>2
<1>4. v[1] = IF k = 1 THEN w[2] ELSE w[1]
  BY <1>1, <1>2
<1>5. ASSUME NEW j \in 1..(Len(v) - 1)
      PROVE  \/ j < k - 1 /\ v[j] = w[j] /\ v[j + 1] = w[j + 1]
             \/ j = k - 1 /\ v[j] = w[j] /\ v[j + 1] = w[j + 2]
             \/ j > k - 1 /\ v[j] = w[j + 1] /\ v[j + 1] = w[j + 2]
  <2>1. j \in 1..(Len(w) - 1) /\ j + 1 \in 1..(Len(w) - 1) /\ (j + 1) + 1 = j + 2
    BY <1>1, <1>2
  <2>2. /\ v[j] = IF j < k THEN w[j] ELSE w[j + 1]
        /\ v[j + 1] = IF j + 1 < k THEN w[j + 1] ELSE w[j + 2]
    BY <1>1, <2>1
  <2> QED BY <2>2
<1> QED BY <1>1, <1>2, <1>3, <1>4, <1>5

\* The exit of a nested shell.  A walk that goes through its parent, the pair that
\* collapses, goes on to the other child and loses just that one step; any other
\* walk meets neither of them.
LEMMA ExitNestedKeepsFocus ==
    ASSUME IInv, TreeInv, IInv', TreeInv', NEW n \in NodeId, kind[n] = "console",
           ExitNested(n), NEW o \in DOMAIN outputs, InRange(o), FocusedHut(o) # n
    PROVE  InRange(o)' /\ FocusedHut(o)' = FocusedHut(o)
<1>1. PICK parent, s \in NodeId, at \in DOMAIN outputs : CollapsesOnto(n, parent, s, at)
  BY ExitNestedCollapses
<1> DEFINE top == TopLevel(o)
           w   == FocusedPath(top)
           x   == FocusedHut(o)
<1>2. /\ top \in LiveNodes /\ outputs[o].huts \in Seq(NodeId)
      /\ top = outputs[o].huts[outputs[o].current]
      /\ outputs[o].current \in DOMAIN outputs[o].huts
  BY EntriesLive DEF InRange, TopLevel
<1> HIDE DEF top
<1>3. /\ w \in Seq(NodeId) /\ Len(w) \in Nat \ {0} /\ w[1] = top
      /\ w[Len(w)] = x /\ kind[x] = "console" /\ IsInjective(w)
      /\ Follows(w, kind, children, active) /\ \A j \in 1..Len(w) : w[j] \in LiveNodes
  BY <1>2, WalkOf DEF FocusedHut, top
<1> HIDE DEF w, x
<1>4. x # n
  BY DEF x
<1>5. \A j \in 1..Len(w) : w[j] # n
  BY <1>3, <1>4, WalkAvoids
<1>6. ASSUME NEW m \in NodeId, m # n, m # parent
      PROVE  /\ kind'[m] = kind[m] /\ active'[m] = active[m]
             /\ DOMAIN children'[m] = DOMAIN children[m]
             /\ \A k \in DOMAIN children[m] :
                  children'[m][k] = IF children[m][k] = parent THEN s ELSE children[m][k]
  <2>1. kind \in [NodeId -> Kinds] /\ active \in [NodeId -> Nat]
    BY DEF IInv, TypeOK
  <2>2. children'[m] = ReplaceAll(children[m], parent, s)
    BY <1>1, <1>6 DEF CollapsesOnto
  <2>3. kind'[m] = kind[m] /\ active'[m] = active[m]
    BY <1>1, <1>6, <2>1 DEF CollapsesOnto
  <2> QED BY <2>2, <2>3 DEF ReplaceAll
<1>7. ASSUME NEW j \in 1..(Len(w) - 1), w[j] # parent
      PROVE  /\ kind'[w[j]] \in Wrappers /\ active'[w[j]] \in DOMAIN children'[w[j]]
             /\ children'[w[j]][active'[w[j]]] = IF w[j + 1] = parent THEN s ELSE w[j + 1]
  <2>1. w[j] \in NodeId /\ w[j] # n
    BY <1>3, <1>5
  <2>2. /\ kind[w[j]] \in Wrappers /\ active[w[j]] \in DOMAIN children[w[j]]
        /\ children[w[j]][active[w[j]]] = w[j + 1]
    BY <1>3 DEF Follows
  <2> QED BY <1>6, <1>7, <2>1, <2>2
<1>8. kind[parent] \in Wrappers /\ Below[parent] = {n, s}
  BY <1>1 DEF CollapsesOnto
<1>9. kind'[x] = "console"
  <2>1. x \in NodeId /\ x # parent
    BY <1>3, <1>8 DEF LiveNodes, Wrappers
  <2> QED BY <1>3, <1>4, <1>6, <2>1
<1>10. /\ o \in DOMAIN outputs' /\ outputs'[o].current \in DOMAIN outputs'[o].huts
       /\ outputs'[o].huts[outputs'[o].current] = IF top = parent THEN s ELSE top
  <2>1. outputs'[o].current = outputs[o].current
    BY <1>1, <1>2 DEF CollapsesOnto, ClampIndex, MaxIndex
  <2>2. o \in DOMAIN outputs' /\ outputs'[o].huts = ReplaceAll(outputs[o].huts, parent, s)
    BY <1>1 DEF CollapsesOnto
  <2> QED BY <1>2, <2>1, <2>2 DEF ReplaceAll
<1>11. CASE \A j \in 1..Len(w) : w[j] # parent
  <2>1. Follows(w, kind', children', active')
    <3> SUFFICES ASSUME NEW j \in 1..(Len(w) - 1)
                 PROVE  /\ kind'[w[j]] \in Wrappers /\ active'[w[j]] \in DOMAIN children'[w[j]]
                        /\ children'[w[j]][active'[w[j]]] = w[j + 1]
      BY DEF Follows
    <3>1. w[j] # parent /\ w[j + 1] # parent
      BY <1>3, <1>11
    <3> QED BY <1>7, <3>1
  <2>2. top # parent
    BY <1>3, <1>11
  <2>3. outputs'[o].huts[outputs'[o].current] = w[1]
    BY <1>3, <1>10, <2>2
  <2> QED BY <1>3, <1>9, <1>10, <2>1, <2>3, NextFocus DEF x
<1>12. CASE \E k \in 1..Len(w) : w[k] = parent
  <2>1. PICK k \in 1..Len(w) : w[k] = parent
    BY <1>12
  <2>2. k \in 1..(Len(w) - 1)
    <3>1. k # Len(w)
      BY <1>3, <1>8, <2>1 DEF Wrappers
    <3> QED BY <1>3, <3>1
  <2>3. w[k + 1] = s
    <3>1. w[k + 1] \in ToSet(children[parent])
      BY <1>3, <2>1, <2>2 DEF Follows, ToSet
    <3>2. w[k + 1] \in Below[parent]
      BY <3>1 DEF Below
    <3>3. w[k + 1] # n
      BY <1>3, <1>5, <2>2
    <3> QED BY <1>8, <3>2, <3>3
  <2>4. \A j \in 1..Len(w) : j # k => w[j] # parent
    BY <1>3, <2>1 DEF IsInjective
  <2> DEFINE v == RemoveAt(w, k)
  <2>5. /\ v \in Seq(NodeId) /\ Len(v) = Len(w) - 1 /\ Len(v) \in Nat \ {0}
        /\ v[Len(v)] = w[Len(w)] /\ v[1] = IF k = 1 THEN w[2] ELSE w[1]
        /\ \A j \in 1..(Len(v) - 1) :
             \/ j < k - 1 /\ v[j] = w[j] /\ v[j + 1] = w[j + 1]
             \/ j = k - 1 /\ v[j] = w[j] /\ v[j + 1] = w[j + 2]
             \/ j > k - 1 /\ v[j] = w[j + 1] /\ v[j + 1] = w[j + 2]
    BY <1>3, <2>2, CutOut
  <2> HIDE DEF v
  <2>6. Follows(v, kind', children', active')
    <3> SUFFICES ASSUME NEW j \in 1..(Len(v) - 1)
                 PROVE  /\ kind'[v[j]] \in Wrappers /\ active'[v[j]] \in DOMAIN children'[v[j]]
                        /\ children'[v[j]][active'[v[j]]] = v[j + 1]
      BY DEF Follows
    <3>0. /\ j \in 1..(Len(w) - 1) /\ j + 1 \in 1..(Len(w) - 1) /\ j + 1 \in 1..Len(w)
          /\ j + 2 \in 1..Len(w) /\ (j + 1) + 1 = j + 2 /\ j \in 1..Len(w) /\ j \in Nat
      BY <1>3, <2>5
    <3>1. CASE j < k - 1 /\ v[j] = w[j] /\ v[j + 1] = w[j + 1]
      <4>1. j # k /\ j + 1 # k
        BY <3>1, <3>0, <2>1
      <4>2. w[j] # parent /\ w[j + 1] # parent
        BY <2>4, <3>0, <4>1
      <4> QED BY <1>7, <3>0, <3>1, <4>2
    <3>2. CASE j = k - 1 /\ v[j] = w[j] /\ v[j + 1] = w[j + 2]
      <4>1. j # k /\ j + 1 = k /\ j + 2 = k + 1
        BY <3>2, <3>0, <2>1
      <4>2. w[j] # parent /\ w[j + 1] = parent /\ w[j + 2] = s
        BY <2>1, <2>3, <2>4, <3>0, <4>1
      <4> QED BY <1>7, <3>0, <3>2, <4>2
    <3>3. CASE j > k - 1 /\ v[j] = w[j + 1] /\ v[j + 1] = w[j + 2]
      <4>1. j + 1 # k /\ j + 2 # k
        BY <3>3, <3>0, <2>1
      <4>2. w[j + 1] # parent /\ w[j + 2] # parent
        BY <2>4, <3>0, <4>1
      <4> QED BY <1>7, <3>0, <3>3, <4>2
    <3> QED BY <2>5, <3>1, <3>2, <3>3
  <2>7. outputs'[o].huts[outputs'[o].current] = v[1]
    <3>1. CASE k = 1
      BY <1>3, <1>10, <2>1, <2>3, <2>5, <3>1
    <3>2. CASE k # 1
      <4>1. top # parent
        BY <1>3, <2>4, <3>2
      <4> QED BY <1>3, <1>10, <2>5, <3>2, <4>1
    <3> QED BY <3>1, <3>2
  <2> QED BY <1>3, <1>9, <1>10, <2>5, <2>6, <2>7, NextFocus DEF x
<1> QED BY <1>11, <1>12

\* A shell that exits moves the keyboard focus of no output that was not showing
\* it: neither the index shift of a top-level removal nor the collapse of a
\* wrapper lands anyone on another hut.
THEOREM ExitsKeepOtherFocus == Spec => ExitKeepsOtherFocus
<1> DEFINE Keeps(n) ==
      kind[n] = "console" /\ kind'[n] = "none" /\ Exited(n) =>
        \A o \in DOMAIN outputs : InRange(o) /\ FocusedHut(o) # n =>
          InRange(o)' /\ FocusedHut(o)' = FocusedHut(o)
<1>1. IInv /\ TreeInv /\ [Next]_vars => \A n \in NodeId : Keeps(n)
  <2> SUFFICES ASSUME IInv, TreeInv, [Next]_vars, NEW n \in NodeId,
                      kind[n] = "console", kind'[n] = "none", Exited(n),
                      NEW o \in DOMAIN outputs, InRange(o), FocusedHut(o) # n
               PROVE  InRange(o)' /\ FocusedHut(o)' = FocusedHut(o)
    BY Zenon
  <2>1. IInv' /\ TreeInv'
    BY StepIInv, StepTree
  <2>2. ~LogOut
    <3>1. kind' # kind
      OBVIOUS
    <3> QED BY <3>1 DEF LogOut, graphVars
  <2>3. ExitTopLevel(n) \/ ExitNested(n)
    BY <2>2, Zenon DEF Exited
  <2> QED BY <2>1, <2>3, ExitTopLevelKeepsFocus, ExitNestedKeepsFocus
<1>2. IInv /\ TreeInv /\ [Next]_vars => [\A n \in NodeId : Keeps(n)]_vars
  BY <1>1
<1>3. Spec => [][\A n \in NodeId : Keeps(n)]_vars
  <2> HIDE DEF Keeps
  <2> QED BY <1>2, TreeInductive, PTL DEF Spec
<1> QED BY <1>3 DEF ExitKeepsOtherFocus

\* wrap_link: the walk to the leaf goes through the new wrapper, whose active
\* child is that leaf.
LEMMA WrapLinkKeepsFocus ==
    ASSUME IInv, TreeInv, IInv', TreeInv', NEW kd \in Wrappers, NEW o \in DOMAIN outputs,
           NEW slot \in Slots, ToSet(slot.huts) = ToSet(outputs[o].huts),
           slot.current \in DOMAIN slot.huts, nextId \in NodeId, nextId + 1 \in NodeId,
           WrapLink(o, slot, kd, nextId, nextId + 1)
    PROVE  InRange(o)' /\ FocusedHut(o)' = FocusedLeaf(slot.huts[slot.current])
<1> DEFINE new  == nextId
           w    == nextId + 1
           top  == slot.huts[slot.current]
           path == FocusedPath(top)
           last == Len(path)
           x    == FocusedLeaf(top)
<1>t. /\ kind \in [NodeId -> Kinds] /\ children \in [NodeId -> Seq(NodeId)]
      /\ active \in [NodeId -> Nat] /\ slot.huts \in Seq(NodeId)
  BY DEF IInv, TypeOK, Slots
<1>1. top \in LiveNodes
  <2>1. top \in ToSet(slot.huts)
    BY DEF ToSet
  <2> QED BY <2>1, PlacesLive
<1>2. PICK leaf \in NodeId :
        /\ leaf = Last(path)
        /\ kind' = [kind EXCEPT ![new] = "console", ![w] = kd]
        /\ active' = [active EXCEPT ![w] = 2]
        /\ \/ /\ Len(path) = 1
              /\ children' = [children EXCEPT ![w] = WrapChildren(new, leaf)]
              /\ SetSlot(o, [slot EXCEPT !.huts = ReplaceAt(slot.huts, slot.current, w)])
           \/ /\ Len(path) > 1
              /\ \E parent \in NodeId :
                   /\ parent = Last(Front(path))
                   /\ children' = [children EXCEPT
                        ![parent] = ReplaceAll(@, leaf, w),
                        ![w] = WrapChildren(new, leaf)]
              /\ SetSlot(o, slot)
  BY Zenon DEF WrapLink
<1> HIDE DEF top
<1>3. /\ path \in Seq(NodeId) /\ last \in Nat \ {0} /\ path[1] = top /\ path[last] = x
      /\ kind[x] = "console" /\ Follows(path, kind, children, active) /\ IsInjective(path)
      /\ \A i \in 1..last : path[i] \in LiveNodes
  BY <1>1, WalkOf
<1>4. leaf = x /\ leaf = path[last]
  BY <1>2 DEF FocusedLeaf, Last
<1> HIDE DEF path, x
<1>5. /\ kind[new] = "none" /\ kind[w] = "none" /\ new # w
      /\ new \notin LiveNodes /\ w \notin LiveNodes /\ new \in NodeId /\ w \in NodeId
  <2>1. kind[new] = "none" /\ kind[w] = "none" /\ new # w
    BY TreeTypes DEF IInv, GraphInv
  <2> QED BY <2>1 DEF LiveNodes
<1> HIDE DEF new, w
<1>6. /\ \A m \in LiveNodes : kind'[m] = kind[m] /\ active'[m] = active[m]
      /\ kind'[w] = kd /\ active'[w] = 2
  BY <1>t, <1>2, <1>5 DEF LiveNodes
<1>7. last > 1 => path[last - 1] \in LiveNodes /\ Last(Front(path)) = path[last - 1]
  BY <1>3 DEF Last, Front
<1>8. /\ children'[w] = <<new, leaf>>
      /\ last > 1 => children'[path[last - 1]] = ReplaceAll(children[path[last - 1]], leaf, w)
      /\ \A m \in LiveNodes : last = 1 \/ m # path[last - 1] => children'[m] = children[m]
  <2>1. CASE /\ last = 1
             /\ children' = [children EXCEPT ![w] = WrapChildren(new, leaf)]
    BY <1>t, <1>5, <2>1 DEF WrapChildren, LiveNodes
  <2>2. CASE /\ last > 1
             /\ \E parent \in NodeId :
                   /\ parent = Last(Front(path))
                   /\ children' = [children EXCEPT
                        ![parent] = ReplaceAll(@, leaf, w),
                        ![w] = WrapChildren(new, leaf)]
    <3> DEFINE a == path[last - 1]
               list == ReplaceAll(children[a], leaf, w)
    <3>1. children' = [children EXCEPT ![a] = list, ![w] = <<new, leaf>>]
      BY <1>7, <2>2 DEF WrapChildren
    <3>2. a \in NodeId /\ a # w
      BY <1>5, <1>7, <2>2 DEF LiveNodes
    <3> HIDE DEF list
    <3>3. children'[w] = <<new, leaf>> /\ children'[a] = list
      BY <1>t, <1>5, <3>1, <3>2
    <3>4. \A m \in LiveNodes : m # a => children'[m] = children[m]
      BY <1>t, <1>5, <3>1, <3>2 DEF LiveNodes
    <3>5. last # 1
      BY <1>3, <2>2
    <3> QED BY <3>3, <3>4, <3>5, Zenon DEF list
  <2> QED BY <1>2, <2>1, <2>2
<1> DEFINE v == [j \in 1..(last + 1) |->
                   IF j < last THEN path[j] ELSE IF j = last THEN w ELSE leaf]
<1>9. /\ v \in Seq(NodeId) /\ Len(v) = last + 1 /\ v[last + 1] = leaf /\ v[last] = w
      /\ \A j \in 1..(last - 1) : v[j] = path[j]
  <2>1. \A j \in 1..last : path[j] \in NodeId
    BY <1>3
  <2> QED BY <1>3, <1>5, <2>1
<1> HIDE DEF v
<1>10. ASSUME NEW j \in 1..(last - 1)
       PROVE  /\ kind'[v[j]] \in Wrappers /\ active'[v[j]] \in DOMAIN children'[v[j]]
              /\ children'[v[j]][active'[v[j]]] = v[j + 1]
  <2>1. /\ kind[path[j]] \in Wrappers /\ active[path[j]] \in DOMAIN children[path[j]]
        /\ children[path[j]][active[path[j]]] = path[j + 1]
    BY <1>3 DEF Follows
  <2>2. path[j] \in LiveNodes /\ v[j] = path[j] /\ j \in 1..last /\ j + 1 \in 1..last
    BY <1>3, <1>9
  <2>3. kind'[path[j]] = kind[path[j]] /\ active'[path[j]] = active[path[j]]
    BY <1>6, <2>2
  <2>4. CASE j = last - 1
    <3>1. children'[path[j]] = ReplaceAll(children[path[j]], leaf, w)
      BY <1>3, <1>8, <2>4
    <3>2. path[j + 1] = leaf /\ v[j + 1] = w
      BY <1>3, <1>4, <1>9, <2>4
    <3> QED BY <2>1, <2>2, <2>3, <3>1, <3>2 DEF ReplaceAll
  <2>5. CASE j # last - 1
    <3>1. j + 1 \in 1..(last - 1) /\ last - 1 \in 1..last
      BY <1>3, <2>5
    <3>2. path[j] # path[last - 1]
      BY <1>3, <2>2, <2>5, <3>1 DEF IsInjective
    <3>3. children'[path[j]] = children[path[j]]
      BY <1>8, <2>2, <3>2
    <3>4. v[j + 1] = path[j + 1]
      BY <1>9, <3>1
    <3> QED BY <2>1, <2>2, <2>3, <3>3, <3>4
  <2> QED BY <2>4, <2>5
<1>11. Follows(v, kind', children', active')
  <2> SUFFICES ASSUME NEW j \in 1..last
               PROVE  /\ kind'[v[j]] \in Wrappers /\ active'[v[j]] \in DOMAIN children'[v[j]]
                      /\ children'[v[j]][active'[v[j]]] = v[j + 1]
    BY <1>3, <1>9 DEF Follows
  <2>1. CASE j = last
    <3>1. DOMAIN <<new, leaf>> = {1, 2} /\ <<new, leaf>>[2] = leaf
      OBVIOUS
    <3> QED BY <1>6, <1>8, <1>9, <2>1, <3>1
  <2>2. CASE j # last
    <3>1. j \in 1..(last - 1)
      BY <1>3, <2>2
    <3> QED BY <1>10, <3>1
  <2> QED BY <2>1, <2>2
<1>12. kind'[leaf] = "console"
  BY <1>3, <1>4, <1>6
<1>13. /\ o \in DOMAIN outputs' /\ outputs'[o].current \in DOMAIN outputs'[o].huts
       /\ outputs'[o].huts[outputs'[o].current] = v[1]
  <2>1. CASE last = 1 /\ SetSlot(o, [slot EXCEPT !.huts = ReplaceAt(slot.huts, slot.current, w)])
    <3> DEFINE huts == ReplaceAt(slot.huts, slot.current, w)
               slot2 == [slot EXCEPT !.huts = huts]
    <3>1. huts[slot.current] = w /\ slot.current \in DOMAIN huts
      BY <1>t DEF ReplaceAt
    <3>2. slot2 = [huts |-> huts, current |-> slot.current, preview |-> slot.preview]
      BY SlotUpdates, Zenon
    <3>3. slot2.huts = huts /\ slot2.current = slot.current
      BY <3>2
    <3>4. SetSlot(o, slot2)
      BY <2>1
    <3> HIDE DEF huts, slot2
    <3>5. outputs'[o] = slot2 /\ o \in DOMAIN outputs'
      BY <3>4 DEF SetSlot
    <3> QED BY <1>9, <2>1, <3>1, <3>3, <3>5
  <2>2. CASE last > 1 /\ SetSlot(o, slot)
    <3>1. outputs'[o] = slot /\ o \in DOMAIN outputs'
      BY <2>2 DEF SetSlot
    <3>2. v[1] = top
      BY <1>3, <1>9, <2>2
    <3> QED BY <3>1, <3>2 DEF top
  <2> QED BY <1>2, <2>1, <2>2
<1>14. Len(v) \in Nat \ {0} /\ v[Len(v)] = leaf
  BY <1>3, <1>9
<1> HIDE DEF last
<1>15. InRange(o)' /\ FocusedHut(o)' = leaf
  BY <1>9, <1>11, <1>12, <1>13, <1>14, NextFocus
<1> QED BY <1>4, <1>15 DEF x, top

\* Only wrap makes a wrapper.
LEMMA OnlyWrapWraps ==
    ASSUME IInv, [Next]_vars, NEW n \in NodeId, kind[n] = "none", kind'[n] \in Wrappers
    PROVE  \E kd \in Wrappers : Wrap(kd)
<1>1. kind \in [NodeId -> Kinds]
  BY TreeTypes
<1>2. kind'[n] # kind[n] /\ kind'[n] # "console" /\ kind'[n] # "none"
  BY DEF Wrappers
<1>3. ASSUME NEW removed, NEW ok, Reshape(removed, ok) PROVE FALSE
  BY <1>2, <1>3 DEF Reshape
<1>4. ~SpawnWithCommand
  BY <1>1, <1>2 DEF SpawnWithCommand
<1>5. kind' # kind
  BY <1>2
<1>6. ~StackNext /\ ~StackPrev
  <2>1. \A o, slot, pos : ~AdvanceEmpty(o, slot) /\ ~AdvanceGrow(o, slot, pos)
                          /\ ~AdvanceDiscard(o, slot, pos) /\ ~AdvanceReplace(o, slot, pos)
                          /\ ~RetreatDiscard(o, slot, pos)
    BY <1>3, Zenon DEF AdvanceEmpty, AdvanceGrow, AdvanceDiscard, AdvanceReplace, RetreatDiscard
  <2>2. \A o, slot, pos : ~AdvanceOver(o, slot, pos) /\ ~OpenAtEnd(o, slot)
                          /\ ~RetreatOver(o, slot, pos)
    BY <1>5, Zenon DEF AdvanceOver, OpenAtEnd, RetreatOver, graphVars
  <2> QED BY <2>1, <2>2, Zenon DEF StackNext, StackPrev
<1>7. ~AddOutput /\ \A o : ~RemoveOutput(o)
  BY <1>3, Zenon DEF AddOutput, RemoveOutput
<1>8. \A m : ~Exited(m)
  <2> SUFFICES ASSUME NEW m, Exited(m) PROVE FALSE
    OBVIOUS
  <2>1. ~LogOut
    BY <1>5 DEF LogOut, graphVars
  <2>2. ~ExitTopLevel(m)
    BY <1>3, Zenon DEF ExitTopLevel, ExitEntry
  <2>3. ASSUME ExitNested(m) PROVE FALSE
    <3>1. \E parent \in NodeId : \/ kind' = [kind EXCEPT ![m] = "none", ![parent] = "none"]
                                 \/ kind' = [kind EXCEPT ![m] = "none"]
      BY <2>3, Zenon DEF ExitNested, ExitChild, Unlink
    <3> QED BY <1>1, <1>2, <3>1
  <2> QED BY <2>1, <2>2, <2>3, Zenon DEF Exited
<1>9. /\ ~RunLoop /\ ~Panic /\ ~EndBatch /\ ~UNCHANGED vars
      /\ ~PressHold /\ ~ReleaseHold /\ ~LateCommit /\ ~ClickChrome /\ ~Type
      /\ \A dir : ~CycleInnermost(dir)
      /\ \A o : ~RenderTabStrips(o) /\ ~SetFocusedOutput(o)
      /\ \A m : ~MapWindow(m) /\ ~UnmapWindows(m)
  BY <1>5, Zenon DEF RunLoop, Panic, EndBatch, vars, PressHold, ReleaseHold, LateCommit,
        CommitPreview, ClickChrome, Type, CycleInnermost, RenderTabStrips,
        SetFocusedOutput, MapWindow, UnmapWindows, graphVars
<1> QED BY <1>4, <1>6, <1>7, <1>8, <1>9, Zenon DEF Next, Keyboard, Ended

\* Wrapping shows what was shown before, the committed preview if one was open:
\* the fresh console of wrap_tab and wrap_tile comes up beside the old one.
THEOREM WrapsKeepFocus == Spec => WrapKeepsFocus
<1> DEFINE Keeps ==
      (\E n \in NodeId : kind[n] = "none" /\ kind'[n] \in Wrappers) =>
         LET slot == Committed(outputs[focusedOutput]) IN
         FocusedHut(focusedOutput)' = FocusedLeaf(slot.huts[slot.current])
<1>1. IInv /\ TreeInv /\ [Next]_vars => Keeps
  <2> DEFINE slot == Committed(outputs[focusedOutput])
  <2> SUFFICES ASSUME IInv, TreeInv, [Next]_vars, NEW n \in NodeId, kind[n] = "none",
                      kind'[n] \in Wrappers
               PROVE  FocusedHut(focusedOutput)' = FocusedLeaf(slot.huts[slot.current])
    BY Zenon
  <2>0. PICK o \in DOMAIN outputs : o = focusedOutput
    BY TreeTypes
  <2>1. IInv' /\ TreeInv'
    BY StepIInv, StepTree
  <2>2. PICK kd \in Wrappers : Wrap(kd)
    BY OnlyWrapWraps
  <2>3. slot = Committed(outputs[o])
    BY <2>0
  <2>4. outputs[o] \in Slots /\ SlotGood(outputs[o]) /\ IsInjective(outputs[o].huts)
    BY FocusedList
  <2>5. slot \in Slots /\ ToSet(slot.huts) = ToSet(outputs[o].huts)
    BY <2>3, <2>4, CommittedFacts, CommittedList
  <2>6. slot.current \in DOMAIN slot.huts
    BY <2>2 DEF Wrap
  <2>7. PICK ok \in SpawnOutcomes(2) :
          IF ok THEN WrapLink(o, slot, kd, nextId, nextId + 1) ELSE UNCHANGED graphVars
    BY <2>0, <2>2, Zenon DEF Wrap
  <2>8. ok = TRUE
    <3>1. kind' # kind /\ ok \in BOOLEAN
      BY DEF Wrappers, SpawnOutcomes
    <3> QED BY <2>7, <3>1 DEF graphVars
  <2>9. WrapLink(o, slot, kd, nextId, nextId + 1)
    BY <2>7, <2>8, Zenon
  <2>10. nextId \in NodeId /\ nextId + 1 \in NodeId
    <3>1. nextId + 2 - 1 \in NodeId /\ nextId \in Nat \ {0}
      BY <2>7, <2>8, TreeTypes DEF SpawnOutcomes
    <3> QED BY <3>1, BoundsAssumption DEF NodeId
  <2>11. focusedOutput' = o
    BY <2>0, <2>9, Zenon DEF WrapLink, SetSlot
  <2> HIDE DEF slot
  <2>12. FocusedHut(o)' = FocusedLeaf(slot.huts[slot.current])
    BY <2>1, <2>5, <2>6, <2>9, <2>10, WrapLinkKeepsFocus
  <2> QED BY <2>11, <2>12
<1>2. IInv /\ TreeInv /\ [Next]_vars => [Keeps]_vars
  <2> HIDE DEF Keeps
  <2> QED BY <1>1
<1>3. Spec => [][Keeps]_vars
  <2> HIDE DEF Keeps
  <2> QED BY <1>2, TreeInductive, PTL DEF Spec
<1> QED BY <1>3 DEF WrapKeepsFocus
-----------------------------------------------------------------------------
(* The outputs as most-recently-used stacks (MruStacks.tla).               *)

\* The sequence operators MruStacks uses are the ones used here.
LEMMA SameOperators ==
    /\ \A s : Mru!ToSet(s) = ToSet(s)
    /\ \A s, i : Mru!RemoveAt(s, i) = RemoveAt(s, i)
  BY DEF Mru!ToSet, ToSet, Mru!RemoveAt, RemoveAt

\* What MruStacks sees of a slot.
View(slot) == [list |-> slot.huts, shown |-> Pos(slot)]

\* The stacks, output by output.
LEMMA StackViews ==
    /\ DOMAIN Stacks = DOMAIN outputs
    /\ \A o \in DOMAIN outputs : /\ Stacks[o] = View(outputs[o])
                                 /\ Stacks[o].list = outputs[o].huts
                                 /\ Stacks[o].shown = Pos(outputs[o])
  BY DEF Stacks, View

\* A new slot for one output is a new stack for it.
LEMMA ChangedStack ==
    ASSUME NEW o \in DOMAIN outputs, NEW slot, SetSlot(o, slot), NEW v, v = View(slot)
    PROVE  Mru!Change(o, v)
<1>1. /\ DOMAIN outputs' = DOMAIN outputs /\ outputs'[o] = slot
      /\ \A p \in DOMAIN outputs : p # o => outputs'[p] = outputs[p]
  BY DEF SetSlot
<1>2. Stacks' = [p \in DOMAIN outputs' |-> View(outputs'[p])]
  BY DEF Stacks, View, Pos
<1>3. Stacks = [p \in DOMAIN outputs |-> View(outputs[p])]
  BY DEF Stacks, View
<1>4. Stacks' = [Stacks EXCEPT ![o] = v]
  <2> HIDE DEF View
  <2> QED BY <1>1, <1>2, <1>3
<1>5. focusedOutput' = focusedOutput
  BY DEF SetSlot
<1> QED BY <1>4, <1>5 DEF Mru!Change

\* Nodes that are not in the graph, or nested in it, are unlisted.
LEMMA UnlistedNodes ==
    ASSUME NEW n \in NodeId, \A o \in DOMAIN outputs : n \notin ToSet(outputs[o].huts)
    PROVE  n \in Mru!Unlisted
  BY SameOperators, StackViews DEF Mru!Unlisted, Mru!Listed

\* The next node to be made is one.
LEMMA FreshIsUnlisted ==
    ASSUME IInv, TreeInv, NEW n \in NodeId, n >= nextId
    PROVE  n \in Mru!Unlisted /\ <<n>> \in Mru!Opened
<1>1. kind[n] = "none"
  BY DEF IInv, GraphInv
<1>2. \A o \in DOMAIN outputs : n \notin ToSet(outputs[o].huts)
  BY <1>1, PlacesLive DEF LiveNodes
<1>3. n \in Mru!Unlisted
  BY <1>2, UnlistedNodes
<1> QED BY <1>3 DEF Mru!Opened

\* Where a walk lands is what it shows.
LEMMA LandedView ==
    ASSUME NEW slot \in Slots, SlotGood(slot), NEW p \in Nat \ {0}, NEW huts \in Seq(NodeId)
    PROVE  /\ View([Landed(slot, p) EXCEPT !.huts = huts]) = [list |-> huts, shown |-> p]
           /\ View(Landed(slot, p)) = [list |-> slot.huts, shown |-> p]
           /\ Landed(slot, p).huts = slot.huts
<1>1. CASE StackHold
  <2>1. Landed(slot, p) = [huts |-> slot.huts, current |-> slot.current, preview |-> p]
    BY <1>1, SlotUpdates, Zenon DEF Landed
  <2> DEFINE new == Landed(slot, p)
  <2> HIDE DEF new
  <2>2. new = [huts |-> slot.huts, current |-> slot.current, preview |-> p]
    BY <2>1 DEF new
  <2>3. [new EXCEPT !.huts = huts] = [huts |-> huts, current |-> slot.current, preview |-> p]
    BY <2>2
  <2> QED BY <2>1, <2>3 DEF View, Pos, new
<1>2. CASE ~StackHold
  <2>1. Landed(slot, p) = [huts |-> slot.huts, current |-> p, preview |-> slot.preview]
    BY <1>2, SlotUpdates, Zenon DEF Landed
  <2> DEFINE new == Landed(slot, p)
  <2> HIDE DEF new
  <2>2. new = [huts |-> slot.huts, current |-> p, preview |-> slot.preview]
    BY <2>1 DEF new
  <2>3. [new EXCEPT !.huts = huts] = [huts |-> huts, current |-> p, preview |-> slot.preview]
    BY <2>2
  <2>4. slot.preview = 0
    BY <1>2 DEF SlotGood
  <2> QED BY <2>1, <2>3, <2>4 DEF View, Pos, new
<1> QED BY <1>1, <1>2

\* A walk that lands on p in the list `huts`, as a change of the stack in focus.
LEMMA LandedStack ==
    ASSUME NEW o \in DOMAIN outputs, outputs[o] \in Slots, SlotGood(outputs[o]),
           NEW p \in Nat \ {0}, NEW huts \in Seq(NodeId),
           SetSlot(o, [Landed(outputs[o], p) EXCEPT !.huts = huts])
           \/ (SetSlot(o, Landed(outputs[o], p)) /\ huts = outputs[o].huts)
    PROVE  Mru!Change(o, [list |-> huts, shown |-> p])
<1> DEFINE slot == outputs[o]
<1>1. /\ View([Landed(slot, p) EXCEPT !.huts = huts]) = [list |-> huts, shown |-> p]
      /\ View(Landed(slot, p)) = [list |-> slot.huts, shown |-> p]
  BY LandedView
<1>2. CASE SetSlot(o, [Landed(slot, p) EXCEPT !.huts = huts])
  BY <1>1, <1>2, ChangedStack, Zenon
<1>3. CASE SetSlot(o, Landed(slot, p)) /\ huts = slot.huts
  BY <1>1, <1>3, ChangedStack, Zenon
<1> QED BY <1>2, <1>3

\* A walk that lands where it was.
LEMMA StayedStack ==
    ASSUME NEW o \in DOMAIN outputs, o = focusedOutput,
           Mru!Change(o, [list |-> outputs[o].huts, shown |-> Pos(outputs[o])])
    PROVE  UNCHANGED Mru!vars
<1>1. Stacks[o] = [list |-> outputs[o].huts, shown |-> Pos(outputs[o])]
  BY StackViews DEF View
<1>2. Stacks' = [Stacks EXCEPT ![o] = Stacks[o]] /\ focusedOutput' = focusedOutput
  BY <1>1 DEF Mru!Change
<1>3. Stacks' = Stacks
  BY <1>2 DEF Stacks
<1> QED BY <1>2, <1>3 DEF Mru!vars

\* Turning to a position of the list.
LEMMA TurnedStack ==
    ASSUME NEW o \in DOMAIN outputs, o = focusedOutput, NEW p \in DOMAIN outputs[o].huts,
           \/ p = Pos(outputs[o]) - 1 \/ p = Pos(outputs[o]) + 1 \/ p = Len(outputs[o].huts),
           Mru!Change(o, [list |-> outputs[o].huts, shown |-> p])
    PROVE  Mru!Next
<1>1. /\ Stacks[o].list = outputs[o].huts /\ Stacks[o].shown = Pos(outputs[o])
      /\ [Stacks[o] EXCEPT !.shown = p] = [list |-> outputs[o].huts, shown |-> p]
  BY StackViews DEF View
<1>2. Mru!Turn
  BY <1>1 DEF Mru!Turn
<1> QED BY <1>2 DEF Mru!Next

\* Growing the list by a fresh node.
LEMMA GrownStack ==
    ASSUME IInv, TreeInv, nextId \in NodeId, NEW o \in DOMAIN outputs, o = focusedOutput,
           NEW huts, huts = Append(outputs[o].huts, nextId),
           NEW p, p = Pos(outputs[o]) \/ p = Len(huts),
           Mru!Change(o, [list |-> huts, shown |-> p])
    PROVE  Mru!Next
<1>1. Stacks[o].list = outputs[o].huts /\ Stacks[o].shown = Pos(outputs[o])
  BY StackViews
<1>0. nextId >= nextId
  BY TreeTypes
<1>2. nextId \in Mru!Unlisted
  BY <1>0, FreshIsUnlisted
<1>3. Mru!Grow
  BY <1>1, <1>2 DEF Mru!Grow
<1> QED BY <1>3 DEF Mru!Next

\* Discarding what is shown, an untouched console.
LEMMA DiscardedStack ==
    ASSUME IInv, TreeInv, NEW o \in DOMAIN outputs, o = focusedOutput,
           NEW i, i = Pos(outputs[o]), i \in DOMAIN outputs[o].huts,
           ~Touched(outputs[o].huts[i]), NEW ok \in BOOLEAN, ok => nextId \in NodeId,
           NEW left \in Seq(NodeId), left = Appended(RemoveAt(outputs[o].huts, i), ok),
           NEW p \in DOMAIN left, p = i - 1 \/ p = Len(left),
           Mru!Change(o, [list |-> left, shown |-> p])
    PROVE  Mru!Next
<1>1. Stacks[o].list = outputs[o].huts /\ Stacks[o].shown = i
  BY StackViews
<1>2. outputs[o].huts[i] \notin Used
  BY DEF Used
<1>3. \E more \in Mru!Opened : left = RemoveAt(outputs[o].huts, i) \o more
  <2>0. outputs[o].huts \in Seq(NodeId)
    BY TreeTypes
  <2>1. RemoveAt(outputs[o].huts, i) \in Seq(NodeId)
    BY <2>0, RemoveAtFacts
  <2>2. CASE ok
    <3>1. nextId >= nextId
      BY TreeTypes
    <3>2. <<nextId>> \in Mru!Opened
      BY <2>2, <3>1, FreshIsUnlisted
    <3>3. \A s \in Seq(NodeId) : Append(s, nextId) = s \o <<nextId>>
      BY <2>2
    <3> QED BY <2>1, <2>2, <3>2, <3>3 DEF Appended
  <2>3. CASE ~ok
    <3>1. <<>> \in Mru!Opened
      BY DEF Mru!Opened
    <3> QED BY <2>1, <2>3, <3>1 DEF Appended
  <2> QED BY <2>2, <2>3
<1>4. PICK more \in Mru!Opened : left = Mru!RemoveAt(Stacks[o].list, Stacks[o].shown) \o more
  BY <1>1, <1>3, SameOperators
<1>5. Mru!Discard
  BY <1>1, <1>2, <1>4 DEF Mru!Discard
<1> QED BY <1>5 DEF Mru!Next

\* StackNext walks the stack.
LEMMA StackNextIsMru ==
    ASSUME IInv, TreeInv, StackNext
    PROVE  [Mru!Next]_(Mru!vars)
<1>0. PICK o \in DOMAIN outputs : o = focusedOutput
  BY TreeTypes
<1> DEFINE slot == outputs[o]
           pos  == Pos(slot)
<1>1. /\ slot \in Slots /\ SlotGood(slot) /\ pos \in Nat \ {0} /\ slot.huts \in Seq(NodeId)
      /\ \A p \in Nat \ {0} : Landed(slot, p).huts = slot.huts
  <2>1. slot \in Slots /\ SlotGood(slot) /\ pos \in Nat \ {0} /\ slot.huts \in Seq(NodeId)
    BY FocusedList
  <2> QED BY <2>1, LandedView
<1>2. \A ok \in SpawnOutcomes(1) : ok \in BOOLEAN /\ (ok => nextId \in NodeId)
  BY SpawnedId, Halves DEF SpawnOutcomes, GraphHalf
<1>3. \/ AdvanceEmpty(o, slot) \/ AdvanceOver(o, slot, pos) \/ AdvanceGrow(o, slot, pos)
      \/ AdvanceDiscard(o, slot, pos) \/ AdvanceReplace(o, slot, pos)
  BY <1>0, Zenon DEF StackNext
<1>4. ASSUME NEW p \in Nat \ {0}, NEW huts \in Seq(NodeId),
             SetSlot(o, [Landed(slot, p) EXCEPT !.huts = huts])
             \/ (SetSlot(o, Landed(slot, p)) /\ huts = slot.huts)
      PROVE  Mru!Change(o, [list |-> huts, shown |-> p])
  BY <1>1, <1>4, LandedStack
<1> HIDE DEF slot, pos
<1>s. slot = outputs[o] /\ pos = Pos(outputs[o])
  BY DEF slot, pos
<1>5. CASE AdvanceEmpty(o, slot)
  <2>1. PICK ok \in SpawnOutcomes(1) :
          SetSlot(o, IF ok THEN [Landed(slot, 1) EXCEPT !.huts = <<nextId>>] ELSE slot)
    BY <1>5 DEF AdvanceEmpty
  <2>2. slot.huts = <<>>
    BY <1>5 DEF AdvanceEmpty
  <2>3. CASE ok
    <3> DEFINE huts == Append(slot.huts, nextId)
    <3>0. nextId \in NodeId
      BY <1>2, <2>3
    <3>1. huts = <<nextId>> /\ huts \in Seq(NodeId) /\ Len(huts) = 1 /\ 1 \in Nat \ {0}
      BY <2>2, <3>0
    <3>2. SetSlot(o, [Landed(slot, 1) EXCEPT !.huts = huts])
      BY <2>1, <2>3, <3>1, Zenon
    <3>d. huts = Append(slot.huts, nextId)
      OBVIOUS
    <3> HIDE DEF huts
    <3>3. Mru!Change(o, [list |-> huts, shown |-> 1])
      BY <1>4, <3>1, <3>2, Zenon
    <3> QED BY <1>0, <1>s, <3>0, <3>1, <3>3, <3>d, GrownStack
  <2>4. CASE ~ok
    <3>1. SetSlot(o, slot)
      BY <2>1, <2>4, Zenon
    <3>2. outputs' = outputs /\ focusedOutput' = focusedOutput
      BY <1>s, <3>1, TreeTypes DEF SetSlot
    <3> QED BY <3>2 DEF Mru!vars, Stacks, Pos
  <2> QED BY <2>3, <2>4
<1>6. CASE AdvanceOver(o, slot, pos)
  <2>1. pos + 1 \in DOMAIN slot.huts /\ pos + 1 \in Nat \ {0}
    BY <1>1, <1>6 DEF AdvanceOver
  <2>2. Mru!Change(o, [list |-> slot.huts, shown |-> pos + 1])
    BY <1>1, <1>4, <1>6, <2>1 DEF AdvanceOver
  <2> QED BY <1>0, <1>s, <2>1, <2>2, TurnedStack
<1>7. CASE AdvanceGrow(o, slot, pos)
  <2>1. PICK ok \in SpawnOutcomes(1) :
          SetSlot(o, [Landed(slot, IF ok THEN pos + 1 ELSE pos) EXCEPT
                        !.huts = Appended(@, ok)])
    BY <1>7 DEF AdvanceGrow
  <2>2. pos = Len(slot.huts)
    BY <1>7 DEF AdvanceGrow
  <2>3. CASE ok
    <3> DEFINE huts == Append(slot.huts, nextId)
    <3>0. nextId \in NodeId
      BY <1>2, <2>3
    <3>1. huts \in Seq(NodeId) /\ Len(huts) = pos + 1 /\ pos + 1 \in Nat \ {0}
      BY <1>1, <2>2, <3>0
    <3>e. Landed(slot, pos + 1).huts = slot.huts
      BY <1>1, <3>1, Zenon
    <3>2. SetSlot(o, [Landed(slot, pos + 1) EXCEPT !.huts = huts])
      BY <2>1, <2>3, <3>e, Zenon DEF Appended
    <3>d. huts = Append(slot.huts, nextId)
      OBVIOUS
    <3> HIDE DEF huts
    <3>3. Mru!Change(o, [list |-> huts, shown |-> pos + 1])
      BY <1>4, <3>1, <3>2, Zenon
    <3> QED BY <1>0, <1>s, <3>0, <3>1, <3>3, <3>d, GrownStack
  <2>4. CASE ~ok
    <3>1. SetSlot(o, [Landed(slot, pos) EXCEPT !.huts = slot.huts])
      BY <1>1, <2>1, <2>4, Zenon DEF Appended
    <3>2. Mru!Change(o, [list |-> slot.huts, shown |-> pos])
      BY <1>1, <1>4, <3>1
    <3> QED BY <1>0, <1>s, <3>2, StayedStack
  <2> QED BY <2>3, <2>4
<1>8. CASE AdvanceDiscard(o, slot, pos)
  <2>1. PICK ok \in SpawnOutcomes(1) :
          LET left == Appended(RemoveAt(slot.huts, pos), ok) IN
          SetSlot(o, [Landed(slot, Len(left)) EXCEPT !.huts = left])
    BY <1>8 DEF AdvanceDiscard
  <2>2. pos \in DOMAIN slot.huts /\ Len(slot.huts) > 1 /\ ~Touched(slot.huts[pos])
    BY <1>8 DEF AdvanceDiscard, Kept
  <2> DEFINE left == Appended(RemoveAt(slot.huts, pos), ok)
  <2>3. RemoveAt(slot.huts, pos) \in Seq(NodeId) /\ Len(RemoveAt(slot.huts, pos)) >= 1
    BY <1>1, <2>2, RemoveAtFacts
  <2>4. left \in Seq(NodeId) /\ Len(left) \in DOMAIN left /\ Len(left) \in Nat \ {0}
    BY <1>2, <2>3 DEF Appended
  <2>5. SetSlot(o, [Landed(slot, Len(left)) EXCEPT !.huts = left])
    BY <2>1
  <2>d. left = Appended(RemoveAt(slot.huts, pos), ok)
    OBVIOUS
  <2> HIDE DEF left
  <2>6. Mru!Change(o, [list |-> left, shown |-> Len(left)])
    BY <1>4, <2>4, <2>5
  <2> QED BY <1>0, <1>2, <1>s, <2>2, <2>4, <2>6, <2>d, DiscardedStack
<1>9. CASE AdvanceReplace(o, slot, pos)
  <2>1. PICK ok \in SpawnOutcomes(1) :
          SetSlot(o, [Landed(slot, 1) EXCEPT !.huts = Replaced(@, ok)])
    BY <1>9 DEF AdvanceReplace
  <2>2. pos = 1 /\ pos \in DOMAIN slot.huts /\ Len(slot.huts) = 1 /\ ~Touched(slot.huts[pos])
    BY <1>1, <1>9 DEF AdvanceReplace, Kept
  <2>3. CASE ok
    <3> DEFINE left == <<nextId>>
    <3>0. nextId \in NodeId
      BY <1>2, <2>3
    <3>1. left \in Seq(NodeId) /\ Len(left) = 1 /\ 1 \in DOMAIN left /\ 1 \in Nat \ {0}
      BY <3>0
    <3>2. SetSlot(o, [Landed(slot, 1) EXCEPT !.huts = left])
      BY <2>1, <2>3, Zenon DEF Replaced
    <3>3. left = Appended(RemoveAt(slot.huts, pos), ok)
      <4>1. RemoveAt(slot.huts, pos) \in Seq(NodeId) /\ Len(RemoveAt(slot.huts, pos)) = 0
        BY <1>1, <2>2, RemoveAtFacts
      <4>2. RemoveAt(slot.huts, pos) = <<>>
        BY <4>1
      <4> QED BY <2>3, <4>2 DEF Appended
    <3> HIDE DEF left
    <3>4. Mru!Change(o, [list |-> left, shown |-> 1])
      BY <1>4, <3>1, <3>2, Zenon
    <3> QED BY <1>0, <1>2, <1>s, <2>2, <3>0, <3>1, <3>3, <3>4, DiscardedStack
  <2>4. CASE ~ok
    <3>0. 1 \in Nat \ {0} /\ pos = 1
      BY <2>2
    <3>e. Landed(slot, 1).huts = slot.huts
      BY <1>1, <3>0, Zenon
    <3>1. SetSlot(o, [Landed(slot, 1) EXCEPT !.huts = slot.huts])
      BY <2>1, <2>4, <3>e, Zenon DEF Replaced
    <3>2. Mru!Change(o, [list |-> slot.huts, shown |-> pos])
      BY <1>1, <1>4, <3>0, <3>1, Zenon
    <3> QED BY <1>0, <1>s, <3>2, StayedStack
  <2> QED BY <2>3, <2>4
<1> QED BY <1>3, <1>5, <1>6, <1>7, <1>8, <1>9

\* StackPrev walks it the other way.
LEMMA StackPrevIsMru ==
    ASSUME IInv, TreeInv, StackPrev
    PROVE  [Mru!Next]_(Mru!vars)
<1>0. PICK o \in DOMAIN outputs : o = focusedOutput
  BY TreeTypes
<1> DEFINE slot == outputs[o]
           pos  == Pos(slot)
<1>1. /\ slot \in Slots /\ SlotGood(slot) /\ pos \in Nat \ {0} /\ slot.huts \in Seq(NodeId)
      /\ \A p \in Nat \ {0} : Landed(slot, p).huts = slot.huts
  <2>1. slot \in Slots /\ SlotGood(slot) /\ pos \in Nat \ {0} /\ slot.huts \in Seq(NodeId)
    BY FocusedList
  <2> QED BY <2>1, LandedView
<1>2. OpenAtEnd(o, slot) \/ RetreatOver(o, slot, pos) \/ RetreatDiscard(o, slot, pos)
  BY <1>0, Zenon DEF StackPrev
<1>3. ASSUME NEW p \in Nat \ {0}, NEW huts \in Seq(NodeId),
             SetSlot(o, [Landed(slot, p) EXCEPT !.huts = huts])
             \/ (SetSlot(o, Landed(slot, p)) /\ huts = slot.huts)
      PROVE  Mru!Change(o, [list |-> huts, shown |-> p])
  BY <1>1, <1>3, LandedStack
<1>4. OpenAtEnd(o, slot) => pos = 1
  BY <1>1 DEF OpenAtEnd, SlotGood, Pos
<1> HIDE DEF slot, pos
<1>s. slot = outputs[o] /\ pos = Pos(outputs[o])
  BY DEF slot, pos
<1>5. ASSUME NEW p \in Nat \ {0}, SetSlot(o, Landed(slot, p)),
             p = pos \/ (p \in DOMAIN slot.huts /\ (p = pos - 1 \/ p = Len(slot.huts)))
      PROVE  [Mru!Next]_(Mru!vars)
  <2>1. Mru!Change(o, [list |-> slot.huts, shown |-> p])
    BY <1>1, <1>3, <1>5, Zenon
  <2>2. CASE p = pos
    BY <1>0, <1>s, <2>1, <2>2, StayedStack
  <2>3. CASE p \in DOMAIN slot.huts /\ (p = pos - 1 \/ p = Len(slot.huts))
    BY <1>0, <1>s, <2>1, <2>3, TurnedStack
  <2> QED BY <1>5, <2>2, <2>3
<1>6. CASE OpenAtEnd(o, slot)
  <2> DEFINE p == MaxIndex(Len(slot.huts))
  <2>1. p \in Nat \ {0} /\ (p = pos \/ (p \in DOMAIN slot.huts /\ p = Len(slot.huts)))
    BY <1>1, <1>4, <1>6 DEF MaxIndex
  <2>2. SetSlot(o, Landed(slot, p))
    BY <1>6 DEF OpenAtEnd
  <2> HIDE DEF p
  <2> QED BY <1>5, <2>1, <2>2
<1>7. CASE RetreatOver(o, slot, pos)
  <2> DEFINE p == IF pos = 1 \/ slot.huts = <<>> THEN pos ELSE pos - 1
  <2>1. p \in Nat \ {0} /\ (p = pos \/ (p \in DOMAIN slot.huts /\ p = pos - 1))
    BY <1>1, <1>7 DEF RetreatOver
  <2>2. SetSlot(o, Landed(slot, p))
    BY <1>7 DEF RetreatOver
  <2> HIDE DEF p
  <2> QED BY <1>5, <2>1, <2>2
<1>8. CASE RetreatDiscard(o, slot, pos)
  <2>1. /\ pos \in DOMAIN slot.huts /\ pos # 1 /\ ~Touched(slot.huts[pos])
        /\ SetSlot(o, [Landed(slot, pos - 1) EXCEPT !.huts = RemoveAt(@, pos)])
    BY <1>8 DEF RetreatDiscard, Kept
  <2> DEFINE left == RemoveAt(slot.huts, pos)
  <2>2. left \in Seq(NodeId) /\ Len(left) = Len(slot.huts) - 1
    BY <1>1, <2>1, RemoveAtFacts
  <2>3. pos - 1 \in DOMAIN left /\ pos - 1 \in Nat \ {0}
    BY <1>1, <2>1, <2>2
  <2>4. Landed(slot, pos - 1).huts = slot.huts
    BY <1>1, <2>3, Zenon
  <2>5. SetSlot(o, [Landed(slot, pos - 1) EXCEPT !.huts = left])
    BY <2>1, <2>4, Zenon
  <2>6. left = Appended(RemoveAt(slot.huts, pos), FALSE)
    BY DEF Appended
  <2> HIDE DEF left
  <2>7. Mru!Change(o, [list |-> left, shown |-> pos - 1])
    BY <1>3, <2>2, <2>3, <2>5, Zenon
  <2> QED BY <1>0, <1>s, <2>1, <2>2, <2>3, <2>6, <2>7, DiscardedStack
<1> QED BY <1>2, <1>6, <1>7, <1>8

\* What is shown is in the list, or the first place of one that has no entry.
Shown(slot) == Pos(slot) <= MaxIndex(Len(slot.huts))
ShownInv    == \A o \in DOMAIN outputs : Shown(outputs[o])

\* An open preview of a list that has one is one of its entries.
LEMMA PreviewShown ==
    ASSUME NEW slot \in Slots, SlotGood(slot), Shown(slot), slot.preview # 0
    PROVE  /\ Pos(slot) = slot.preview
           /\ (slot.huts = <<>> /\ slot.preview = 1) \/ slot.preview \in DOMAIN slot.huts
<1>1. slot.huts \in Seq(NodeId) /\ slot.preview \in Nat
  BY DEF Slots
<1>2. Pos(slot) = slot.preview
  BY DEF Pos
<1>3. slot.preview <= MaxIndex(Len(slot.huts))
  BY <1>2 DEF Shown
<1> QED BY <1>1, <1>2, <1>3 DEF MaxIndex

\* commit_preview as MruStacks sees it: nothing, or the previewed entry is settled on.
LEMMA CommittedView ==
    ASSUME NEW slot \in Slots, SlotGood(slot), Shown(slot)
    PROVE  LET v == View(Committed(slot)) IN
           \/ v = View(slot)
           \/ /\ Pos(slot) \in DOMAIN slot.huts
              /\ v = [list |-> <<slot.huts[Pos(slot)]>> \o RemoveAt(slot.huts, Pos(slot)),
                      shown |-> 1]
              /\ slot.preview = Pos(slot)
<1>1. CASE slot.preview = 0
  BY <1>1 DEF Committed
<1>2. CASE slot.preview # 0
  <2>1. /\ Pos(slot) = slot.preview
        /\ (slot.huts = <<>> /\ slot.preview = 1) \/ slot.preview \in DOMAIN slot.huts
    BY <1>2, PreviewShown
  <2>2. CASE slot.preview \in DOMAIN slot.huts
    <3> DEFINE huts == <<slot.huts[slot.preview]>> \o RemoveAt(slot.huts, slot.preview)
    <3>1. Committed(slot) = [huts |-> huts, current |-> 1, preview |-> 0]
      BY <1>2, <2>2 DEF Committed
    <3>2. huts = <<slot.huts[Pos(slot)]>> \o RemoveAt(slot.huts, Pos(slot))
      BY <2>1
    <3> HIDE DEF huts
    <3>3. View(Committed(slot)) = [list |-> huts, shown |-> 1]
      BY <3>1 DEF View, Pos
    <3> QED BY <2>1, <2>2, <3>2, <3>3
  <2>3. CASE slot.preview \notin DOMAIN slot.huts
    <3>1. Committed(slot) = [huts |-> slot.huts, current |-> 1, preview |-> 0]
      BY <1>2, <2>3 DEF Committed
    <3> QED BY <2>1, <2>3, <3>1 DEF View, Pos
  <2> QED BY <2>2, <2>3
<1> QED BY <1>1, <1>2

\* A previewed entry counts as used once it is committed.
LEMMA CommittedIsUsed ==
    ASSUME IInv, NEW o \in DOMAIN outputs, outputs[o].preview \in DOMAIN outputs[o].huts,
           MarkTouched(CommittedEntries(outputs[o])),
           LET n == outputs[o].huts[outputs[o].preview] IN
           kind'[n] = "console" => kind[n] = "console"
    PROVE  outputs[o].huts[outputs[o].preview] \in Used'
<1>1. PICK n \in NodeId : n = outputs[o].huts[outputs[o].preview]
  BY TreeTypes
<1>2. kind'[n] = "console" => n \in touched'
  BY <1>1 DEF MarkTouched, CommittedEntries
<1>3. n \in Used'
  BY <1>2 DEF Used, Touched
<1> QED BY <1>1, <1>3

\* Settling on what is shown, when the list is all that changes.
LEMMA CommitIsMru ==
    ASSUME IInv, ShownInv, NEW o \in DOMAIN outputs, o = focusedOutput,
           SetSlot(o, Committed(outputs[o])), MarkTouched(CommittedEntries(outputs[o])),
           \A n \in ToSet(outputs[o].huts) : kind'[n] = kind[n]
    PROVE  [Mru!Next]_(Mru!vars)
<1> DEFINE slot == outputs[o]
           i    == Pos(slot)
           v    == View(Committed(slot))
<1>1. slot \in Slots /\ SlotGood(slot) /\ Shown(slot)
  BY Halves, FocusedSlot DEF ShownInv
<1>2. \/ v = View(slot)
      \/ /\ i \in DOMAIN slot.huts
         /\ v = [list |-> <<slot.huts[i]>> \o RemoveAt(slot.huts, i), shown |-> 1]
         /\ slot.preview = i
  BY <1>1, CommittedView
<1>3. Mru!Change(o, v)
  BY ChangedStack
<1>4. Stacks[o] = View(slot) /\ Stacks[o].list = slot.huts /\ Stacks[o].shown = i
  BY StackViews
<1>5. CASE v = View(slot)
  <2>1. Mru!Change(o, [list |-> slot.huts, shown |-> i])
    BY <1>3, <1>5 DEF View
  <2> QED BY <2>1, StayedStack
<1>6. CASE /\ i \in DOMAIN slot.huts /\ slot.preview = i
           /\ v = [list |-> <<slot.huts[i]>> \o RemoveAt(slot.huts, i), shown |-> 1]
  <2>0. slot.huts[i] \in ToSet(slot.huts)
    BY <1>6 DEF ToSet
  <2>1. slot.huts[i] \in Used'
    BY <1>6, <2>0, CommittedIsUsed
  <2>2. Mru!Fronted(Stacks[o]) = v
    BY <1>4, <1>6, SameOperators DEF Mru!Fronted
  <2> HIDE DEF v, slot, i
  <2>3. Mru!Settle
    BY <1>3, <1>4, <1>6, <2>1, <2>2 DEF Mru!Settle
  <2> QED BY <2>3 DEF Mru!Next
<1> QED BY <1>2, <1>5, <1>6

\* wrap_tab and wrap_tile: the wrapper takes the place of the entry shown, or of
\* something inside it, and a preview is settled on first.
LEMMA WrapIsMru ==
    ASSUME IInv, TreeInv, ShownInv, NEW kd \in Wrappers, Wrap(kd)
    PROVE  [Mru!Next]_(Mru!vars)
<1>0. PICK o \in DOMAIN outputs : o = focusedOutput
  BY TreeTypes
<1> DEFINE slot == Committed(outputs[o])
<1>1. /\ slot.current \in DOMAIN slot.huts /\ MarkTouched(CommittedEntries(outputs[o]))
  BY <1>0 DEF Wrap
<1>2. outputs[o] \in Slots /\ SlotGood(outputs[o]) /\ Shown(outputs[o])
  BY Halves, FocusedSlot DEF ShownInv
<1>3. slot \in Slots /\ slot.preview = 0 /\ Pos(slot) = slot.current
  <2>1. slot \in Slots
    BY <1>2, CommittedFacts
  <2>2. slot.preview = 0
    BY DEF Committed
  <2> QED BY <2>1, <2>2 DEF Pos
<1>4. PICK ok \in SpawnOutcomes(2) :
        IF ok THEN WrapLink(o, slot, kd, nextId, nextId + 1)
        ELSE SetSlot(o, slot) /\ UNCHANGED graphVars
  BY <1>0, Zenon DEF Wrap
<1>5. CASE ~ok
  <2>1. SetSlot(o, slot) /\ kind' = kind
    BY <1>4, <1>5, Zenon DEF graphVars
  <2> QED BY <1>0, <1>1, <2>1, CommitIsMru
<1>6. CASE ok
  <2>1. nextId \in NodeId /\ nextId + 1 \in NodeId /\ nextId + 1 >= nextId
    <3>1. nextId + 2 - 1 \in NodeId /\ nextId \in Nat \ {0}
      BY <1>6, TreeTypes DEF SpawnOutcomes
    <3> QED BY <3>1, BoundsAssumption DEF NodeId
  <2>2. WrapLink(o, slot, kd, nextId, nextId + 1)
    BY <1>4, <1>6, Zenon
  <2>3. /\ kind' = [kind EXCEPT ![nextId] = "console", ![nextId + 1] = kd]
        /\ \/ SetSlot(o, slot)
           \/ SetSlot(o, [slot EXCEPT !.huts = ReplaceAt(slot.huts, slot.current, nextId + 1)])
    BY <2>2, Zenon DEF WrapLink
  <2>4. \A n \in ToSet(outputs[o].huts) : kind'[n] = kind[n]
    <3> SUFFICES ASSUME NEW n \in ToSet(outputs[o].huts) PROVE kind'[n] = kind[n]
      OBVIOUS
    <3>1. n \in NodeId /\ kind[n] # "none"
      BY PlacesLive DEF LiveNodes
    <3>2. n # nextId /\ n # nextId + 1
      <4>1. nextId >= nextId
        BY TreeTypes
      <4> QED BY <2>1, <3>1, <4>1 DEF IInv, GraphInv
    <3> QED BY <2>3, <3>1, <3>2, TreeTypes
  <2>5. CASE SetSlot(o, slot)
    BY <1>0, <1>1, <2>4, <2>5, CommitIsMru
  <2>6. CASE SetSlot(o, [slot EXCEPT !.huts = ReplaceAt(slot.huts, slot.current, nextId + 1)])
    <3> DEFINE huts == [slot.huts EXCEPT ![slot.current] = nextId + 1]
               v    == View(slot)
               new  == [slot EXCEPT !.huts = huts]
               i    == Pos(outputs[o])
    <3>1. slot.huts \in Seq(NodeId) /\ slot.current \in Nat
      BY <1>3 DEF Slots
    <3>2. ReplaceAt(slot.huts, slot.current, nextId + 1) = huts
      <4> HIDE DEF slot
      <4> QED BY <3>1 DEF ReplaceAt
    <3>3. new = [huts |-> huts, current |-> slot.current, preview |-> slot.preview]
      BY <1>3, SlotUpdates, Zenon
    <3>4. View(new) = [list |-> huts, shown |-> slot.current]
      BY <1>3, <3>3 DEF View, Pos
    <3>5. v = [list |-> slot.huts, shown |-> slot.current]
      BY <1>3 DEF View
    <3>6. [v EXCEPT !.list = [@ EXCEPT ![v.shown] = nextId + 1]]
            = [list |-> huts, shown |-> slot.current]
      BY <3>5
    <3>7. Mru!Change(o, [v EXCEPT !.list = [@ EXCEPT ![v.shown] = nextId + 1]])
      <4>1. SetSlot(o, new)
        BY <2>6, <3>2, Zenon
      <4> HIDE DEF new, huts
      <4> QED BY <3>4, <3>6, <4>1, ChangedStack
    <3>8. Stacks[o] = View(outputs[o]) /\ Stacks[o].list = outputs[o].huts /\ Stacks[o].shown = i
      BY StackViews
    <3>9. i \in DOMAIN outputs[o].huts /\ v \in {Stacks[o], Mru!Fronted(Stacks[o])}
      <4>1. CASE v = View(outputs[o])
        <5>1. v.list = outputs[o].huts /\ v.shown = i
          BY <4>1 DEF View
        <5> QED BY <1>1, <3>5, <3>8, <4>1, <5>1
      <4>2. CASE /\ i \in DOMAIN outputs[o].huts
                 /\ v = [list |-> <<outputs[o].huts[i]>> \o RemoveAt(outputs[o].huts, i),
                         shown |-> 1]
        BY <3>8, <4>2, SameOperators DEF Mru!Fronted
      <4> QED BY <1>2, <4>1, <4>2, CommittedView
    <3>10. nextId + 1 \in Mru!Unlisted
      BY <2>1, FreshIsUnlisted
    <3> HIDE DEF v, huts, new, i, slot
    <3>11. Mru!Wrap
      BY <1>0, <3>7, <3>8, <3>9, <3>10 DEF Mru!Wrap
    <3> QED BY <3>11 DEF Mru!Next
  <2> QED BY <2>3, <2>5, <2>6
<1>7. ok \in BOOLEAN
  BY DEF SpawnOutcomes
<1> QED BY <1>5, <1>6, <1>7

\* Where the index of what is shown goes when entry i is removed, and a fresh
\* node refills the list if that was the last one.
LEMMA MovedIndex ==
    ASSUME NEW s \in Seq(NodeId), NEW i \in 1..Len(s), NEW c \in 1..Len(s),
           NEW ok \in BOOLEAN, ok => Len(s) = 1 /\ nextId \in NodeId,
           NEW left, left = RemoveAt(s, i), NEW huts, huts = Appended(left, ok),
           NEW p, p = ClampIndex(ShiftOnRemoval(c, i, Len(left)), Len(huts))
    PROVE  /\ p \in 1..Len(s)
           /\ huts # <<>> => p \in DOMAIN huts
           /\ IF c = i THEN p \in {i - 1, i} ELSE huts[p] = s[c]
           /\ ~ok => huts = left
<1>1. left \in Seq(NodeId) /\ Len(left) = Len(s) - 1 /\ Len(s) \in Nat \ {0}
  BY RemoveAtFacts
<1>2. CASE c # i
  <2>0. Len(s) # 1
    BY <1>1, <1>2
  <2>1. ~ok
    BY <2>0
  <2>2. huts = left
    BY <2>1 DEF Appended
  <2>3. p \in DOMAIN left /\ left[p] = s[c]
    BY <1>2, <2>2, ShiftedEntry
  <2>4. p \in 1..Len(s)
    BY <1>1, <2>3
  <2> QED BY <1>2, <2>2, <2>3, <2>4
<1>3. CASE c = i /\ ok
  <2>1. Len(s) = 1 /\ i = 1 /\ c = 1 /\ Len(left) = 0
    BY <1>1, <1>3
  <2>2. huts = Append(left, nextId)
    BY <1>3 DEF Appended
  <2>3. nextId \in NodeId
    BY <1>3
  <2>4. huts \in Seq(NodeId) /\ Len(huts) = 1
    BY <1>1, <2>1, <2>2, <2>3
  <2>5. p = 1
    BY <2>1, <2>4 DEF ShiftOnRemoval, ClampIndex, MaxIndex
  <2>6. /\ p \in 1..Len(s) /\ p \in {i - 1, i}
        /\ p \in DOMAIN huts
    BY <2>1, <2>4, <2>5
  <2> QED BY <1>3, <2>6
<1>4. CASE c = i /\ ~ok
  <2>1. huts = left
    BY <1>4 DEF Appended
  <2>2. p = IF i > Len(left) THEN MaxIndex(Len(left)) ELSE i
    BY <1>1, <1>4, <2>1 DEF ShiftOnRemoval, ClampIndex, MaxIndex
  <2>3. p \in 1..Len(s) /\ p \in {i - 1, i} /\ (Len(left) # 0 => p \in 1..Len(left))
    BY <1>1, <2>2 DEF MaxIndex
  <2> QED BY <1>1, <1>4, <2>1, <2>3
<1> QED BY <1>2, <1>3, <1>4

\* The exit of a shell that is a top-level entry closes that entry.
LEMMA ExitTopLevelIsMru ==
    ASSUME IInv, TreeInv, ShownInv, NEW n, ExitTopLevel(n)
    PROVE  [Mru!Next]_(Mru!vars)
<1>1. PICK o \in DOMAIN outputs : \E i \in DOMAIN outputs[o].huts : ExitEntry(o, i, n)
  BY DEF ExitTopLevel
<1>2. PICK i \in DOMAIN outputs[o].huts : ExitEntry(o, i, n)
  BY <1>1
<1>3. PICK ok \in BOOLEAN : /\ SetSlot(o, SlotWithout(outputs[o], i, ok))
                            /\ ok => Len(outputs[o].huts) = 1 /\ ok \in SpawnOutcomes(1)
  BY <1>2 DEF ExitEntry, SpawnOutcomes
<1>4. ok => nextId \in NodeId
  BY <1>3, SpawnedId, Halves DEF GraphHalf
<1> DEFINE slot == outputs[o]
           s    == slot.huts
           c    == Pos(slot)
           left == RemoveAt(s, i)
           huts == Appended(left, ok)
           moved(x) == ClampIndex(ShiftOnRemoval(x, i, Len(left)), Len(huts))
           p    == moved(c)
<1>5. /\ slot \in Slots /\ SlotGood(slot) /\ s \in Seq(NodeId) /\ c \in Nat \ {0}
      /\ slot.current \in Nat /\ slot.preview \in Nat
  <2>1. slot \in Slots /\ SlotGood(slot) /\ s \in Seq(NodeId) /\ c \in Nat \ {0}
    BY Halves, FocusedSlot
  <2> QED BY <2>1 DEF Slots
<1>6. i \in 1..Len(s) /\ c \in 1..Len(s)
  <2>1. i \in 1..Len(s) /\ Shown(slot)
    BY <1>5 DEF ShownInv
  <2> QED BY <1>5, <2>1 DEF Shown, MaxIndex
<1>7. /\ p \in 1..Len(s)
      /\ huts # <<>> => p \in DOMAIN huts
      /\ IF c = i THEN p \in {i - 1, i} ELSE huts[p] = s[c]
      /\ ~ok => huts = left
  <2>1. left = RemoveAt(s, i) /\ huts = Appended(left, ok)
        /\ p = ClampIndex(ShiftOnRemoval(c, i, Len(left)), Len(huts))
    OBVIOUS
  <2> HIDE DEF left, huts, p, s, c
  <2> QED BY <1>3, <1>4, <1>5, <1>6, <2>1, MovedIndex DEF s
<1>8. View(SlotWithout(slot, i, ok)) = [list |-> huts, shown |-> p]
  <2>1. SlotWithout(slot, i, ok) = [huts |-> huts, current |-> moved(slot.current),
                                    preview |-> IF slot.preview = 0 THEN 0
                                                ELSE moved(slot.preview)]
    BY DEF SlotWithout
  <2>2. CASE slot.preview = 0
    <3>1. c = slot.current
      BY <2>2 DEF Pos
    <3> HIDE DEF huts, moved
    <3> QED BY <2>1, <2>2, <3>1 DEF View, Pos
  <2>3. CASE slot.preview # 0
    <3>1. c = slot.preview
      BY <2>3 DEF Pos
    <3>2. p # 0 /\ p = moved(slot.preview)
      BY <1>7, <3>1
    <3> HIDE DEF huts, moved, p
    <3> QED BY <2>1, <2>3, <3>2 DEF View, Pos
  <2> QED BY <2>2, <2>3
<1>9. Mru!Change(o, [list |-> huts, shown |-> p])
  <2> HIDE DEF huts, p
  <2> QED BY <1>3, <1>8, ChangedStack
<1>10. \E more \in Mru!Opened : huts = left \o more /\ (Len(s) > 1 => more = <<>>)
  <2>1. left \in Seq(NodeId)
    BY <1>5, <1>6, RemoveAtFacts
  <2>2. CASE ok
    <3>1. nextId >= nextId /\ nextId \in NodeId
      BY <1>4, <2>2, TreeTypes
    <3>2. <<nextId>> \in Mru!Opened
      BY <3>1, FreshIsUnlisted
    <3>3. Append(left, nextId) = left \o <<nextId>>
      <4> HIDE DEF left
      <4> QED BY <2>1, <3>1
    <3>4. huts = left \o <<nextId>>
      BY <2>2, <3>3 DEF Appended
    <3>5. ~(Len(s) > 1)
      <4>1. Len(s) = 1
        BY <1>3, <2>2
      <4> HIDE DEF s
      <4> QED BY <4>1
    <3> HIDE DEF huts, left, s
    <3> QED BY <3>2, <3>4, <3>5, Zenon
  <2>3. CASE ~ok
    <3>1. <<>> \in Mru!Opened
      BY DEF Mru!Opened
    <3>2. left \o <<>> = left
      <4> HIDE DEF left
      <4> QED BY <2>1
    <3> QED BY <2>3, <3>1, <3>2 DEF Appended
  <2> QED BY <2>2, <2>3
<1>11. Stacks[o].list = s /\ Stacks[o].shown = c /\ o \in DOMAIN Stacks
  BY StackViews
<1>12. Mru!RemoveAt(s, i) = left
  BY SameOperators
<1> HIDE DEF slot, s, c, left, huts, p
<1>13. Mru!Close(o, i)
  BY <1>7, <1>9, <1>10, <1>11, <1>12 DEF Mru!Close
<1>14. i \in DOMAIN Stacks[o].list
  BY <1>5, <1>6, <1>11
<1> QED BY <1>11, <1>13, <1>14 DEF Mru!Next

\* An entry that is in the list once is replaced in its place.
LEMMA ReplacedOnce ==
    ASSUME NEW s \in Seq(NodeId), NEW old, NEW new \in NodeId
    PROVE  /\ old \notin ToSet(s) => ReplaceAll(s, old, new) = s
           /\ \A i \in DOMAIN s : s[i] = old /\ IsInjective(s) =>
                ReplaceAll(s, old, new) = [s EXCEPT ![i] = new]
<1>1. ReplaceAll(s, old, new) = [j \in 1..Len(s) |-> IF s[j] = old THEN new ELSE s[j]]
  BY DEF ReplaceAll
<1>2. ASSUME old \notin ToSet(s) PROVE ReplaceAll(s, old, new) = s
  <2>1. \A j \in 1..Len(s) : s[j] # old
    BY <1>2 DEF ToSet
  <2> QED BY <1>1, <2>1
<1>3. ASSUME NEW i \in DOMAIN s, s[i] = old, IsInjective(s)
      PROVE  ReplaceAll(s, old, new) = [s EXCEPT ![i] = new]
  <2>1. \A j \in 1..Len(s) : s[j] = old => j = i
    BY <1>3 DEF IsInjective
  <2>2. [s EXCEPT ![i] = new] = [j \in 1..Len(s) |-> IF j = i THEN new ELSE s[j]]
    OBVIOUS
  <2> QED BY <1>1, <1>3, <2>1, <2>2
<1> QED BY <1>2, <1>3

\* Clamping the indexes of a slot once more does not move what it shows.
LEMMA ClampedShown ==
    ASSUME NEW slot \in Slots, Shown(slot), NEW new,
           \/ new.current = slot.current /\ new.preview = slot.preview
           \/ /\ new.current = ClampIndex(slot.current, Len(slot.huts))
              /\ new.preview = IF slot.preview # 0 THEN ClampIndex(slot.preview, Len(slot.huts))
                               ELSE slot.preview
    PROVE  Pos(new) = Pos(slot)
<1>1. slot.current \in Nat /\ slot.preview \in Nat /\ Len(slot.huts) \in Nat
  BY DEF Slots
<1>2. CASE slot.preview = 0
  <2>1. slot.current <= MaxIndex(Len(slot.huts))
    BY <1>2 DEF Shown, Pos
  <2>2. ClampIndex(slot.current, Len(slot.huts)) = slot.current
    BY <1>1, <2>1 DEF ClampIndex, MaxIndex
  <2> QED BY <1>2, <2>2 DEF Pos
<1>3. CASE slot.preview # 0
  <2>1. slot.preview <= MaxIndex(Len(slot.huts))
    BY <1>3 DEF Shown, Pos
  <2>2. ClampIndex(slot.preview, Len(slot.huts)) = slot.preview
    BY <1>1, <2>1 DEF ClampIndex, MaxIndex
  <2> QED BY <1>3, <2>2 DEF Pos
<1> QED BY <1>2, <1>3

\* The exit of a nested shell lets the survivor stand in for the entry, if the
\* pair was one, and else leaves the stacks alone.
LEMMA ExitNestedIsMru ==
    ASSUME IInv, TreeInv, ShownInv, NEW n \in NodeId, kind[n] = "console", ExitNested(n)
    PROVE  [Mru!Next]_(Mru!vars)
<1>1. PICK parent \in NodeId, s \in NodeId, at \in DOMAIN outputs : CollapsesOnto(n, parent, s, at)
  BY ExitNestedCollapses
<1>2. /\ DOMAIN outputs' = DOMAIN outputs /\ s \in Below[parent]
      /\ \A o \in DOMAIN outputs :
         /\ outputs'[o].huts = ReplaceAll(outputs[o].huts, parent, s)
         /\ outputs'[o].current =
              IF o = at THEN ClampIndex(outputs[o].current, Len(outputs[o].huts))
              ELSE outputs[o].current
         /\ outputs'[o].preview =
              IF o = at /\ outputs[o].preview # 0
              THEN ClampIndex(outputs[o].preview, Len(outputs[o].huts))
              ELSE outputs[o].preview
  BY <1>1 DEF CollapsesOnto
<1>3. focusedOutput' = focusedOutput
  BY DEF ExitNested
<1>4. \A o \in DOMAIN outputs : Pos(outputs'[o]) = Pos(outputs[o])
  <2> SUFFICES ASSUME NEW o \in DOMAIN outputs PROVE Pos(outputs'[o]) = Pos(outputs[o])
    OBVIOUS
  <2>1. outputs[o] \in Slots /\ Shown(outputs[o])
    BY FocusedList DEF ShownInv
  <2> QED BY <1>2, <2>1, ClampedShown
<1>5. /\ \A o \in DOMAIN outputs : /\ outputs[o].huts \in Seq(NodeId)
                                   /\ IsInjective(outputs[o].huts)
                                   /\ Tops[o] = ToSet(outputs[o].huts)
      /\ DOMAIN Tops = DOMAIN outputs
      /\ \A o, p \in DOMAIN outputs : Tops[o] \cap Tops[p] # {} => o = p
      /\ \A o \in DOMAIN outputs, p \in NodeId : Tops[o] \cap Below[p] = {}
  <2>1. DOMAIN Tops = DOMAIN outputs
    BY DEF Tops
  <2> QED BY <2>1, FocusedList, PlacesLive DEF TreeInv, Forest
<1>6. Stacks = [o \in DOMAIN outputs |-> [list |-> outputs[o].huts, shown |-> Pos(outputs[o])]]
  BY DEF Stacks
<1>7. Stacks' = [o \in DOMAIN outputs |-> [list |-> outputs'[o].huts, shown |-> Pos(outputs[o])]]
  <2>1. Stacks' = [o \in DOMAIN outputs' |->
                     [list |-> outputs'[o].huts, shown |-> Pos(outputs'[o])]]
    BY DEF Stacks, Pos
  <2> QED BY <1>2, <1>4, <2>1
<1>8. CASE \A o \in DOMAIN outputs : parent \notin ToSet(outputs[o].huts)
  <2>1. \A o \in DOMAIN outputs : outputs'[o].huts = outputs[o].huts
    BY <1>2, <1>5, <1>8, ReplacedOnce
  <2>2. Stacks' = Stacks
    BY <1>6, <1>7, <2>1
  <2> QED BY <1>3, <2>2 DEF Mru!vars
<1>9. CASE \E o \in DOMAIN outputs : parent \in ToSet(outputs[o].huts)
  <2>1. PICK o \in DOMAIN outputs : parent \in ToSet(outputs[o].huts)
    BY <1>9
  <2>2. PICK i \in DOMAIN outputs[o].huts : outputs[o].huts[i] = parent
    BY <2>1 DEF ToSet
  <2>3. outputs'[o].huts = [outputs[o].huts EXCEPT ![i] = s]
    BY <1>2, <1>5, <2>2, ReplacedOnce
  <2>4. \A p \in DOMAIN outputs : p # o => outputs'[p].huts = outputs[p].huts
    <3>1. \A p \in DOMAIN outputs : p # o => parent \notin ToSet(outputs[p].huts)
      BY <1>5, <2>1
    <3> QED BY <1>2, <1>5, <3>1, ReplacedOnce
  <2>5. Stacks[o] = [list |-> outputs[o].huts, shown |-> Pos(outputs[o])]
    BY <1>6
  <2>6. [Stacks[o] EXCEPT !.list = [@ EXCEPT ![i] = s]]
          = [list |-> outputs'[o].huts, shown |-> Pos(outputs[o])]
    BY <2>3, <2>5
  <2>7. Stacks' = [Stacks EXCEPT ![o] = [list |-> outputs'[o].huts, shown |-> Pos(outputs[o])]]
    BY <1>6, <1>7, <2>4
  <2>8. s \in Mru!Unlisted
    <3>1. \A p \in DOMAIN outputs : s \notin ToSet(outputs[p].huts)
      BY <1>2, <1>5
    <3> QED BY <3>1, UnlistedNodes
  <2>9. Mru!Change(o, [Stacks[o] EXCEPT !.list = [@ EXCEPT ![i] = s]])
    BY <1>3, <2>6, <2>7 DEF Mru!Change
  <2>10. Mru!Survive(o, i)
    BY <2>8, <2>9 DEF Mru!Survive
  <2>11. o \in DOMAIN Stacks /\ i \in DOMAIN Stacks[o].list
    BY StackViews
  <2> QED BY <2>10, <2>11 DEF Mru!Next
<1> QED BY <1>8, <1>9

\* The stacks are a sequence, as the outputs are.
LEMMA StacksType ==
    ASSUME IInv
    PROVE  /\ Stacks \in Seq([list : Seq(NodeId), shown : Nat])
           /\ Len(Stacks) = Len(outputs) /\ DOMAIN Stacks = 1..Len(outputs)
<1>1. outputs \in Seq(Slots) /\ DOMAIN outputs = 1..Len(outputs) /\ Len(outputs) \in Nat
  BY TreeTypes
<1>2. \A o \in DOMAIN outputs : View(outputs[o]) \in [list : Seq(NodeId), shown : Nat]
  BY Halves, FocusedSlot DEF View
<1>3. Stacks = [o \in 1..Len(outputs) |-> View(outputs[o])]
  BY <1>1 DEF Stacks, View
<1> HIDE DEF View
<1> QED BY <1>1, <1>2, <1>3

\* A step that leaves the outputs and the focus alone leaves the stacks alone.
LEMMA SameSlotsAreMru ==
    ASSUME UNCHANGED slotVars
    PROVE  [Mru!Next]_(Mru!vars)
<1>1. outputs' = outputs /\ focusedOutput' = focusedOutput
  BY DEF slotVars
<1> QED BY <1>1 DEF Mru!vars, Stacks, Pos

\* An autostart entry is opened behind the ones that are there.
LEMMA SpawnWithCommandIsMru ==
    ASSUME IInv, TreeInv, SpawnWithCommand
    PROVE  [Mru!Next]_(Mru!vars)
<1>0. PICK o \in DOMAIN outputs : o = focusedOutput
  BY TreeTypes
<1>1. nextId \in NodeId
  BY SpawnedId, Halves DEF SpawnWithCommand, GraphHalf
<1> DEFINE slot == outputs[o]
           huts == Append(slot.huts, nextId)
           new  == [slot EXCEPT !.huts = huts]
<1>2. SetSlot(o, new)
  BY <1>0 DEF SpawnWithCommand
<1>3. slot \in Slots
  BY FocusedList
<1>4. new = [huts |-> huts, current |-> slot.current, preview |-> slot.preview]
  BY <1>3, SlotUpdates, Zenon
<1>5. View(new) = [list |-> huts, shown |-> Pos(slot)]
  <2> HIDE DEF new, huts, slot
  <2> QED BY <1>4 DEF View, Pos
<1> HIDE DEF new
<1>6. Mru!Change(o, [list |-> huts, shown |-> Pos(slot)])
  BY <1>2, <1>5, ChangedStack
<1> QED BY <1>0, <1>1, <1>6, GrownStack

\* commit_preview, whichever key event runs it.
LEMMA CommitPreviewIsMru ==
    ASSUME IInv, ShownInv, CommitPreview
    PROVE  [Mru!Next]_(Mru!vars)
<1>0. PICK o \in DOMAIN outputs : o = focusedOutput
  BY TreeTypes
<1>1. /\ SetSlot(o, Committed(outputs[o])) /\ MarkTouched(CommittedEntries(outputs[o]))
      /\ kind' = kind
  BY <1>0 DEF CommitPreview, graphVars
<1> QED BY <1>0, <1>1, CommitIsMru

\* A new output has a stack of one fresh entry.
LEMMA AddOutputIsMru ==
    ASSUME IInv, TreeInv, AddOutput
    PROVE  [Mru!Next]_(Mru!vars)
<1>1. nextId \in NodeId
  BY SpawnedId, Halves DEF AddOutput, GraphHalf
<1>2. /\ outputs' = Append(outputs, NewSlot(nextId)) /\ focusedOutput' = focusedOutput
  BY DEF AddOutput
<1>3. outputs \in Seq(Slots) /\ Len(outputs) \in Nat
  BY TreeTypes
<1> DEFINE e == Mru!OneEntry(nextId)
           n == Len(outputs)
<1>4. View(NewSlot(nextId)) = e
  BY DEF NewSlot, View, Pos, Mru!OneEntry
<1>5. /\ DOMAIN outputs' = 1..(n + 1) /\ outputs'[n + 1] = NewSlot(nextId)
      /\ \A o \in 1..n : outputs'[o] = outputs[o]
  <2>1. NewSlot(nextId) \in Slots
    BY <1>1 DEF NewSlot, Slots
  <2> QED BY <1>2, <1>3, <2>1
<1>6. Stacks' = [o \in 1..(n + 1) |-> View(outputs'[o])]
  BY <1>5 DEF Stacks, View, Pos
<1>7. Stacks = [o \in 1..n |-> View(outputs[o])]
  BY <1>3 DEF Stacks, View
<1> HIDE DEF e, View
<1>8. Append(Stacks, e) = [o \in 1..(n + 1) |-> IF o = n + 1 THEN e ELSE Stacks[o]]
  <2> DEFINE T == [list : Seq(NodeId), shown : Nat]
             s == Stacks
             new == Append(s, e)
  <2>1. s \in Seq(T) /\ Len(s) = n /\ n \in Nat
    BY <1>3, StacksType
  <2>0. e \in T
    BY <1>1 DEF e, Mru!OneEntry
  <2> HIDE DEF T, s, n
  <2>2. /\ new \in Seq(T) /\ Len(new) = n + 1
        /\ \A o \in 1..(n + 1) : new[o] = IF o = n + 1 THEN e ELSE s[o]
    BY <2>0, <2>1
  <2>3. new = [o \in 1..(n + 1) |-> new[o]]
    <3> HIDE DEF new
    <3> QED BY <2>2
  <2>4. new = [o \in 1..(n + 1) |-> IF o = n + 1 THEN e ELSE s[o]]
    BY <2>2, <2>3
  <2> QED BY <2>4 DEF s
<1>9. Stacks' = Append(Stacks, e)
  <2>1. \A o \in 1..(n + 1) : View(outputs'[o]) = IF o = n + 1 THEN e ELSE Stacks[o]
    <3> SUFFICES ASSUME NEW o \in 1..(n + 1)
                 PROVE  View(outputs'[o]) = IF o = n + 1 THEN e ELSE Stacks[o]
      OBVIOUS
    <3>1. CASE o = n + 1
      BY <1>4, <1>5, <3>1
    <3>2. CASE o # n + 1
      <4>1. o \in 1..n
        BY <1>3, <3>2
      <4> QED BY <1>5, <1>7, <3>2, <4>1
    <3> QED BY <3>1, <3>2
  <2> QED BY <1>6, <1>8, <2>1
<1>10. nextId \in Mru!Unlisted
  <2>1. nextId >= nextId
    BY TreeTypes
  <2> QED BY <1>1, <2>1, FreshIsUnlisted
<1>11. Mru!Plug
  BY <1>2, <1>9, <1>10 DEF Mru!Plug, e
<1> QED BY <1>11 DEF Mru!Next

\* Unplugging takes one stack away and stays on the output in focus.
LEMMA RemoveOutputIsMru ==
    ASSUME IInv, IInv', NEW o, RemoveOutput(o)
    PROVE  [Mru!Next]_(Mru!vars)
<1> DEFINE n == Len(outputs)
<1>1. /\ outputs \in Seq(Slots) /\ n \in Nat /\ o \in 1..n /\ focusedOutput \in 1..n
      /\ outputs' = RemoveAt(outputs, o) /\ focusedOutput' = FocusAfterRemoval(o)
  BY TreeTypes DEF RemoveOutput
<1>2. /\ DOMAIN outputs' = 1..(n - 1)
      /\ \A j \in 1..(n - 1) : outputs'[j] = IF j < o THEN outputs[j] ELSE outputs[j + 1]
  BY <1>1, RemoveAtFacts
<1>3. Stacks' = [j \in 1..(n - 1) |-> View(outputs'[j])]
  BY <1>2 DEF Stacks, View, Pos
<1>4. Stacks = [j \in 1..n |-> View(outputs[j])]
  BY <1>1 DEF Stacks, View
<1>5. /\ RemoveAt(Stacks, o) \in Seq([list : Seq(NodeId), shown : Nat])
      /\ Len(RemoveAt(Stacks, o)) = n - 1
      /\ \A j \in 1..(n - 1) : RemoveAt(Stacks, o)[j] = IF j < o THEN Stacks[j] ELSE Stacks[j + 1]
  <2> DEFINE T == [list : Seq(NodeId), shown : Nat]
  <2>1. Stacks \in Seq(T) /\ Len(Stacks) = n /\ o \in DOMAIN Stacks
    BY <1>1, StacksType
  <2> HIDE DEF T
  <2>2. /\ RemoveAt(Stacks, o) \in Seq(T) /\ Len(RemoveAt(Stacks, o)) = Len(Stacks) - 1
        /\ \A j \in 1..(Len(Stacks) - 1) :
             RemoveAt(Stacks, o)[j] = IF j < o THEN Stacks[j] ELSE Stacks[j + 1]
    BY <2>1, RemoveAtFacts
  <2> QED BY <2>1, <2>2 DEF T
<1> HIDE DEF View
<1>6. Stacks' = RemoveAt(Stacks, o)
  <2>1. \A j \in 1..(n - 1) : View(outputs'[j]) = RemoveAt(Stacks, o)[j]
    <3> SUFFICES ASSUME NEW j \in 1..(n - 1) PROVE View(outputs'[j]) = RemoveAt(Stacks, o)[j]
      OBVIOUS
    <3>1. j \in 1..n /\ j + 1 \in 1..n
      BY <1>1
    <3>2. CASE j < o
      BY <1>2, <1>4, <1>5, <3>1, <3>2
    <3>3. CASE ~(j < o)
      BY <1>2, <1>4, <1>5, <3>1, <3>3
    <3> QED BY <3>2, <3>3
  <2>2. RemoveAt(Stacks, o) = [j \in 1..(n - 1) |-> RemoveAt(Stacks, o)[j]]
    <3> DEFINE left == RemoveAt(Stacks, o)
    <3>1. left \in Seq([list : Seq(NodeId), shown : Nat]) /\ Len(left) = n - 1
      BY <1>5
    <3> HIDE DEF left, n
    <3>2. left = [j \in 1..(n - 1) |-> left[j]]
      BY <3>1
    <3> QED BY <3>2 DEF left
  <2> QED BY <1>3, <2>1, <2>2
<1>7. focusedOutput' \in DOMAIN Stacks'
  <2>1. focusedOutput' \in DOMAIN outputs'
    BY DEF IInv, TypeOK
  <2> QED BY <1>2, <1>3, <2>1
<1>8. ASSUME focusedOutput # o PROVE Stacks'[focusedOutput'] = Stacks[focusedOutput]
  <2>1. focusedOutput' = IF focusedOutput < o THEN focusedOutput ELSE focusedOutput - 1
    BY <1>1, <1>8 DEF FocusAfterRemoval
  <2>2. CASE focusedOutput < o
    <3>1. focusedOutput' \in 1..(n - 1) /\ focusedOutput' < o
      BY <1>1, <2>1, <2>2
    <3> QED BY <1>5, <1>6, <2>1, <2>2, <3>1
  <2>3. CASE ~(focusedOutput < o)
    <3>1. focusedOutput' \in 1..(n - 1) /\ ~(focusedOutput' < o)
          /\ focusedOutput' + 1 = focusedOutput
      BY <1>1, <1>8, <2>1, <2>3
    <3> QED BY <1>5, <1>6, <3>1
  <2> QED BY <2>2, <2>3
<1>9. Mru!Unplug(o)
  BY <1>6, <1>7, <1>8, SameOperators DEF Mru!Unplug
<1>10. o \in DOMAIN Stacks
  BY <1>1, StacksType
<1> QED BY <1>9, <1>10 DEF Mru!Next

\* The pointer takes the focus from one output to another.
LEMMA SetFocusedOutputIsMru ==
    ASSUME NEW o, SetFocusedOutput(o)
    PROVE  [Mru!Next]_(Mru!vars)
<1>1. o \in DOMAIN outputs /\ outputs' = outputs /\ focusedOutput' = o
  BY DEF SetFocusedOutput
<1>2. Stacks' = Stacks /\ o \in DOMAIN Stacks
  BY <1>1 DEF Stacks, Pos
<1>3. Mru!Look(o)
  BY <1>1, <1>2 DEF Mru!Look
<1> QED BY <1>2, <1>3 DEF Mru!Next

-----------------------------------------------------------------------------
(* The refinement.                                                         *)

\* ShownInv, in the terms of the stacks.
LEMMA ShownStacks ==
    /\ ShownInv <=> \A o \in DOMAIN Stacks : Stacks[o].shown <= MaxIndex(Len(Stacks[o].list))
    /\ ShownInv' <=> \A o \in DOMAIN Stacks' : Stacks'[o].shown <= MaxIndex(Len(Stacks'[o].list))
<1>1. /\ DOMAIN Stacks = DOMAIN outputs
      /\ \A o \in DOMAIN outputs : /\ Stacks[o].list = outputs[o].huts
                                   /\ Stacks[o].shown = Pos(outputs[o])
  BY StackViews
<1>2. /\ DOMAIN Stacks' = DOMAIN outputs'
      /\ \A o \in DOMAIN outputs' : /\ Stacks'[o].list = outputs'[o].huts
                                    /\ Stacks'[o].shown = Pos(outputs'[o])
  BY DEF Stacks, Pos
<1>3. ShownInv' <=> \A o \in DOMAIN outputs' : Pos(outputs'[o]) <= MaxIndex(Len(outputs'[o].huts))
  BY DEF ShownInv, Shown, Pos, MaxIndex
<1> QED BY <1>1, <1>2, <1>3 DEF ShownInv, Shown

\* One stack changes to one whose shown place is in the list.
LEMMA ChangeKeepsShown ==
    ASSUME ShownInv, NEW o, NEW new, Mru!Change(o, new),
           new.shown <= MaxIndex(Len(new.list))
    PROVE  ShownInv'
<1>1. Stacks' = [Stacks EXCEPT ![o] = new]
  BY DEF Mru!Change
<1>2. \A p \in DOMAIN Stacks' : Stacks'[p] = new \/ (p \in DOMAIN Stacks /\ Stacks'[p] = Stacks[p])
  BY <1>1 DEF Stacks
<1> QED BY <1>2, ShownStacks

\* What a most-recently-used stack does keeps what it shows in the list.
LEMMA MruKeepsShown ==
    ASSUME IInv, ShownInv, [Mru!Next]_(Mru!vars)
    PROVE  ShownInv'
<1> DEFINE T == [list : Seq(NodeId), shown : Nat]
<1>1. /\ \A o \in DOMAIN Stacks : /\ Stacks[o] \in T
                                  /\ Stacks[o].shown <= MaxIndex(Len(Stacks[o].list))
      /\ focusedOutput \in DOMAIN Stacks
  <2>1. Stacks \in Seq(T) /\ DOMAIN Stacks = DOMAIN outputs
    BY StacksType, StackViews
  <2> HIDE DEF T
  <2>2. \A o \in DOMAIN Stacks : Stacks[o] \in T
    BY <2>1
  <2> QED BY <2>1, <2>2, ShownStacks, TreeTypes
<1>2. \A o \in DOMAIN Stacks : /\ Stacks[o].list \in Seq(NodeId) /\ Stacks[o].shown \in Nat
                               /\ Len(Stacks[o].list) \in Nat
  BY <1>1
<1>3. \A s \in Seq(NodeId) : \A i \in DOMAIN s :
        /\ RemoveAt(s, i) \in Seq(NodeId) /\ Len(RemoveAt(s, i)) = Len(s) - 1
        /\ Mru!RemoveAt(s, i) = RemoveAt(s, i)
  BY RemoveAtFacts, SameOperators
<1>4. \A more \in Mru!Opened : more \in Seq(NodeId)
  <2> SUFFICES ASSUME NEW more \in Mru!Opened PROVE more \in Seq(NodeId)
    OBVIOUS
  <2>1. more = <<>> \/ \E e \in NodeId : more = <<e>>
    BY DEF Mru!Opened, Mru!Unlisted
  <2>2. CASE more = <<>>
    BY <2>2
  <2>3. ASSUME NEW e \in NodeId, more = <<e>> PROVE more \in Seq(NodeId)
    <3>1. <<e>> \in Seq(NodeId)
      OBVIOUS
    <3> QED BY <2>3, <3>1
  <2> QED BY <2>1, <2>2, <2>3
<1>5. CASE UNCHANGED Mru!vars
  BY <1>5, ShownStacks DEF Mru!vars
<1>6. CASE Mru!Turn
  <2>1. PICK p \in DOMAIN Stacks[focusedOutput].list :
          Mru!Change(focusedOutput, [Stacks[focusedOutput] EXCEPT !.shown = p])
    BY <1>6 DEF Mru!Turn
  <2> DEFINE new == [Stacks[focusedOutput] EXCEPT !.shown = p]
  <2>2. new.shown = p /\ new.list = Stacks[focusedOutput].list
    BY <1>1
  <2>3. p <= MaxIndex(Len(Stacks[focusedOutput].list))
    BY <1>1, <1>2 DEF MaxIndex
  <2> HIDE DEF new
  <2> QED BY <2>1, <2>2, <2>3, ChangeKeepsShown DEF new
<1>7. CASE Mru!Grow
  <2> DEFINE s == Stacks[focusedOutput]
  <2>1. PICK e \in NodeId : \E p \in {s.shown, Len(Append(s.list, e))} :
          Mru!Change(focusedOutput, [list |-> Append(s.list, e), shown |-> p])
    BY <1>7 DEF Mru!Grow, Mru!Unlisted
  <2>2. PICK p \in {s.shown, Len(Append(s.list, e))} :
          Mru!Change(focusedOutput, [list |-> Append(s.list, e), shown |-> p])
    BY <2>1
  <2>3. p <= MaxIndex(Len(Append(s.list, e)))
    <3>1. s.list \in Seq(NodeId) /\ s.shown \in Nat /\ s.shown <= MaxIndex(Len(s.list))
      BY <1>1, <1>2
    <3> HIDE DEF s
    <3>2. Len(Append(s.list, e)) = Len(s.list) + 1
      BY <3>1
    <3> QED BY <3>1, <3>2 DEF MaxIndex
  <2> HIDE DEF s
  <2> QED BY <2>2, <2>3, ChangeKeepsShown
<1>8. CASE Mru!Discard
  <2> DEFINE s == Stacks[focusedOutput]
  <2>1. PICK more \in Mru!Opened :
          LET left == Mru!RemoveAt(s.list, s.shown) \o more IN
          \E p \in DOMAIN left : Mru!Change(focusedOutput, [list |-> left, shown |-> p])
    BY <1>8 DEF Mru!Discard
  <2>2. s.shown \in DOMAIN s.list
    BY <1>8 DEF Mru!Discard
  <2> DEFINE left == Mru!RemoveAt(s.list, s.shown) \o more
  <2>3. PICK p \in DOMAIN left : Mru!Change(focusedOutput, [list |-> left, shown |-> p])
    BY <2>1
  <2>4. left \in Seq(NodeId)
    <3>1. Mru!RemoveAt(s.list, s.shown) \in Seq(NodeId) /\ more \in Seq(NodeId)
      BY <1>1, <1>2, <1>3, <1>4, <2>2
    <3> QED BY <3>1
  <2> HIDE DEF left
  <2>5. p <= MaxIndex(Len(left))
    BY <2>4 DEF MaxIndex
  <2> QED BY <2>3, <2>5, ChangeKeepsShown
<1>9. ASSUME NEW s, s = Stacks[focusedOutput], s.shown \in DOMAIN s.list
      PROVE  /\ Mru!Fronted(s).list \in Seq(NodeId) /\ Mru!Fronted(s).shown = 1
             /\ Mru!Fronted(s).list # <<>>
             /\ Mru!Fronted(s) = [list |-> Mru!Fronted(s).list, shown |-> 1]
  <2>1. s.list \in Seq(NodeId) /\ s.list[s.shown] \in NodeId
    BY <1>1, <1>2, <1>9
  <2>2. Mru!RemoveAt(s.list, s.shown) \in Seq(NodeId)
    BY <1>3, <1>9, <2>1
  <2>3. <<s.list[s.shown]>> \o Mru!RemoveAt(s.list, s.shown) \in Seq(NodeId)
        /\ Len(<<s.list[s.shown]>> \o Mru!RemoveAt(s.list, s.shown)) >= 1
    BY <2>1, <2>2
  <2> QED BY <2>3 DEF Mru!Fronted
<1>10. CASE Mru!Settle
  <2>1. PICK s : s = Stacks[focusedOutput]
    OBVIOUS
  <2>2. s.shown \in DOMAIN s.list /\ Mru!Change(focusedOutput, Mru!Fronted(s))
    BY <1>10, <2>1 DEF Mru!Settle
  <2>3. Mru!Fronted(s).shown <= MaxIndex(Len(Mru!Fronted(s).list))
    BY <1>9, <2>1, <2>2 DEF MaxIndex
  <2> QED BY <2>2, <2>3, ChangeKeepsShown
<1>11. ASSUME NEW s \in T, NEW i, NEW e, s.shown <= MaxIndex(Len(s.list))
       PROVE  LET new == [s EXCEPT !.list = [@ EXCEPT ![i] = e]] IN
              new.shown <= MaxIndex(Len(new.list))
  <2> DEFINE list == [s.list EXCEPT ![i] = e]
             new  == [s EXCEPT !.list = list]
  <2>1. new.shown = s.shown /\ new.list = list
    OBVIOUS
  <2>2. Len(list) = Len(s.list)
    <3>1. s.list \in Seq(NodeId)
      OBVIOUS
    <3> QED BY <3>1
  <2> HIDE DEF list, new
  <2>3. new.shown <= MaxIndex(Len(new.list))
    BY <1>11, <2>1, <2>2
  <2> QED BY <2>3 DEF new, list
<1>12. CASE Mru!Wrap
  <2>1. PICK t : t = Stacks[focusedOutput]
    OBVIOUS
  <2>2. PICK e \in Mru!Unlisted, s \in {t, Mru!Fronted(t)} :
          Mru!Change(focusedOutput, [s EXCEPT !.list = [@ EXCEPT ![s.shown] = e]])
    BY <1>12, <2>1 DEF Mru!Wrap
  <2>3. t.shown \in DOMAIN t.list
    BY <1>12, <2>1 DEF Mru!Wrap
  <2>4. s \in T /\ s.shown <= MaxIndex(Len(s.list))
    <3>1. CASE s = t
      BY <1>1, <2>1, <3>1
    <3>2. CASE s = Mru!Fronted(t)
      BY <1>9, <2>1, <2>3, <3>2 DEF MaxIndex
    <3> QED BY <3>1, <3>2
  <2> QED BY <1>11, <2>2, <2>4, ChangeKeepsShown
<1>13. ASSUME NEW o \in DOMAIN Stacks, NEW i \in DOMAIN Stacks[o].list, Mru!Close(o, i)
       PROVE  ShownInv'
  <2>1. PICK s : s = Stacks[o]
    OBVIOUS
  <2>2. PICK more \in Mru!Opened :
          LET left == Mru!RemoveAt(s.list, i) \o more IN
          /\ Len(s.list) > 1 => more = <<>>
          /\ \E p \in 1..Len(s.list) : /\ left # <<>> => p \in DOMAIN left
                                       /\ Mru!Change(o, [list |-> left, shown |-> p])
    BY <1>13, <2>1 DEF Mru!Close
  <2> DEFINE left == Mru!RemoveAt(s.list, i) \o more
  <2>3. PICK p \in 1..Len(s.list) : /\ left # <<>> => p \in DOMAIN left
                                    /\ Mru!Change(o, [list |-> left, shown |-> p])
    BY <2>2
  <2>4. /\ s.list \in Seq(NodeId) /\ Mru!RemoveAt(s.list, i) \in Seq(NodeId)
        /\ Len(Mru!RemoveAt(s.list, i)) = Len(s.list) - 1 /\ more \in Seq(NodeId)
    BY <1>2, <1>3, <1>4, <2>1
  <2>5. left \in Seq(NodeId) /\ (left = <<>> => Len(s.list) = 1)
    <3> DEFINE r == Mru!RemoveAt(s.list, i)
    <3>1. r \in Seq(NodeId) /\ more \in Seq(NodeId) /\ Len(r) = Len(s.list) - 1
          /\ Len(s.list) \in Nat
      BY <2>4
    <3> HIDE DEF r
    <3>2. r \o more \in Seq(NodeId) /\ (r \o more = <<>> => Len(s.list) = 1)
      <4>1. Len(r \o more) = Len(r) + Len(more) /\ r \o more \in Seq(NodeId)
            /\ Len(r) \in Nat /\ Len(more) \in Nat
        BY <3>1
      <4>2. \A s2 \in Seq(NodeId) : s2 = <<>> => Len(s2) = 0
        OBVIOUS
      <4> DEFINE both == r \o more
      <4> HIDE DEF both
      <4>3. both = <<>> => Len(s.list) = 1
        <5>1. Len(both) = Len(r) + Len(more) /\ both \in Seq(NodeId)
              /\ Len(r) \in Nat /\ Len(more) \in Nat
          BY <4>1 DEF both
        <5>2. both = <<>> => Len(r) = 0
          BY <4>2, <5>1
        <5> QED BY <3>1, <5>2
      <4> QED BY <4>1, <4>3 DEF both
    <3> QED BY <3>2 DEF r
  <2> HIDE DEF left
  <2>6. p <= MaxIndex(Len(left))
    BY <2>3, <2>4, <2>5 DEF MaxIndex
  <2> QED BY <2>3, <2>6, ChangeKeepsShown
<1>14. ASSUME NEW o \in DOMAIN Stacks, NEW i, Mru!Survive(o, i)
       PROVE  ShownInv'
  <2>1. PICK e : Mru!Change(o, [Stacks[o] EXCEPT !.list = [@ EXCEPT ![i] = e]])
    BY <1>14 DEF Mru!Survive
  <2> QED BY <1>1, <1>11, <2>1, ChangeKeepsShown
<1>15. ASSUME NEW o \in DOMAIN Stacks, Mru!Unplug(o)
       PROVE  ShownInv'
  <2>1. Stacks' = RemoveAt(Stacks, o) /\ Stacks \in Seq(T)
    BY <1>15, SameOperators, StacksType DEF Mru!Unplug
  <2> HIDE DEF T
  <2>2. /\ Stacks' \in Seq(T) /\ Len(Stacks') = Len(Stacks) - 1
        /\ \A j \in 1..(Len(Stacks) - 1) : Stacks'[j] = IF j < o THEN Stacks[j] ELSE Stacks[j + 1]
    BY <2>1, RemoveAtFacts
  <2>3. \A j \in DOMAIN Stacks' : \E k \in DOMAIN Stacks : Stacks'[j] = Stacks[k]
    <3> SUFFICES ASSUME NEW j \in DOMAIN Stacks'
                 PROVE  \E k \in DOMAIN Stacks : Stacks'[j] = Stacks[k]
      OBVIOUS
    <3>1. j \in 1..(Len(Stacks) - 1) /\ j \in DOMAIN Stacks /\ j + 1 \in DOMAIN Stacks
      BY <2>1, <2>2
    <3> QED BY <2>2, <3>1
  <2> QED BY <2>3, ShownStacks
<1>16. ASSUME NEW o, Mru!Look(o) PROVE ShownInv'
  BY <1>16, ShownStacks DEF Mru!Look
<1>17. CASE Mru!Plug
  <2>1. PICK e \in NodeId : Stacks' = Append(Stacks, Mru!OneEntry(e))
    BY <1>17 DEF Mru!Plug, Mru!Unlisted
  <2> DEFINE new == Mru!OneEntry(e)
  <2>2. new \in T /\ new.shown <= MaxIndex(Len(new.list))
    BY DEF Mru!OneEntry, MaxIndex
  <2>3. Stacks \in Seq(T)
    BY StacksType
  <2> HIDE DEF T, new
  <2>4. \A j \in DOMAIN Stacks' : Stacks'[j] = new \/ (j \in DOMAIN Stacks /\ Stacks'[j] = Stacks[j])
    <3> DEFINE s == Stacks
    <3>1. s \in Seq(T) /\ Stacks' = Append(s, new)
      BY <2>1, <2>3 DEF new
    <3> HIDE DEF s
    <3>2. \A j \in DOMAIN Append(s, new) : Append(s, new)[j] = new
                                           \/ (j \in DOMAIN s /\ Append(s, new)[j] = s[j])
      BY <2>2, <3>1
    <3> QED BY <3>1, <3>2 DEF s
  <2> QED BY <2>2, <2>4, ShownStacks
<1> QED BY <1>5, <1>6, <1>7, <1>8, <1>10, <1>12, <1>13, <1>14, <1>15, <1>16, <1>17 DEF Mru!Next

\* Every step of the model is one of a most-recently-used stack, or leaves the
\* stacks alone.
LEMMA StepIsMru ==
    ASSUME IInv, TreeInv, ShownInv, [Next]_vars
    PROVE  [Mru!Next]_(Mru!vars)
<1>0. IInv'
  BY StepIInv
<1>1. CASE SpawnWithCommand
  BY <1>1, SpawnWithCommandIsMru
<1>2. CASE StackNext
  BY <1>2, StackNextIsMru
<1>3. CASE StackPrev
  BY <1>3, StackPrevIsMru
<1>4. CASE ReleaseHold \/ LateCommit
  <2>1. CommitPreview
    BY <1>4 DEF ReleaseHold, LateCommit
  <2> QED BY <2>1, CommitPreviewIsMru
<1>5. ASSUME NEW kd \in Wrappers, Wrap(kd) PROVE [Mru!Next]_(Mru!vars)
  BY <1>5, WrapIsMru
<1>6. CASE \/ RunLoop \/ Panic \/ EndBatch \/ UNCHANGED vars
           \/ PressHold \/ ClickChrome \/ Type
           \/ \E dir \in {"next", "prev"} : CycleInnermost(dir)
           \/ \E o \in 1..MaxOutputs : RenderTabStrips(o)
           \/ \E n \in AllHuts : MapWindow(n) \/ UnmapWindows(n)
  <2>1. UNCHANGED slotVars
    BY <1>6, Zenon DEF RunLoop, Panic, EndBatch, vars, PressHold, ClickChrome, Type,
          CycleInnermost, RenderTabStrips, MapWindow, UnmapWindows
  <2> QED BY <2>1, SameSlotsAreMru
<1>7. ASSUME NEW o, RemoveOutput(o) PROVE [Mru!Next]_(Mru!vars)
  BY <1>0, <1>7, RemoveOutputIsMru
<1>8. ASSUME NEW o, SetFocusedOutput(o) PROVE [Mru!Next]_(Mru!vars)
  BY <1>8, SetFocusedOutputIsMru
<1>9. ASSUME NEW n \in AllHuts, Exited(n) PROVE [Mru!Next]_(Mru!vars)
  <2>1. n \in NodeId /\ kind[n] = "console"
    BY DEF AllHuts
  <2>2. LogOut \/ ExitTopLevel(n) \/ ExitNested(n)
    BY <1>9 DEF Exited
  <2>3. CASE LogOut
    BY <2>3, SameSlotsAreMru DEF LogOut
  <2> QED BY <2>1, <2>2, <2>3, ExitTopLevelIsMru, ExitNestedIsMru
<1>10. CASE AddOutput
  BY <1>10, AddOutputIsMru
<1> QED BY <1>1, <1>2, <1>3, <1>4, <1>5, <1>6, <1>7, <1>8, <1>9, <1>10, Zenon
           DEF Next, Keyboard, Ended

\* The stacks start as one list of one entry, which is shown.
LEMMA InitIsMru == Init => Mru!Init /\ ShownInv
<1> SUFFICES ASSUME Init PROVE Mru!Init /\ ShownInv
  OBVIOUS
<1>1. outputs = <<NewSlot(1)>> /\ focusedOutput = 1 /\ 1 \in NodeId
  BY BoundsAssumption DEF Init, NodeId
<1>2. View(NewSlot(1)) = Mru!OneEntry(1) /\ Shown(NewSlot(1))
  BY DEF View, NewSlot, Pos, Mru!OneEntry, Shown, MaxIndex
<1>3. DOMAIN outputs = {1} /\ outputs[1] = NewSlot(1)
  BY <1>1
<1>4. Stacks = <<Mru!OneEntry(1)>>
  <2>1. Stacks = [o \in {1} |-> View(outputs[1])]
    BY <1>3 DEF Stacks, View
  <2>2. Stacks = [o \in {1} |-> Mru!OneEntry(1)]
    BY <1>2, <1>3, <2>1
  <2> HIDE DEF View
  <2> QED BY <2>2
<1>5. Mru!Init
  BY <1>1, <1>4 DEF Mru!Init
<1>6. ShownInv
  BY <1>2, <1>3 DEF ShownInv
<1> QED BY <1>5, <1>6

\* GraphStack implements MruStacks: whatever keys, clicks, exits and hotplug
\* interleave with a preview session, what each output lists and shows only ever
\* changes as a most-recently-used stack does.
THEOREM StacksAreMru == Spec => MruKept
<1>1. Init => IInv /\ TreeInv /\ ShownInv /\ Mru!Init
  BY InitIInv, InitTree, InitIsMru
<1>2. IInv /\ TreeInv /\ ShownInv /\ [Next]_vars => ShownInv' /\ [Mru!Next]_(Mru!vars)
  BY StepIsMru, MruKeepsShown
<1>3. Spec => [](IInv /\ TreeInv)
  BY TreeInductive
<1> QED BY <1>1, <1>2, <1>3, PTL DEF Spec, MruKept, Mru!Spec
=============================================================================
