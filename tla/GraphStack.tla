----------------------------- MODULE GraphStack -----------------------------
(***************************************************************************)
(* The tree of huts mudhuts lets a user walk through (graph_stack.rs, over *)
(* the node arena of graph.rs and the Tab/Tile/Console nodes of            *)
(* graph_nodes.rs).  Every output keeps a most-recently-used list of       *)
(* top-level entries; an entry is a console or a Tab/Tile wrapper around   *)
(* further entries.  The actions are the key, pointer, shell-exit, client  *)
(* and hotplug handlers that change that structure, one handler each.      *)
(*                                                                         *)
(* Indices count from 1 here and from 0 in the code; preview = 0 stands    *)
(* for None.                                                               *)
(***************************************************************************)
EXTENDS Integers, FiniteSets, SequencesExt

CONSTANTS
    MaxNodes,      \* bound on Graph::next_id: how many nodes a run allocates
    MaxOutputs,    \* bound on how many outputs are plugged in at once
    MaxAutostart,  \* bound on the autostart entries spawned before the loop
    MaxWindowed,   \* bound on the untouched huts that hold a window at once
    StackHold,     \* TRUE: a stack-hold modifier is configured (preview mode)
    SpawnMayFail   \* TRUE: ConsoleHut::spawn may return Err

ASSUME BoundsAssumption ==
    /\ MaxNodes \in Nat \ {0}
    /\ MaxOutputs \in Nat \ {0}
    /\ MaxAutostart \in Nat
    /\ MaxWindowed \in Nat
    /\ StackHold \in BOOLEAN
    /\ SpawnMayFail \in BOOLEAN

VARIABLES
    kind,          \* what Graph::nodes holds under an id ("none": nothing)
    children,      \* the "children" hut list of a node (<<>> for a console)
    active,        \* TabNode::active / TileNode::active
    keyed,         \* keys of TileNode::fracs / TabNode::child_chrome
    touched,       \* consoles whose own touched flag is set
    windowed,      \* consoles, not touched, that hold a Main Window
    outputs,       \* GraphStack::outputs
    focusedOutput, \* GraphStack::focused_output
    nextId,        \* Graph::next_id
    hold,          \* is the stack-hold modifier physically down
    loop           \* the event loop: starting, running, stopping, ...

graphVars == <<kind, children, active, keyed, nextId>>
useVars   == <<touched, windowed>>
slotVars  == <<outputs, focusedOutput>>
vars      == <<graphVars, useVars, slotVars, hold, loop>>

NodeId   == 1..MaxNodes
Kinds    == {"none", "console", "tab", "tile"}
Wrappers == {"tab", "tile"}
Slots    == [huts : Seq(NodeId), current : Nat, preview : Nat]

TypeOK ==
    /\ kind \in [NodeId -> Kinds]
    /\ children \in [NodeId -> Seq(NodeId)]
    /\ active \in [NodeId -> Nat]
    /\ keyed \in [NodeId -> SUBSET NodeId]
    /\ touched \subseteq NodeId
    /\ windowed \subseteq NodeId
    /\ outputs \in Seq(Slots)
    /\ focusedOutput \in DOMAIN outputs
    /\ nextId \in Nat \ {0}
    /\ hold \in BOOLEAN
    /\ loop \in {"starting", "running", "stopping", "stopped", "panicked"}

-----------------------------------------------------------------------------
(* Reading the tree.                                                       *)

NewSlot(id) == [huts |-> <<id>>, current |-> 1, preview |-> 0]

\* focused_child of a wrapper, as a path step: nothing when active is out of
\* range, the node is gone, or it is a console (which has no children).
FocusedChild(n) ==
    IF kind[n] \in Wrappers /\ active[n] \in DOMAIN children[n]
    THEN <<children[n][active[n]]>> ELSE <<>>

\* focused_path: follow focused_child from an entry down to where it ends.
FocusedPath(top) ==
    LET path[k \in 0..MaxNodes] ==
            IF k = 0 THEN <<top>>
            ELSE LET above == path[k-1] IN above \o FocusedChild(Last(above))
    IN  path[MaxNodes]

FocusedLeaf(top) == Last(FocusedPath(top))

\* all_ids_under: an entry and everything nested inside it.
Under(top) ==
    LET below[k \in 0..MaxNodes] ==
            IF k = 0 THEN {top}
            ELSE LET nearer == below[k-1]
                 IN  nearer \cup UNION {ToSet(children[n]) : n \in nearer}
    IN  below[MaxNodes]

UnderOutput(o) == UNION {Under(top) : top \in ToSet(outputs[o].huts)}
AllNodeIds     == UNION {UnderOutput(o) : o \in DOMAIN outputs}
AllHuts        == {n \in NodeId \cap AllNodeIds : kind[n] = "console"}

\* Node::touched: the default answer of a wrapper is true, and a console that
\* holds a window counts as touched.
TouchedFlagOnly(n) == kind[n] = "console" => n \in touched
Touched(n) == kind[n] = "console" => n \in touched \cup windowed

InRange(o) == outputs[o].current \in DOMAIN outputs[o].huts
TopLevel(o) == outputs[o].huts[outputs[o].current]
FocusedHut(o) == FocusedLeaf(TopLevel(o))

-----------------------------------------------------------------------------
(* Pieces the handlers share.                                              *)

Live == loop \in {"running", "stopping"}

\* The outcomes of ConsoleHut::spawn when the caller needs `ids` fresh nodes.
SpawnOutcomes(ids) ==
    {ok \in BOOLEAN : IF ok THEN nextId + ids - 1 \in NodeId ELSE SpawnMayFail}

\* remove_node for the ids in `removed`, and add_node of one fresh console if
\* `ok`.  remove_node also drops the id from other nodes' lists; no caller
\* leaves one there (ReferencedOnce), so nothing is left to drop.
Reshape(removed, ok) ==
    LET fresh == IF ok THEN {nextId} ELSE {} IN
    /\ kind' = [n \in NodeId |-> IF n \in removed THEN "none"
                                 ELSE IF n \in fresh THEN "console" ELSE kind[n]]
    /\ children' = [n \in NodeId |-> IF n \in removed THEN <<>> ELSE children[n]]
    /\ active' = [n \in NodeId |-> IF n \in removed THEN 1 ELSE active[n]]
    /\ keyed' = [n \in NodeId |-> IF n \in removed THEN {} ELSE keyed[n]]
    /\ touched' = touched \ removed
    /\ windowed' = windowed \ removed
    /\ nextId' = IF ok THEN nextId + 1 ELSE nextId

Appended(huts, ok) == IF ok THEN Append(huts, nextId) ELSE huts

SetSlot(o, slot) ==
    /\ outputs' = [outputs EXCEPT ![o] = slot]
    /\ UNCHANGED focusedOutput

\* shift_active_index_on_removal, and the saturating clamp it shares with
\* remove_exited.
MaxIndex(len) == IF len = 0 THEN 1 ELSE len
ClampOffByOne(i, newLen) == IF i > newLen + 1 THEN newLen + 1 ELSE i
ClampIndex(i, newLen) == IF i > MaxIndex(newLen) THEN MaxIndex(newLen) ELSE i
ClampWithoutShift(i, removed, newLen) == ClampIndex(i, newLen)
ShiftOnRemoval(i, removed, newLen) ==
    IF removed < i THEN i - 1 ELSE ClampIndex(i, newLen)

\* wrapping_step.
WrappingStep(len, i, dir) ==
    IF dir = "next" THEN (i % len) + 1 ELSE ((i + len - 2) % len) + 1

-----------------------------------------------------------------------------
(* Start-up.                                                               *)

Init ==
    /\ kind = [n \in NodeId |-> IF n = 1 THEN "console" ELSE "none"]
    /\ children = [n \in NodeId |-> <<>>]
    /\ active = [n \in NodeId |-> 1]
    /\ keyed = [n \in NodeId |-> {}]
    /\ touched = {}
    /\ windowed = {}
    /\ outputs = <<NewSlot(1)>>
    /\ focusedOutput = 1
    /\ nextId = 2
    /\ hold = FALSE
    /\ loop = "starting"

\* spawn_and_insert_with_command, one call per autostart entry.
SpawnWithCommand ==
    /\ loop = "starting"
    /\ nextId <= MaxAutostart + 1
    /\ TRUE \in SpawnOutcomes(1)
    /\ kind' = [kind EXCEPT ![nextId] = "console"]
    /\ touched' = touched \cup {nextId}
    /\ nextId' = nextId + 1
    /\ SetSlot(focusedOutput, [outputs[focusedOutput] EXCEPT
                                 !.huts = Append(@, nextId)])
    /\ UNCHANGED <<children, active, keyed, windowed, hold, loop>>

RunLoop ==
    /\ loop = "starting"
    /\ loop' = "running"
    /\ UNCHANGED <<graphVars, useVars, slotVars, hold>>

-----------------------------------------------------------------------------
(* Walking the stack: handle_action for StackNext and StackPrev.  Without  *)
(* a stack-hold modifier a step moves `current` (next, prev); with one it  *)
(* moves `preview` and leaves `current` protected (preview_next,           *)
(* preview_prev), and the chord only matches while the modifier is down.   *)

\* preview_index: where the step starts from.
Pos(slot) == IF slot.preview # 0 THEN slot.preview ELSE slot.current

Landed(slot, pos) ==
    IF StackHold THEN [slot EXCEPT !.preview = pos]
                 ELSE [slot EXCEPT !.current = pos]

\* `keep` of advance_forward and advance_backward.
KeptIfTouched(slot, pos) == Touched(slot.huts[pos])
Kept(slot, pos) == (StackHold /\ pos = slot.current) \/ Touched(slot.huts[pos])

\* The output has lost its last entry: the step needs a fresh console, and a
\* failure to spawn it stops the loop.
AdvanceEmpty(o, slot) ==
    /\ slot.huts = <<>>
    /\ \E ok \in SpawnOutcomes(1) :
        /\ Reshape({}, ok)
        /\ SetSlot(o, IF ok THEN [Landed(slot, 1) EXCEPT !.huts = <<nextId>>]
                            ELSE slot)
        /\ loop' = IF ok THEN loop ELSE "stopping"
    /\ UNCHANGED hold

\* A kept entry with another one after it.
AdvanceOver(o, slot, pos) ==
    /\ pos < Len(slot.huts)
    /\ Kept(slot, pos)
    /\ SetSlot(o, Landed(slot, pos + 1))
    /\ UNCHANGED <<graphVars, useVars, hold, loop>>

\* A kept entry at the end: grow the list, or stay if the spawn fails.
AdvanceGrow(o, slot, pos) ==
    /\ pos = Len(slot.huts)
    /\ Kept(slot, pos)
    /\ \E ok \in SpawnOutcomes(1) :
        /\ Reshape({}, ok)
        /\ SetSlot(o, [Landed(slot, IF ok THEN pos + 1 ELSE pos) EXCEPT
                         !.huts = Appended(@, ok)])
    /\ UNCHANGED <<hold, loop>>

\* An untouched entry among others: drop it, then try for a fresh last one.
AdvanceDiscard(o, slot, pos) ==
    /\ pos \in DOMAIN slot.huts
    /\ ~Kept(slot, pos)
    /\ Len(slot.huts) > 1
    /\ \E ok \in SpawnOutcomes(1) :
        LET left == Appended(RemoveAt(slot.huts, pos), ok) IN
        /\ Reshape({slot.huts[pos]}, ok)
        /\ SetSlot(o, [Landed(slot, Len(left)) EXCEPT !.huts = left])
    /\ UNCHANGED <<hold, loop>>

\* An untouched entry that is the only one: replace it if the spawn succeeds.
Replaced(huts, ok) == IF ok THEN <<nextId>> ELSE huts
AdvanceReplace(o, slot, pos) ==
    /\ Len(slot.huts) = 1
    /\ pos = 1
    /\ ~Kept(slot, pos)
    /\ \E ok \in SpawnOutcomes(1) :
        /\ Reshape(IF ok THEN {slot.huts[1]} ELSE {}, ok)
        /\ SetSlot(o, [Landed(slot, 1) EXCEPT
                         !.huts = Replaced(@, ok)])
    /\ UNCHANGED <<hold, loop>>

StackNext ==
    LET slot == outputs[focusedOutput]
        pos  == Pos(slot)
    IN  /\ Live
        /\ StackHold => hold
        /\ \/ AdvanceEmpty(focusedOutput, slot)
           \/ AdvanceOver(focusedOutput, slot, pos)
           \/ AdvanceGrow(focusedOutput, slot, pos)
           \/ AdvanceDiscard(focusedOutput, slot, pos)
           \/ AdvanceReplace(focusedOutput, slot, pos)

\* preview_prev without an open session: preview the last entry.
OpenAtEnd(o, slot) ==
    /\ StackHold
    /\ slot.preview = 0
    /\ SetSlot(o, Landed(slot, MaxIndex(Len(slot.huts))))
    /\ UNCHANGED <<graphVars, useVars>>

\* advance_backward past a kept entry, or past nothing.
RetreatOver(o, slot, pos) ==
    /\ pos = 1 \/ slot.huts = <<>> \/ (pos \in DOMAIN slot.huts /\ Kept(slot, pos))
    /\ SetSlot(o, Landed(slot, IF pos = 1 \/ slot.huts = <<>> THEN pos ELSE pos - 1))
    /\ UNCHANGED <<graphVars, useVars>>

\* advance_backward off an untouched entry, which is dropped.
RetreatDiscard(o, slot, pos) ==
    /\ pos \in DOMAIN slot.huts \ {1}
    /\ ~Kept(slot, pos)
    /\ Reshape({slot.huts[pos]}, FALSE)
    /\ SetSlot(o, [Landed(slot, pos - 1) EXCEPT !.huts = RemoveAt(@, pos)])

StackPrev ==
    LET slot == outputs[focusedOutput]
        pos  == Pos(slot)
    IN  /\ Live
        /\ StackHold => hold
        /\ \/ OpenAtEnd(focusedOutput, slot)
           \/ /\ StackHold => slot.preview # 0
              /\ \/ RetreatOver(focusedOutput, slot, pos)
                 \/ RetreatDiscard(focusedOutput, slot, pos)
        /\ UNCHANGED <<hold, loop>>

\* commit_preview: the previewed entry becomes the first one and counts as
\* used; without an open session nothing changes.
Committed(slot) ==
    IF slot.preview = 0 THEN slot
    ELSE [huts |-> IF slot.preview \in DOMAIN slot.huts
                   THEN <<slot.huts[slot.preview]>> \o RemoveAt(slot.huts, slot.preview)
                   ELSE slot.huts,
          current |-> 1, preview |-> 0]

CommittedEntries(slot) ==
    {n \in NodeId : /\ slot.preview \in DOMAIN slot.huts
                    /\ n = slot.huts[slot.preview]
                    /\ kind[n] = "console"}

MarkTouched(ids) ==
    /\ touched' = touched \cup ids
    /\ windowed' = windowed \ ids

CommitPreview ==
    LET slot == outputs[focusedOutput] IN
    /\ SetSlot(focusedOutput, Committed(slot))
    /\ MarkTouched(CommittedEntries(slot))
    /\ UNCHANGED <<graphVars, loop>>

PressHold ==
    /\ StackHold
    /\ Live
    /\ ~hold
    /\ hold' = TRUE
    /\ UNCHANGED <<graphVars, useVars, slotVars, loop>>

\* process_input_event on the modifier's own release.
ReleaseHold ==
    /\ Live
    /\ hold
    /\ hold' = FALSE
    /\ CommitPreview

\* Any other key event while the modifier is up and the focused output still
\* shows a preview: the commit comes first, before the key is looked up.  A key
\* that does nothing more (a release) ends here, so the step is one of its own.
LateCommit ==
    /\ Live
    /\ ~hold
    /\ outputs[focusedOutput].preview # 0
    /\ CommitPreview
    /\ UNCHANGED hold

\* A key event past that leading commit, on a hut that can be looked up.
KeyReady ==
    /\ Live
    /\ hold \/ outputs[focusedOutput].preview = 0
    /\ InRange(focusedOutput)

-----------------------------------------------------------------------------
(* Wrapping the focused leaf: wrap_tab and wrap_tile.                      *)

\* swap_child_in_place, on one parent's list and on its keyed entries: a
\* tile's entry moves to the new id, a tab's is only dropped.
DropKey(n, old, new) == keyed[n] \ {old}
SwapKey(n, old, new) ==
    IF old \notin ToSet(children[n]) THEN keyed[n]
    ELSE (keyed[n] \ {old})
         \cup (IF kind[n] = "tile" /\ old \in keyed[n] THEN {new} ELSE {})

\* The fresh console comes first and the focused leaf second, which active = 2
\* names: the wrap shows what was shown before.
LeafFirst(new, leaf) == <<leaf, new>>
WrapChildren(new, leaf) == <<new, leaf>>

\* wrap_link: `new` and the focused leaf under a fresh wrapper `wrapped`, put
\* where the leaf was: a top-level slot, or its parent's list.
WrapLink(o, slot, kd, new, wrapped) ==
    LET top  == slot.huts[slot.current]
        path == FocusedPath(top)
    IN \E leaf \in NodeId :
        /\ leaf = Last(path)
        /\ kind' = [kind EXCEPT ![new] = "console", ![wrapped] = kd]
        /\ active' = [active EXCEPT ![wrapped] = 2]
        /\ \/ /\ Len(path) = 1
              /\ children' = [children EXCEPT ![wrapped] = WrapChildren(new, leaf)]
              /\ keyed' = [keyed EXCEPT
                             ![wrapped] = IF kd = "tile" THEN {new, leaf} ELSE {}]
              /\ SetSlot(o, [slot EXCEPT
                               !.huts = ReplaceAt(slot.huts, slot.current, wrapped)])
           \/ /\ Len(path) > 1
              /\ \E parent \in NodeId :
                   /\ parent = Last(Front(path))
                   /\ children' = [children EXCEPT
                        ![parent] = ReplaceAll(@, leaf, wrapped),
                        ![wrapped] = WrapChildren(new, leaf)]
                   /\ keyed' = [keyed EXCEPT
                        ![parent] = SwapKey(parent, leaf, wrapped),
                        ![wrapped] = IF kd = "tile" THEN {new, leaf} ELSE {}]
              /\ SetSlot(o, slot)

\* wrap: an open preview is committed first, also when the spawn then fails.
Wrap(kd) ==
    LET slot == Committed(outputs[focusedOutput]) IN
    /\ Live
    /\ hold \/ outputs[focusedOutput].preview = 0
    /\ slot.current \in DOMAIN slot.huts
    /\ MarkTouched(CommittedEntries(outputs[focusedOutput]))
    /\ \E ok \in SpawnOutcomes(2) :
        IF ok
        THEN /\ WrapLink(focusedOutput, slot, kd, nextId, nextId + 1)
             /\ nextId' = nextId + 2
        ELSE /\ SetSlot(focusedOutput, slot)
             /\ UNCHANGED graphVars
    /\ UNCHANGED <<hold, loop>>

\* cycle_innermost: the deepest wrapper on the focused path moves its active.
CycleInnermost(dir) ==
    /\ KeyReady
    /\ LET path == FocusedPath(TopLevel(focusedOutput))
           able == {k \in DOMAIN path : Len(children[path[k]]) >= 2}
       IN  \E k \in able :
            /\ \A j \in able : j <= k
            /\ active' = [active EXCEPT
                 ![path[k]] = WrappingStep(Len(children[path[k]]), @, dir)]
    /\ UNCHANGED <<kind, children, keyed, nextId, useVars, slotVars, hold, loop>>

\* try_click_chrome: a click on a pane of a tile at the top, or on a tab of
\* one of the tab strips stacked along the focused path (handle_click).
ClickChrome ==
    /\ Live
    /\ InRange(focusedOutput)
    /\ LET path == FocusedPath(TopLevel(focusedOutput)) IN
       \E k \in DOMAIN path :
         /\ Len(children[path[k]]) >= 2
         /\ \/ k = 1 /\ kind[path[1]] = "tile"
            \/ \A j \in 1..k : kind[path[j]] = "tab"
         /\ \E i \in DOMAIN children[path[k]] : active' = [active EXCEPT ![path[k]] = i]
    /\ UNCHANGED <<kind, children, keyed, nextId, useVars, slotVars, hold, loop>>

\* A frame of output o: every tab strip drawn gives each child of its tab an
\* entry in child_chrome (village_chrome::build).
RenderTabStrips(o) ==
    /\ Live
    /\ InRange(o)
    /\ LET path  == FocusedPath(TopLevel(o))
           drawn == {path[k] : k \in {i \in DOMAIN path : \A j \in 1..i : kind[path[j]] = "tab"}}
       IN  keyed' = [n \in NodeId |-> IF n \in drawn
                                      THEN keyed[n] \cup ToSet(children[n]) ELSE keyed[n]]
    /\ UNCHANGED <<kind, children, active, nextId, useVars, slotVars, hold, loop>>

-----------------------------------------------------------------------------
(* What makes a console count as touched.                                  *)

\* A key the terminal takes: write_input and mark_touched.
Type ==
    /\ KeyReady
    /\ \E n \in AllHuts : n = FocusedHut(focusedOutput) /\ MarkTouched({n})
    /\ UNCHANGED <<graphVars, slotVars, hold, loop>>

\* A client's first Main Window in a hut, and its last one gone again.  The
\* answer of touched() is settled once the flag is set, so windows of touched
\* huts are left out.
MapWindow(n) ==
    /\ Live
    /\ n \notin touched
    /\ Cardinality(windowed) < MaxWindowed
    /\ windowed' = windowed \cup {n}
    /\ UNCHANGED <<graphVars, touched, slotVars, hold, loop>>

UnmapWindows(n) ==
    /\ Live
    /\ n \in windowed
    /\ windowed' = windowed \ {n}
    /\ UNCHANGED <<graphVars, touched, slotVars, hold, loop>>

-----------------------------------------------------------------------------
(* A shell exits: handle_term_event(Exited) and remove_exited.             *)

\* The last console of the whole compositor, and focused: log out.  The entry
\* stays where it is.
LogOut ==
    /\ loop' = "stopped"
    /\ UNCHANGED <<graphVars, useVars, slotVars, hold>>

\* A slot without its entry i, and with a fresh one at its end if `ok`: both
\* indexes shift for the removal and are clamped to what the list is then.
SlotWithout(slot, i, ok) ==
    LET left == RemoveAt(slot.huts, i)
        huts == Appended(left, ok)
        moved(x) == ClampIndex(ShiftOnRemoval(x, i, Len(left)), Len(huts))
    IN  [huts    |-> huts,
         current |-> moved(slot.current),
         preview |-> IF slot.preview = 0 THEN 0 ELSE moved(slot.preview)]

\* A bare top-level entry: dropped from its own output's list.  If that empties
\* the list a fresh console refills it, or the loop is told to stop.
ExitEntry(o, i, n) ==
    LET emptied == Len(outputs[o].huts) = 1 IN
    \E ok \in IF emptied THEN SpawnOutcomes(1) ELSE {FALSE} :
        /\ Reshape({n}, ok)
        /\ SetSlot(o, SlotWithout(outputs[o], i, ok))
        /\ loop' = IF emptied /\ ~ok THEN "stopping" ELSE loop

ExitTopLevel(n) ==
    /\ \E o \in DOMAIN outputs : \E i \in DOMAIN outputs[o].huts :
         outputs[o].huts[i] = n /\ ExitEntry(o, i, n)
    /\ UNCHANGED hold

\* The entry after `n` is gone from `parent`'s list `left`: the parent
\* collapses onto a single survivor (repoint puts that one wherever the parent
\* was listed), or keeps the shorter list with its active shifted.
Collapses(left) == Len(left) = 1

Unlink(n, parent, left) ==
    IF Collapses(left)
    THEN /\ kind' = [kind EXCEPT ![n] = "none", ![parent] = "none"]
         /\ active' = [active EXCEPT ![parent] = 1]
         /\ children' = [m \in NodeId |-> IF m = parent THEN <<>>
                            ELSE ReplaceAll(children[m], parent, left[1])]
         /\ keyed' = [m \in NodeId |-> IF m = parent THEN {}
                         ELSE SwapKey(m, parent, left[1])]
    ELSE /\ kind' = [kind EXCEPT ![n] = "none"]
         /\ active' = [active EXCEPT ![parent] = ShiftOnRemoval(
                @, CHOOSE k \in DOMAIN children[parent] : children[parent][k] = n,
                Len(left))]
         /\ children' = [children EXCEPT ![parent] = left]
         /\ keyed' = [keyed EXCEPT ![parent] = @ \ {n}]

\* A hut nested in a wrapper: remove_child, then the indexes of the output it
\* was on are clamped once more.
ExitChild(parent, i, n, at) ==
    LET left    == RemoveAt(children[parent], i)
        huts(o) == IF Collapses(left) THEN ReplaceAll(outputs[o].huts, parent, left[1])
                   ELSE outputs[o].huts
        clamp(x) == ClampIndex(x, Len(outputs[at].huts))
    IN  /\ Unlink(n, parent, left)
        /\ outputs' = [o \in DOMAIN outputs |->
             IF o = at
             THEN [huts |-> huts(o), current |-> clamp(outputs[o].current),
                   preview |-> IF outputs[o].preview = 0 THEN 0 ELSE clamp(outputs[o].preview)]
             ELSE [outputs[o] EXCEPT !.huts = huts(o)]]

ExitNested(n) ==
    /\ \E parent \in NodeId : \E i \in DOMAIN children[parent] :
         /\ children[parent][i] = n
         /\ \E o \in DOMAIN outputs :   \* the one the hut, and so its parent, is on
              n \in UnderOutput(o) /\ ExitChild(parent, i, n, o)
    /\ touched' = touched \ {n}
    /\ windowed' = windowed \ {n}
    /\ UNCHANGED <<focusedOutput, nextId, hold, loop>>

\* handle_term_event looks the focused hut up only to see if it is the last.
Exited(n) ==
    LET last == AllHuts = {n} IN
    /\ Live
    /\ last => InRange(focusedOutput)
    /\ IF last /\ n = FocusedHut(focusedOutput) THEN LogOut
       ELSE ExitTopLevel(n) \/ ExitNested(n)

-----------------------------------------------------------------------------
(* Outputs: hotplug (add_output, remove_output) and the pointer moving from *)
(* one to another (set_focused_output).  A failed spawn leaves add_output   *)
(* without effect, and the last output is never removed.                    *)

AddOutput ==
    /\ Live
    /\ Len(outputs) < MaxOutputs
    /\ TRUE \in SpawnOutcomes(1)
    /\ Reshape({}, TRUE)
    /\ outputs' = Append(outputs, NewSlot(nextId))
    /\ UNCHANGED <<focusedOutput, hold, loop>>

\* The focus index after output o is gone.
UnshiftedFocus(o) ==
    IF focusedOutput > Len(outputs) - 1 THEN Len(outputs) - 1 ELSE focusedOutput
FocusAfterRemoval(o) ==
    IF focusedOutput > Len(outputs) - 1 THEN Len(outputs) - 1
    ELSE IF focusedOutput > o THEN focusedOutput - 1
    ELSE focusedOutput

RemoveOutput(o) ==
    /\ Live
    /\ Len(outputs) > 1
    /\ o \in DOMAIN outputs
    /\ Reshape(UnderOutput(o), FALSE)
    /\ outputs' = RemoveAt(outputs, o)
    /\ focusedOutput' = FocusAfterRemoval(o)
    /\ UNCHANGED <<hold, loop>>

SetFocusedOutput(o) ==
    /\ Live
    /\ o \in DOMAIN outputs
    /\ focusedOutput' = o
    /\ UNCHANGED <<graphVars, useVars, outputs, hold, loop>>

-----------------------------------------------------------------------------
(* The loop itself.                                                        *)

\* focused_top_level indexes huts[current]: whichever key handler, click or
\* frame looks a hut up first on such an output panics.
Panic ==
    /\ Live
    /\ \E o \in DOMAIN outputs : ~InRange(o)
    /\ loop' = "panicked"
    /\ UNCHANGED <<graphVars, useVars, slotVars, hold>>

\* loop_signal.stop() takes effect when the current dispatch batch is done.
EndBatch ==
    /\ loop = "stopping"
    /\ loop' = "stopped"
    /\ UNCHANGED <<graphVars, useVars, slotVars, hold>>

Ended ==
    /\ loop \in {"stopped", "panicked"}
    /\ UNCHANGED vars

Keyboard ==
    \/ StackNext \/ StackPrev
    \/ PressHold \/ ReleaseHold \/ LateCommit
    \/ \E kd \in Wrappers : Wrap(kd)
    \/ \E dir \in {"next", "prev"} : CycleInnermost(dir)
    \/ Type

Next ==
    \/ SpawnWithCommand \/ RunLoop
    \/ Keyboard
    \/ ClickChrome
    \/ \E o \in 1..MaxOutputs : \/ o \in DOMAIN outputs /\ RenderTabStrips(o)
                                \/ RemoveOutput(o)
                                \/ SetFocusedOutput(o)
    \/ \E n \in AllHuts : MapWindow(n) \/ UnmapWindows(n) \/ Exited(n)
    \/ AddOutput
    \/ Panic \/ EndBatch \/ Ended

Spec == Init /\ [][Next]_vars

-----------------------------------------------------------------------------
(* Safety.                                                                 *)

\* The slots that name node n: of an output's list, of a wrapper's children.
TopPlaces(n) ==
    {p \in (DOMAIN outputs) \X NodeId :
        p[2] \in DOMAIN outputs[p[1]].huts /\ outputs[p[1]].huts[p[2]] = n}
ChildPlaces(n) ==
    {p \in NodeId \X NodeId : p[2] \in DOMAIN children[p[1]] /\ children[p[1]][p[2]] = n}

\* Every node in the graph is reachable from exactly one slot of the tree, and
\* no slot names a node that has left the graph: remove_exited, wrap and the
\* discard rules neither orphan a live shell nor leave a dangling id behind.
ReferencedOnce ==
    \A n \in NodeId :
      LET places == Cardinality(TopPlaces(n)) + Cardinality(ChildPlaces(n)) IN
      IF kind[n] = "none" THEN places = 0 ELSE places = 1 /\ n \in AllNodeIds

\* A wrapper always has two children and an active that names one of them
\* ("a Tab-Hut with only 1 child ... in practice this never happens").
WrappersArePairs ==
    \A n \in NodeId : IF kind[n] \in Wrappers
                      THEN Len(children[n]) = 2 /\ active[n] \in 1..2
                      ELSE children[n] = <<>>

\* What focused() and focused_for() expect of every output a user can be on:
\* following the active children of its current entry ends at a console.
FocusReachesConsole ==
    \A o \in DOMAIN outputs : InRange(o) => kind[FocusedHut(o)] = "console"

\* Unless the loop is being stopped, no output is ever left without an entry.
StackNeverEmpty ==
    loop \in {"starting", "running"} => \A o \in DOMAIN outputs : outputs[o].huts # <<>>

\* An open preview always points at an entry, whatever exits meanwhile.
PreviewInRange ==
    loop \in {"starting", "running"} =>
      \A o \in DOMAIN outputs : outputs[o].preview # 0 =>
        outputs[o].preview \in DOMAIN outputs[o].huts

\* focused_top_level indexes huts[current] without a check: `current` names an
\* entry of every output as long as the loop is not being stopped.
CurrentInRange ==
    loop \in {"starting", "running"} => \A o \in DOMAIN outputs : InRange(o)

\* The per-child data of a wrapper follows its children through wraps and
\* collapses: a tile has a fraction for exactly its children, a tab keeps
\* chrome for no one else (it would leak for the rest of the session).
KeyedByChildren ==
    \A n \in NodeId :
      CASE kind[n] = "tile" -> keyed[n] = ToSet(children[n])
        [] kind[n] = "tab"  -> keyed[n] \subseteq ToSet(children[n])
        [] OTHER            -> keyed[n] = {}

\* The tree of huts is sound: the types, the four facts above on who names whom,
\* and the fractions and chrome that are keyed by them (what every look-up of
\* graph_stack.rs and graph_nodes.rs takes for granted).
TreeIsSound ==
    /\ TypeOK
    /\ ReferencedOnce
    /\ WrappersArePairs
    /\ FocusReachesConsole
    /\ KeyedByChildren

\* What makes the index invariants inductive.  Ids at or past nextId are not in
\* the graph; a slot's `current` is at least the first entry, and it is the
\* first one for good when only `preview` ever walks; without a stack-hold
\* modifier no preview is ever opened.
GraphInv ==
    /\ \A n \in NodeId : n >= nextId => kind[n] = "none"
    /\ WrappersArePairs
SlotGood(slot) ==
    /\ slot.current >= 1
    /\ IF StackHold THEN slot.current = 1 ELSE slot.preview = 0
SlotFull(slot) ==
    /\ slot.current <= Len(slot.huts)
    /\ slot.preview <= Len(slot.huts)
SlotInv ==
    \A o \in DOMAIN outputs :
        /\ SlotGood(outputs[o])
        /\ loop \in {"starting", "running"} => SlotFull(outputs[o])

\* The inductive invariant behind the theorems of GraphStack_proofs.
IInv == TypeOK /\ GraphInv /\ SlotInv

\* A shell that exits moves the keyboard focus of no output that was not
\* showing it: neither the index shift of a top-level removal nor the collapse
\* of a wrapper lands anyone on another hut.
ExitKeepsOtherFocus ==
    [][\A n \in NodeId : kind[n] = "console" /\ kind'[n] = "none" /\ Exited(n) =>
         \A o \in DOMAIN outputs : InRange(o) /\ FocusedHut(o) # n =>
           InRange(o)' /\ FocusedHut(o)' = FocusedHut(o)]_vars

\* A console someone typed into, or that holds a window, leaves the graph only
\* when its own shell exits or its output is unplugged: navigation, wraps and
\* the exits of others never discard it.
UsedHutsSurvive ==
    [][\A n \in NodeId :
         kind[n] = "console" /\ n \in touched \cup windowed /\ kind'[n] # "console" =>
           \/ Exited(n)
           \/ \E o \in DOMAIN outputs : n \in UnderOutput(o) /\ RemoveOutput(o)]_vars

\* Wrapping shows what was shown before, the committed preview if one was open.
WrapKeepsFocus ==
    [][(\E n \in NodeId : kind[n] = "none" /\ kind'[n] \in Wrappers) =>
         LET slot == Committed(outputs[focusedOutput]) IN
         FocusedHut(focusedOutput)' = FocusedLeaf(slot.huts[slot.current])]_vars

\* Walking a preview session, discards included, never changes what the output
\* is focused on ("current survives untouched").
PreviewKeepsFocus ==
    [][LET o == focusedOutput IN
         /\ InRange(o)
         /\ Len(outputs') = Len(outputs)
         /\ 0 \notin {outputs[o].preview, outputs'[o].preview}
         /\ StackNext \/ StackPrev
         => InRange(o)' /\ TopLevel(o)' = TopLevel(o)]_vars

\* Unplugging an output leaves the focus on the output that had it, and every
\* other output's list, focus and open preview as they were.
UnplugKeepsOthers ==
    [][\A o \in DOMAIN outputs :
         Len(outputs') < Len(outputs) /\ o # focusedOutput /\ RemoveOutput(o) =>
         /\ outputs'[focusedOutput'] = outputs[focusedOutput]
         /\ \A p \in DOMAIN outputs \ {o} : \E q \in DOMAIN outputs' :
              outputs'[q] = outputs[p]]_vars

\* The promise of MruStacks.tla: what each output lists and shows (its preview,
\* or else its current entry) only ever changes as a most-recently-used stack
\* does, whatever keys, exits and hotplug interleave with a preview session.
Stacks == [o \in DOMAIN outputs |-> [list |-> outputs[o].huts, shown |-> Pos(outputs[o])]]
Used   == {n \in NodeId : Touched(n)}
Mru == INSTANCE MruStacks WITH
    Entries <- NodeId, stacks <- Stacks, focus <- focusedOutput, used <- Used
MruKept == Mru!Spec
=============================================================================
