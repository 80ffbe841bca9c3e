------------------------------- MODULE Screen -------------------------------
(***************************************************************************)
(* What is on the screen and who is under the pointer: layer surfaces and  *)
(* the room they reserve (handlers/layer_shell.rs), the sizes and places   *)
(* of the Main Windows in what is left, the order in which a frame draws   *)
(* (render.rs, graph_nodes.rs) and the order in which a press looks for    *)
(* its receiver (input.rs, state.rs).                                      *)
(*                                                                         *)
(* Geometry is reduced to what those orders tell apart: a display is rows  *)
(* 0..RowsOf[d]-1 of two columns; layer surfaces hang from its top edge in *)
(* the order they were mapped; the tab strip covers the left column of the *)
(* first StripRows rows; a tile is two panes, one per column.  A hut has   *)
(* at most one window, which is drawn at the size it was last configured   *)
(* to.  Session locks, drags, docks, previews and Hut-level tabs are left  *)
(* to SessionLock, HutWindows and GraphStack.                              *)
(***************************************************************************)
EXTENDS Integers, FiniteSets, SequencesExt

CONSTANTS
    Displays,   \* the outputs that may be plugged in
    Huts,       \* the huts that may be spawned
    Layers,     \* the layer surfaces clients may create
    RowsOf,     \* the height of each display
    AboveOf,    \* is a layer surface in Top or Overlay (else Bottom, Background)
    KeysOf,     \* the keyboard interactivities it may ask for
    ZonesOf,    \* the exclusive zones it may ask for
    StripRows,  \* the height of a tab strip
    EdgeRow,    \* EDGE_REVEAL_PX
    AutoHide,   \* chrome_config.auto_hide_tab_strip
    None

ASSUME RowsAssumption ==
    /\ RowsOf \in [Displays -> Nat \ {0}]
    /\ AboveOf \in [Layers -> BOOLEAN]
    /\ KeysOf \in [Layers -> SUBSET {"none", "demand", "exclusive"}]
    /\ ZonesOf \in [Layers -> SUBSET Nat]
    /\ StripRows \in Nat /\ EdgeRow \in Nat /\ AutoHide \in BOOLEAN
    /\ "tile" \notin Huts /\ IsFiniteSet(Displays)
ASSUME NoneAssumption ==
    /\ None \notin Huts \cup Layers \cup Displays \cup Nat
    /\ None \notin {"pane", "strip", "layer", "terminal", "window"} \X (Huts \cup Layers)

Columns == {1, 2}

VARIABLES
    live,      \* displays that have a slot
    dark,      \* has the last of them been unplugged (its slot stays)
    focus,     \* the display of the focused slot
    home,      \* per hut, the display whose stack it is in, or None
    front,     \* per display, the entry it shows: a hut or "tile"
    tile,      \* the two panes of the tile, << >> when there is none
    pane,      \* TileNode::active
    window,    \* huts that have a Main Window
    terminal,  \* ConsoleHut::showing_terminal
    size,      \* per hut, the height its window was last configured to
    at,        \* per hut, the row its space maps the window at, None when unmapped
    mapped,    \* per display, its LayerMap: the surfaces in it, in order
    layer,     \* per layer surface: its progress, exclusive zone and interactivity
    row,       \* the pointer's row on the focused display
    revealed,  \* State::tab_strip_revealed
    keyboard,  \* the seat's keyboard focus: a hut (its window), a layer surface or None
    replaced   \* history: huts whose display was replaced since they were last configured

stackVars  == <<live, dark, focus, home, front, tile, pane>>
windowVars == <<window, terminal, size, at, replaced>>
layerVars  == <<mapped, layer>>
seatVars   == <<row, revealed, keyboard>>
vars == <<stackVars, windowVars, layerVars, seatVars>>

Entries == Huts \cup {"tile"}

TypeOK ==
    /\ live \subseteq Displays /\ focus \in live /\ dark \in BOOLEAN
    /\ home \in [Huts -> Displays \cup {None}]
    /\ front \in [Displays -> Entries]
    /\ tile \in {<< >>} \cup (Huts \X Huts) /\ pane \in Columns
    /\ window \subseteq Huts
    /\ terminal \in [Huts -> BOOLEAN]
    /\ size \in [Huts -> Nat]
    /\ at \in [Huts -> Nat \cup {None}]
    /\ mapped \in [Displays -> Seq(Layers)]
    /\ layer \in [Layers -> [step : {"unborn", "mapped", "configured", "drawn", "dead"},
                             zone : Nat, keys : {"none", "demand", "exclusive"}]]
    /\ row \in Nat /\ revealed \in BOOLEAN
    /\ keyboard \in Huts \cup Layers \cup {None}
    /\ replaced \subseteq Huts

-----------------------------------------------------------------------------
(* Where things are. *)

Unborn == [step |-> "unborn", zone |-> 0, keys |-> "none"]
Dead   == [step |-> "dead", zone |-> 0, keys |-> "none"]

\* LayerMap::arrange: the rows the first of some zones take, the room above the
\* i-th surface of a display, and the room all of them reserve.
Taken(zones) ==
    LET rows[n \in 0 .. Len(zones)] == IF n = 0 THEN 0 ELSE rows[n - 1] + zones[n]
    IN rows
Zones(d)    == [i \in DOMAIN mapped[d] |-> layer[mapped[d][i]].zone]
Above(d, i) == Taken(Zones(d))[i - 1]
Origin(d)   == Above(d, Len(mapped[d]) + 1)
Usable(d)   == IF Origin(d) > RowsOf[d] THEN 0 ELSE RowsOf[d] - Origin(d)

\* A surface that reserves nothing is one row high.
RowsOfLayer(l) == IF layer[l].zone = 0 THEN 1 ELSE layer[l].zone
Covers(d, i, y) ==
    LET l == mapped[d][i]
    IN layer[l].step = "drawn" /\ y \in Above(d, i) .. Above(d, i) + RowsOfLayer(l) - 1

\* LayerMap::layer_under: the last mapped of those that cover a row.
LayerUnder(d, y, above) ==
    LET hits == {i \in DOMAIN mapped[d] : AboveOf[mapped[d][i]] = above /\ Covers(d, i, y)}
    IN IF hits = {} THEN None ELSE mapped[d][CHOOSE i \in hits : \A j \in hits : j <= i]

Panes(e)   == IF e = "tile" THEN tile ELSE <<e>>
LeafOf(e)  == IF e = "tile" THEN tile[pane] ELSE e
Leaf(d)    == LeafOf(front[d])
Tiled(d)   == front[d] = "tile"
Focused    == Leaf(focus)

\* shows_terminal_effective, and what ConsoleNode::resolve asks instead.
TerminalEffective(d) == Tiled(d) \/ terminal[Leaf(d)] \/ Leaf(d) \notin window
ResolvesTerminal(h)  == terminal[h] \/ h \notin window

\* The rows hut h's window covers in its space.
InSpace(h, y) == at[h] # None /\ y \in at[h] .. at[h] + size[h] - 1

\* combined_tab_strip_height, tab_strip_visible
StripHeight(d)  == IF Tiled(d) \/ Leaf(d) \notin window THEN 0 ELSE StripRows
StripVisible(d) == ~AutoHide \/ (d = focus /\ revealed)
OnTabs(d, x, y) == StripVisible(d) /\ x = 1 /\ y < StripHeight(d)

-----------------------------------------------------------------------------
(* A frame: build_frame_elements, front to back. *)

\* content_pieces_to_elements: a terminal texture starts at the usable area's
\* own origin, in its own pane; a window stays where its hut's space has it.
TextureAt(d, i, x, y) == y >= Origin(d) /\ (Tiled(d) => x = i)

PieceAt(d, i, x, y) ==
    LET h == Panes(front[d])[i]
    IN IF ResolvesTerminal(h)
       THEN IF TextureAt(d, i, x, y) THEN <<"terminal", h>> ELSE None
       ELSE IF InSpace(h, y) THEN <<"window", h>> ELSE None

\* The composited content at (x, y): the first pane's pieces are on top.
Content(d, x, y) ==
    LET hits == {i \in DOMAIN Panes(front[d]) : PieceAt(d, i, x, y) # None}
    IN IF hits = {} THEN None ELSE PieceAt(d, CHOOSE i \in hits : \A j \in hits : i <= j, x, y)

AsLayer(l) == IF l = None THEN None ELSE <<"layer", l>>

FirstOf(candidates) ==
    LET hits == {i \in DOMAIN candidates : candidates[i] # None}
    IN IF hits = {} THEN None ELSE candidates[CHOOSE i \in hits : \A j \in hits : i <= j]

Strip(d, x, y) == IF OnTabs(d, x, y) THEN <<"strip", Leaf(d)>> ELSE None

Drawn(d, x, y) ==
    FirstOf(<<Strip(d, x, y), AsLayer(LayerUnder(d, y, TRUE)), Content(d, x, y),
              AsLayer(LayerUnder(d, y, FALSE))>>)

-----------------------------------------------------------------------------
(* The pointer: try_click_chrome and the branches of a press; surface_under. *)

\* (the bug of a mutant: chrome that answers while it is hidden)
HiddenStripHit(x, y) ==
    FirstOf(<<IF x = 1 /\ y < StripHeight(focus) THEN <<"strip", Focused>> ELSE None,
              AsLayer(LayerUnder(focus, y, TRUE))>>)

\* What a press meets before the terminal or the window.
ChromeOrAbove(x, y) ==
    FirstOf(<<Strip(focus, x, y), AsLayer(LayerUnder(focus, y, TRUE))>>)

\* A press on a tile picks a pane and goes no further.
OnPane(y) == Tiled(focus) /\ y \in Origin(focus) .. RowsOf[focus] - 1

\* Then chrome and the upper layers, then the terminal, which takes all that is
\* left, or the window and the lower layers.
Receiver(x, y) ==
    FirstOf(<<IF OnPane(y) THEN <<"pane", tile[x]>> ELSE None,
              ChromeOrAbove(x, y),
              IF TerminalEffective(focus) THEN <<"terminal", Focused>> ELSE None,
              IF InSpace(Focused, y) THEN <<"window", Focused>> ELSE None,
              AsLayer(LayerUnder(focus, y, FALSE))>>)

\* (the bug of a mutant: windows before every layer surface)
WindowsFirst(y) ==
    FirstOf(<<IF InSpace(Focused, y) THEN <<"window", Focused>> ELSE None,
              AsLayer(LayerUnder(focus, y, TRUE)),
              AsLayer(LayerUnder(focus, y, FALSE))>>)

SurfaceUnder(y) ==
    FirstOf(<<AsLayer(LayerUnder(focus, y, TRUE)),
              IF InSpace(Focused, y) THEN <<"window", Focused>> ELSE None,
              AsLayer(LayerUnder(focus, y, FALSE))>>)

-----------------------------------------------------------------------------
(* Repairs that the handlers end with. *)

\* (the bug of a mutant: only the hut in front is told)
FrontReconfigured(d, h) == h = Leaf(d) /\ h \in window
\* reconfigure_main_windows: display d's windows learn its usable height.
Reconfigured(d, h) == home[h] = d /\ h \in window

Reconfigure(d) ==
    IF d \in live /\ Usable(d)' # Usable(d)
    THEN /\ size' = [h \in Huts |-> IF Reconfigured(d, h) THEN Usable(d)' ELSE size[h]]
         /\ replaced' = {h \in replaced : ~Reconfigured(d, h)}
    ELSE UNCHANGED <<size, replaced>>

\* sync_main_window_space
SyncSpace(h) ==
    at' = [at EXCEPT ![h] = IF terminal'[h] \/ h \notin window' THEN None ELSE Origin(home[h])']

\* sync_keyboard_focus_to_view for a focus of k, at the end of every dispatch
\* of requests and every input event.
SyncKeyboard(k) ==
    keyboard' = IF \/ \E d \in live' : k \in ToSet(mapped'[d])
                   \/ k = Focused' /\ at'[k] # None
                THEN k
                ELSE IF TerminalEffective(focus)' THEN None ELSE Focused'

-----------------------------------------------------------------------------
(* Layer-shell clients. *)

\* new_layer_surface, on the output the client names or the focused one.
NewLayerSurface(l, d) ==
    /\ layer[l] = Unborn /\ d \in live
    /\ layer' = [layer EXCEPT ![l].step = "mapped"]
    /\ mapped' = [mapped EXCEPT ![d] = Append(@, l)]
    /\ UNCHANGED <<stackVars, windowVars, row, revealed>>
    /\ SyncKeyboard(keyboard)

NextStep(s) == IF s = "mapped" THEN "configured" ELSE "drawn"

\* handle_commit: the first commit has no buffer yet, but its zone counts.
LayerCommit(l, d, z, k) ==
    /\ l \in ToSet(mapped[d])
    /\ layer' = [layer EXCEPT ![l] = [step |-> NextStep(@.step), zone |-> z, keys |-> k]]
    /\ UNCHANGED <<stackVars, window, terminal, at, mapped, row, revealed>>
    /\ Reconfigure(d)
    /\ SyncKeyboard(keyboard)

\* layer_destroyed
PlaceOf(l, d) == CHOOSE i \in DOMAIN mapped[d] : mapped[d][i] = l

LayerDestroyed(l, d) ==
    /\ l \in ToSet(mapped[d])
    /\ layer' = [layer EXCEPT ![l] = Dead]
    /\ mapped' = [mapped EXCEPT ![d] = RemoveAt(@, PlaceOf(l, d))]
    /\ UNCHANGED <<stackVars, window, terminal, at, row, revealed>>
    /\ Reconfigure(d)
    /\ SyncKeyboard(keyboard)

-----------------------------------------------------------------------------
(* Toplevels: one Main Window per hut. *)

\* new_toplevel: configured for its hut's display, shown at once in an empty
\* hut that has the focus.
NewToplevel(h) ==
    /\ home[h] # None /\ h \notin window
    /\ window' = window \cup {h}
    /\ terminal' = IF h = Focused THEN [terminal EXCEPT ![h] = FALSE] ELSE terminal
    /\ size' = [size EXCEPT ![h] = Usable(home[h])]
    /\ replaced' = replaced \ {h}
    /\ UNCHANGED <<stackVars, layerVars, row, revealed>>
    /\ SyncSpace(h)
    /\ SyncKeyboard(keyboard)

\* toplevel_destroyed
ToplevelDestroyed(h) ==
    /\ h \in window
    /\ window' = window \ {h}
    /\ terminal' = [terminal EXCEPT ![h] = TRUE]
    /\ size' = [size EXCEPT ![h] = 0]
    /\ replaced' = replaced \ {h}
    /\ UNCHANGED <<stackVars, layerVars, row, revealed>>
    /\ SyncSpace(h)
    /\ SyncKeyboard(keyboard)

-----------------------------------------------------------------------------
(* Input. *)

Leftover == UNCHANGED <<live, dark, home, window, size, layerVars, replaced>>

\* (the bug of a mutant: the strip of the old output carries over)
RevealKept(outputChanged) == revealed

\* sync_focused_output: with another Output the reveal starts afresh.
RevealAfter(outputChanged) == IF outputChanged THEN FALSE ELSE revealed

\* update_tab_strip_reveal
Reveal(was, y, d) == y <= EdgeRow \/ (was /\ y <= StripHeight(d))

\* clamp_to_nearest_output and output_index_at: where the pointer can be.
Rows(d)            == 0 .. RowsOf[d] - 1
UnderPointer(d, y) == d \in live /\ y \in Rows(d)

\* handle_pointer_motion to row y of display d.
Motion(d, y) ==
    /\ UnderPointer(d, y)
    /\ focus' = d /\ row' = y
    /\ LET was == RevealAfter(d # focus)
       IN revealed' = IF AutoHide THEN Reveal(was, y, d) ELSE was
    /\ UNCHANGED <<front, tile, pane, terminal>> /\ Leftover
    /\ IF d # focus THEN SyncSpace(Leaf(d)) ELSE UNCHANGED at
    /\ SyncKeyboard(keyboard)

Pressed(x, kind) == Receiver(x, row) # None /\ Receiver(x, row)[1] = kind

PressPane(x) ==
    /\ Pressed(x, "pane")
    /\ pane' = x
    /\ UNCHANGED <<focus, front, tile, terminal, row, revealed>> /\ Leftover
    /\ SyncSpace(tile[x])
    /\ SyncKeyboard(keyboard)

\* A tab of the strip: the terminal's, or the window's.
PressTab(x, toTerminal) ==
    /\ Pressed(x, "strip")
    /\ terminal' = [terminal EXCEPT ![Focused] = toTerminal]
    /\ UNCHANGED <<focus, front, tile, pane, row, revealed>> /\ Leftover
    /\ SyncSpace(Focused)
    /\ SyncKeyboard(keyboard)

PressElsewhere(x) ==
    LET hit == Receiver(x, row)
    IN /\ ~Pressed(x, "pane") /\ ~Pressed(x, "strip")
       /\ UNCHANGED <<stackVars, windowVars, layerVars, row, revealed>>
       /\ SyncKeyboard(
            CASE hit = None -> None
              [] hit # None /\ hit[1] = "layer" -> IF layer[hit[2]].keys = "none" THEN keyboard ELSE hit[2]
              [] hit # None /\ hit[1] = "window" -> hit[2]
              [] OTHER -> keyboard)

\* exclusive_layer_surface: the focused display's first, then any other's.
ExclusiveOn(d) == {i \in DOMAIN mapped[d] : AboveOf[mapped[d][i]] /\ layer[mapped[d][i]].keys = "exclusive"}
Exclusives ==
    LET order == IF ExclusiveOn(focus) # {} THEN {focus} ELSE {d \in live : ExclusiveOn(d) # {}}
    IN {mapped[d][CHOOSE i \in ExclusiveOn(d) : \A j \in ExclusiveOn(d) : i <= j] : d \in order}

\* A key an exclusive surface takes from everything else.
ExclusiveKey ==
    \E l \in Exclusives :
        /\ UNCHANGED <<stackVars, windowVars, layerVars, row, revealed>>
        /\ SyncKeyboard(l)

\* ToggleTerminal
ToggleTerminal ==
    /\ Exclusives = {} /\ Focused \in window
    /\ terminal' = [terminal EXCEPT ![Focused] = ~@]
    /\ UNCHANGED <<focus, front, tile, pane, row, revealed>> /\ Leftover
    /\ SyncSpace(Focused)
    /\ SyncKeyboard(keyboard)

\* StackNext and StackPrev, to another entry of the focused display's stack.
Entry(e, d) == IF e = "tile" THEN tile # << >> /\ home[tile[1]] = d
               ELSE home[e] = d /\ e \notin ToSet(tile)
Switch(e) ==
    /\ Exclusives = {} /\ e # front[focus] /\ Entry(e, focus)
    /\ front' = [front EXCEPT ![focus] = e]
    /\ UNCHANGED <<focus, tile, pane, terminal, row, revealed>> /\ Leftover
    /\ SyncSpace(LeafOf(e))
    /\ SyncKeyboard(keyboard)

\* A hut spawned into slot of display d.
SpawnedAt(h, d) == home[h] = None /\ home' = [home EXCEPT ![h] = d]

\* StackNext past the end: a hut of its own.
SpawnNext(h) ==
    /\ Exclusives = {} /\ SpawnedAt(h, focus)
    /\ front' = [front EXCEPT ![focus] = h]
    /\ UNCHANGED <<live, dark, focus, tile, pane, windowVars, layerVars, row, revealed>>
    /\ SyncKeyboard(keyboard)

\* WrapTile: the focused hut moves to the right pane, a new one takes the left.
WrapTile(h) ==
    /\ Exclusives = {} /\ tile = << >> /\ SpawnedAt(h, focus)
    /\ tile' = <<h, Focused>> /\ pane' = 2
    /\ front' = [front EXCEPT ![focus] = "tile"]
    /\ UNCHANGED <<live, dark, focus, window, terminal, size, replaced, layerVars, row, revealed>>
    /\ SyncSpace(Focused)
    /\ SyncKeyboard(keyboard)

-----------------------------------------------------------------------------
(* Monitors: connector_connected and connector_disconnected.  Neither is an  *)
(* input event nor a dispatch, so neither repairs the keyboard.              *)

\* A second monitor gets a slot and a hut of its own.
PlugAnother(d, h) ==
    /\ ~dark /\ d \notin live /\ SpawnedAt(h, d)
    /\ live' = live \cup {d}
    /\ front' = [front EXCEPT ![d] = h]
    /\ UNCHANGED <<dark, focus, tile, pane, windowVars, layerVars, seatVars>>

\* The only slot left gets the new monitor in place of the unplugged one; the
\* new Output starts with an empty LayerMap, and the pointer stays where it was,
\* which may be below the new monitor's last row.
PlugInstead(d) ==
    \E old \in live :
        /\ dark /\ dark' = FALSE
        /\ live' = {d} /\ focus' = d
        /\ home' = [h \in Huts |-> IF home[h] = old THEN d ELSE home[h]]
        /\ front' = [front EXCEPT ![d] = front[old]]
        /\ mapped' = [mapped EXCEPT ![old] = << >>]
        /\ layer' = [l \in Layers |-> IF l \in ToSet(mapped[old]) THEN Dead ELSE layer[l]]
        /\ replaced' = replaced \cup window
        /\ revealed' = RevealAfter(TRUE)
        /\ UNCHANGED <<tile, pane, window, terminal, size, at, row, keyboard>>

\* Unplugging one of several displays takes its huts and windows along.
UnplugOne(d) ==
    /\ Cardinality(live) > 1 /\ d \in live
    /\ live' = live \ {d}
    /\ \E f \in live' : focus' = IF focus = d THEN f ELSE focus
    /\ LET gone == {h \in Huts : home[h] = d}
       IN /\ home' = [h \in Huts |-> IF h \in gone THEN None ELSE home[h]]
          /\ window' = window \ gone
          /\ terminal' = [h \in Huts |-> h \in gone \/ terminal[h]]
          /\ size' = [h \in Huts |-> IF h \in gone THEN 0 ELSE size[h]]
          /\ at' = [h \in Huts |-> IF h \in gone THEN None ELSE at[h]]
          /\ replaced' = replaced \ gone
          /\ tile' = IF gone \cap ToSet(tile) # {} THEN << >> ELSE tile
          /\ pane' = IF gone \cap ToSet(tile) # {} THEN 1 ELSE pane
          /\ keyboard' = IF keyboard \in gone THEN None ELSE keyboard
    /\ mapped' = [mapped EXCEPT ![d] = << >>]
    /\ layer' = [l \in Layers |-> IF l \in ToSet(mapped[d]) THEN Dead ELSE layer[l]]
    /\ revealed' = RevealAfter(focus = d)
    /\ UNCHANGED <<dark, front, row>>

UnplugLast ==
    /\ Cardinality(live) = 1 /\ ~dark
    /\ dark' = TRUE
    /\ UNCHANGED <<live, focus, home, front, tile, pane, windowVars, layerVars, seatVars>>

-----------------------------------------------------------------------------
\* One monitor, one hut, its terminal in front.
Init ==
    \E d \in Displays, h \in Huts :
        /\ live = {d} /\ dark = FALSE /\ focus = d
        /\ home = [k \in Huts |-> IF k = h THEN d ELSE None]
        /\ front = [e \in Displays |-> h]
        /\ tile = << >> /\ pane = 1
        /\ window = {} /\ terminal = [k \in Huts |-> TRUE]
        /\ size = [k \in Huts |-> 0] /\ at = [k \in Huts |-> None]
        /\ mapped = [e \in Displays |-> << >>]
        /\ layer = [l \in Layers |-> Unborn]
        /\ row = 0 /\ revealed = FALSE /\ keyboard = None
        /\ replaced = {}

LayerClients ==
    \E l \in Layers, d \in Displays :
        \/ NewLayerSurface(l, d) \/ LayerDestroyed(l, d)
        \/ \E z \in ZonesOf[l], k \in KeysOf[l] : LayerCommit(l, d, z, k)
WindowClients == \E h \in Huts : NewToplevel(h) \/ ToplevelDestroyed(h)
Pointer ==
    \/ \E d \in Displays : \E y \in Rows(d) : Motion(d, y)
    \/ \E x \in Columns : PressPane(x) \/ PressElsewhere(x) \/ \E t \in BOOLEAN : PressTab(x, t)
Keys ==
    \/ ExclusiveKey \/ ToggleTerminal
    \/ \E e \in Entries : Switch(e)
    \/ \E h \in Huts : SpawnNext(h) \/ WrapTile(h)
Monitors ==
    \/ UnplugLast
    \/ \E d \in Displays : PlugInstead(d) \/ UnplugOne(d) \/ \E h \in Huts : PlugAnother(d, h)

Next == LayerClients \/ WindowClients \/ Pointer \/ Keys \/ Monitors

Spec == Init /\ [][Next]_vars

-----------------------------------------------------------------------------
(* Properties. *)

\* However panels come, grow and go, monitors change and huts are switched or
\* tiled, every window has been told the height its own display leaves it,
\* except on a monitor that took the place of the last one, which tells nobody
\* (connector_connected resizes the terminals only).
WindowsFit == \A h \in window \ replaced : size[h] = Usable(home[h])

\* The layout of every display is sound: the types, and windows that fit.
LayoutIsSound == TypeOK /\ WindowsFit

\* The order a press looks for its receiver in is the order the frame is drawn
\* in: outside a tile, a press goes to what is drawn under it.  A terminal also
\* takes the presses beside it, on a surface of the lower layers or on nothing.
PressIsDrawn ==
    ~Tiled(focus) =>
        \A x \in Columns, y \in Rows(focus) :
            LET drawn == Drawn(focus, x, y)
            IN \/ Receiver(x, y) = drawn
               \/ /\ Receiver(x, y) = <<"terminal", Focused>>
                  /\ drawn = None \/ drawn = AsLayer(LayerUnder(focus, y, FALSE))

\* The order of pointer focus is that order too: outside a tile, the surface a
\* client has drawn on top is the one that hears of the pointer.
DrawnIsHit ==
    ~Tiled(focus) =>
        \A x \in Columns, y \in Rows(focus) :
            LET drawn == Drawn(focus, x, y)
            IN drawn # None /\ drawn[1] \in {"layer", "window"} => SurfaceUnder(y) = drawn

\* The focus goes to another Output: of another display, or of the monitor that
\* takes the last one's slot (the same monitor's, if it was plugged in again).
OtherOutput       == focus' # focus \/ (dark /\ ~dark')
MonitorsUnchanged == live' = live /\ dark' = dark

\* A strip revealed on one Output does not come along to another.  Only a pointer
\* that reaches the new one's edge shows its strip; a monitor that goes or is
\* replaced never does, and the pointer, which stays where it was, does not help.
StripStaysHome ==
    [][OtherOutput /\ revealed' => row' <= EdgeRow /\ MonitorsUnchanged]_vars

-----------------------------------------------------------------------------
(* What the code's comments say and the code does not do. *)

\* layer_shell.rs: a Main Window's position follows the usable area every frame.
PositionIsLive == \A h \in window : at[h] # None => at[h] = Origin(home[h])

\* input.rs: the keyboard focus is None while the terminal shows.
TerminalHasKeys == TerminalEffective(focus) => keyboard = None

\* surface_under: a layer surface is only picked where nothing is on top of it.
UnderIsTopmost ==
    \A x \in Columns, y \in Rows(focus) :
        SurfaceUnder(y) # None => Drawn(focus, x, y) \in {SurfaceUnder(y), Strip(focus, x, y)}

\* graph_nodes.rs: a pane of a tile only ever shows a terminal.
PanesShowTerminals == \A d \in live : Tiled(d) => \A i \in Columns : ResolvesTerminal(tile[i])
=============================================================================
