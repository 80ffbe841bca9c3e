----------------------------- MODULE HutWindows -----------------------------
(***************************************************************************)
(* The client windows of the huts (console_hut.rs, main_window.rs): which  *)
(* hut a toplevel belongs to and as what (a Main Window tab, or a Floating *)
(* Window or Alert of one), which of them the hut's space shows, which one *)
(* holds the keyboard, and the two kinds of drag that move one             *)
(* (docks.rs, grabs.rs).  An action is one client request                  *)
(* (handlers/xdg_shell.rs, handlers/shell.rs), one input event (input.rs), *)
(* one shell exit (state.rs) or one frame (render.rs), up to and including *)
(* the keyboard repair that the dispatch of requests and of input ends     *)
(* with.  Which hut is focused is GraphStack's business: here it may       *)
(* change to any live hut.                                                 *)
(*                                                                         *)
(* Positions and sizes are left out, so a drag matters for where its       *)
(* window is mapped and whether it ends docked.  Tab indexes count from 1. *)
(***************************************************************************)
EXTENDS Integers, FiniteSets, SequencesExt

CONSTANTS
    Windows,  \* the toplevels clients may create
    Huts,     \* ids of huts
    MaxLive,  \* bound on the huts alive at one time
    None

ASSUME NamesAssumption == None \notin Windows \cup Huts
ASSUME NoneAssumption == None \notin [hut : Huts, window : Windows, detached : BOOLEAN] \cup
                                    [hut : Huts, window : Windows, floats : BOOLEAN]
ASSUME BoundAssumption == MaxLive \in Nat \ {0}

VARIABLES
    phase,     \* per hut: "unborn", "live" or "gone"
    focused,   \* the focused hut
    life,      \* per toplevel: "unborn", "alive" or "dead"
    asked,     \* live toplevels that lost their place and were sent close
    mains,     \* ConsoleHut::main_windows
    active,    \* ConsoleHut::active_main_window
    terminal,  \* ConsoleHut::showing_terminal
    floating,  \* MainWindowEntry::floating_windows, keyed by the Main Window
    alerts,    \* MainWindowEntry::alerts, keyed by the Main Window
    docked,    \* Floating Windows whose Dock is Docked
    space,     \* ConsoleHut::space: the windows mapped in it
    keyboard,  \* the seat's keyboard focus
    button,    \* is the left button down
    clicked,   \* did that press go to a client's window
    dockDrag,  \* State::dock_drag
    grab,      \* the live MoveSurfaceGrab
    dragging   \* State::dragging_hut_id

hutVars     == <<phase, focused>>
lifeVars    == <<life, asked>>
tabVars     == <<mains, active, terminal>>
childVars   == <<floating, alerts, docked>>
pointerVars == <<button, clicked, dockDrag, grab, dragging>>
vars == <<hutVars, lifeVars, tabVars, childVars, space, keyboard, pointerVars>>

TypeOK ==
    /\ phase \in [Huts -> {"unborn", "live", "gone"}]
    /\ focused \in Huts
    /\ life \in [Windows -> {"unborn", "alive", "dead"}]
    /\ asked \subseteq Windows
    /\ mains \in [Huts -> Seq(Windows)]
    /\ active \in [Huts -> Nat \ {0}]
    /\ terminal \in [Huts -> BOOLEAN]
    /\ floating \in [Windows -> SUBSET Windows]
    /\ alerts \in [Windows -> SUBSET Windows]
    /\ docked \subseteq Windows
    /\ space \in [Huts -> SUBSET Windows]
    /\ keyboard \in Windows \cup {None}
    /\ button \in BOOLEAN
    /\ clicked \in BOOLEAN
    /\ dockDrag \in [hut : Huts, window : Windows, detached : BOOLEAN] \cup {None}
    /\ grab \in [hut : Huts, window : Windows, floats : BOOLEAN] \cup {None}
    /\ dragging \in Huts \cup {None}

Live  == {h \in Huts : phase[h] = "live"}
Alive == {w \in Windows : life[w] = "alive"}

-----------------------------------------------------------------------------
(* Where a window is. *)

Tabs(h)       == ToSet(mains[h])
FloatsOf(h)   == UNION {floating[m] : m \in Tabs(h)}
AlertsOf(h)   == UNION {alerts[m] : m \in Tabs(h)}
WindowsOf(h)  == Tabs(h) \cup FloatsOf(h) \cup AlertsOf(h)
HutOf(w)      == {h \in Live : w \in WindowsOf(h)}
ActiveTab(h)  == IF active[h] \in DOMAIN mains[h] THEN mains[h][active[h]] ELSE None

\* (the bugs of the mutants: an off-by-one, and a clamp without the shift)
ShiftFromEqual(current, removed, newLen) ==
    IF removed <= current THEN current - 1
    ELSE IF current > newLen /\ newLen > 0 THEN newLen
    ELSE IF newLen = 0 THEN 1 ELSE current
ClampOnly(current, removed, newLen) ==
    IF current > newLen /\ newLen > 0 THEN newLen ELSE IF newLen = 0 THEN 1 ELSE current
\* hut.rs: what an index into a list becomes when the entry at `removed` goes.
ShiftActive(current, removed, newLen) ==
    IF removed < current THEN current - 1
    ELSE IF current > newLen /\ newLen > 0 THEN newLen
    ELSE IF newLen = 0 THEN 1 ELSE current

\* sync_main_window_space: the active tab with its undocked Floating Windows
\* and its Alerts, or nothing behind the terminal.
Shown(h, dock) ==
    LET m == ActiveTab(h)
    IN IF terminal[h] \/ m = None THEN {} ELSE {m} \cup (floating[m] \ dock) \cup alerts[m]

TerminalEffective(h) == terminal[h] \/ mains[h] = <<>>

\* Where sync_keyboard_focus_to_view sends a stale focus.
ViewTarget == IF TerminalEffective(focused) THEN None ELSE ActiveTab(focused)

\* (the bug of a mutant: a mutation site that forgets the focus)
FocusStays(k) == keyboard' = k

\* sync_keyboard_focus_to_view, run on focus k after everything else: a focus
\* that is a mapped layer surface or in the focused hut's space stays.
SyncKeyboard(k) ==
    keyboard' = IF k \in space'[focused'] THEN k ELSE ViewTarget'

\* sync_hut_space / sync_visible_main_window for hut h; skipped for the hut a
\* drag is live on.
SyncSpace(h) ==
    space' = IF dragging' = h THEN space ELSE [space EXCEPT ![h] = Shown(h, docked)']

Sync(h) == SyncSpace(h) /\ SyncKeyboard(keyboard)

-----------------------------------------------------------------------------
(* Requests of clients and of the shell authority. *)

\* XdgShellHandler::new_toplevel.  The owning hut comes from the client's
\* process ancestry, or is the focused one.
NewToplevel(w, h) ==
    /\ life[w] = "unborn"
    /\ h \in Live
    /\ LET first == mains[h] = <<>>
       IN /\ active' = IF first THEN [active EXCEPT ![h] = 1] ELSE active
          /\ terminal' = IF first /\ h = focused
                           THEN [terminal EXCEPT ![h] = FALSE] ELSE terminal
    /\ life' = [life EXCEPT ![w] = "alive"]
    /\ mains' = [mains EXCEPT ![h] = Append(@, w)]
    /\ UNCHANGED <<hutVars, asked, childVars, pointerVars>>
    /\ Sync(h)

\* (the bug of a mutant: windows dropped without a word)
DroppedSilently(ws) == asked

\* send_close to each of ws.
SendClose(ws) == asked \cup ws

\* The children listed under Main Window m go with its entry.
WithoutEntry(list, m) == [list EXCEPT ![m] = {}]

\* A hut whose last Main Window goes shows its terminal.
TerminalAfter(h, left) == terminal[h] \/ left = 0

\* ConsoleHut::remove_window for a Main Window: its children are asked to
\* close and are tracked nowhere from then on.
RemoveMain(h, w) ==
    LET i == CHOOSE j \in DOMAIN mains[h] : mains[h][j] = w
        orphans == floating[w] \cup alerts[w]
    IN /\ mains' = [mains EXCEPT ![h] = RemoveAt(@, i)]
       /\ active' = [active EXCEPT ![h] = ShiftActive(@, i, Len(mains[h]) - 1)]
       /\ terminal' = [terminal EXCEPT ![h] = TerminalAfter(h, Len(mains[h]) - 1)]
       /\ floating' = WithoutEntry(floating, w)
       /\ alerts' = WithoutEntry(alerts, w)
       /\ docked' = docked \ orphans
       /\ asked' = SendClose(orphans) \ {w}

\* ConsoleHut::remove_window for a Floating Window or an Alert.
RemoveChild(w) ==
    /\ floating' = [m \in Windows |-> floating[m] \ {w}]
    /\ alerts' = [m \in Windows |-> alerts[m] \ {w}]
    /\ docked' = docked \ {w}
    /\ asked' = asked \ {w}
    /\ UNCHANGED tabVars

\* XdgShellHandler::toplevel_destroyed: only the space of a hut whose active
\* tab went is rebuilt.
ToplevelDestroyed(w) ==
    /\ life[w] = "alive"
    /\ life' = [life EXCEPT ![w] = "dead"]
    /\ UNCHANGED <<hutVars, pointerVars>>
    /\ \/ \E h \in HutOf(w) :
            /\ w \in Tabs(h)
            /\ RemoveMain(h, w)
            /\ IF ActiveTab(h) = w THEN SyncSpace(h) ELSE UNCHANGED space
       \/ /\ \A h \in HutOf(w) : w \notin Tabs(h)
          /\ RemoveChild(w)
          /\ UNCHANGED space
    /\ SyncKeyboard(keyboard)

\* retag_in_stack: `role` is what the window becomes, under Main Window m.
\* A target that is no Main Window of the same hut leaves it a Main Window.
RetagInStack(h, w, role, m) ==
    LET bare      == w \in Tabs(h)
        i         == CHOOSE j \in DOMAIN mains[h] : mains[h][j] = w
        wasActive == ActiveTab(h) = w
        taken     == IF bare THEN RemoveAt(mains[h], i) ELSE mains[h]
        shifted   == IF bare THEN ShiftActive(active[h], i, Len(taken)) ELSE active[h]
        makeActive == IF bare THEN wasActive \/ taken = <<>> ELSE TRUE
        nested    == role # "main" /\ m \in ToSet(taken)
        orphans   == IF nested THEN floating[w] \cup alerts[w] ELSE {}
        children(f, r) == [p \in Windows |->
            IF p = w /\ nested THEN {}
            ELSE IF p = m /\ nested /\ role = r THEN f[p] \cup {w}
            ELSE f[p] \ {w}]
    IN /\ mains' = [mains EXCEPT ![h] = IF nested THEN taken ELSE Append(taken, w)]
       /\ active' = [active EXCEPT ![h] =
             IF nested \/ ~makeActive THEN shifted ELSE Len(taken) + 1]
       /\ floating' = children(floating, "floating")
       /\ alerts' = children(alerts, "alert")
       /\ docked' = (docked \ (orphans \cup {w})) \cup
                      (IF nested /\ role = "floating" THEN {w} ELSE {})
       /\ asked' = SendClose(orphans)
       /\ UNCHANGED terminal

\* retag, for mudhuts_window_role_v1 and mudhuts_shell_authority_v1: a new
\* child of the hut on view gets the keyboard if it is mapped.
Retag(h, w, role, m) ==
    /\ RetagInStack(h, w, role, m)
    /\ UNCHANGED <<hutVars, life, pointerVars>>
    /\ SyncSpace(h)
    /\ LET child == w \notin Tabs(h)'
       IN IF child /\ h = focused /\ w \in space'[h]
            THEN keyboard' = w ELSE SyncKeyboard(keyboard)

-----------------------------------------------------------------------------
(* Keys. *)

ToggleTerminal ==
    /\ mains[focused] # <<>>
    /\ terminal' = [terminal EXCEPT ![focused] = ~@]
    /\ UNCHANGED <<hutVars, lifeVars, mains, active, childVars, pointerVars>>
    /\ Sync(focused)

\* TabNext and TabPrev with two Main Windows or more (ConsoleHut::cycle_tab).
CycleTab(step) ==
    LET n == Len(mains[focused])
    IN /\ n >= 2
       /\ active' = [active EXCEPT ![focused] = ((@ - 1 + n + step) % n) + 1]
       /\ UNCHANGED <<hutVars, lifeVars, mains, terminal, childVars, pointerVars>>
       /\ Sync(focused)

\* Every other way the view moves to another live hut: a walk, a wrap, a pane
\* click, a pointer that crosses onto another output.
FocusHut(h) ==
    /\ h \in Live \ {focused}
    /\ focused' = h
    /\ UNCHANGED <<phase, lifeVars, tabVars, childVars, pointerVars>>
    /\ Sync(h)

SpawnHut(h) ==
    /\ phase[h] = "unborn" /\ Cardinality(Live) < MaxLive
    /\ phase' = [phase EXCEPT ![h] = "live"]
    /\ focused' = h
    /\ UNCHANGED <<lifeVars, tabVars, childVars, pointerVars>>
    /\ Sync(h)

-----------------------------------------------------------------------------
(* The pointer: the left button, the implicit grab and the two drags. *)

\* A press that the chrome, the terminal or nothing takes.  The
\* client under the pointer, if any, is told in every case.
PressTab(i, under) ==
    /\ ~button /\ i \in 0..Len(mains[focused])
    /\ IF i = 0
         THEN terminal' = [terminal EXCEPT ![focused] = TRUE] /\ UNCHANGED active
         ELSE /\ terminal' = [terminal EXCEPT ![focused] = FALSE]
              /\ active' = [active EXCEPT ![focused] = i]
    /\ button' = TRUE
    /\ clicked' = under
    /\ UNCHANGED <<hutVars, lifeVars, mains, childVars, dockDrag, grab, dragging>>
    /\ Sync(focused)

PressElsewhere(target) ==
    /\ ~button
    /\ \/ target = None
       \/ target = keyboard  \* on the terminal: the focus stays
          /\ TerminalEffective(focused)
    /\ button' = TRUE
    /\ clicked' = FALSE
    /\ UNCHANGED <<hutVars, lifeVars, tabVars, childVars, space, dockDrag, grab, dragging>>
    /\ SyncKeyboard(target)

\* docks::start_drag on the handle of a docked Floating Window of the active tab.
StartDrag(w, under) ==
    /\ ~button /\ ~TerminalEffective(focused)
    /\ w \in floating[ActiveTab(focused)] \cap docked
    /\ dockDrag' = [hut |-> focused, window |-> w, detached |-> FALSE]
    /\ dragging' = focused
    /\ button' = TRUE
    /\ clicked' = under
    /\ UNCHANGED <<hutVars, lifeVars, tabVars, childVars, space, grab>>
    /\ SyncKeyboard(keyboard)

PressWindow(w) ==
    /\ ~button /\ ~TerminalEffective(focused)
    /\ w \in space[focused] \cap Alive
    /\ button' = TRUE
    /\ clicked' = TRUE
    /\ UNCHANGED <<hutVars, lifeVars, tabVars, childVars, space, dockDrag, grab, dragging>>
    /\ SyncKeyboard(w)

\* How a drag of `window` off hut `hut` ends (finish_drag and unset): the
\* window lands docked or not, and the hut's space is rebuilt, unless the hut
\* or the mapping of the window is gone.
Landings(drag, sp, dock) ==
    IF drag.hut \notin Live \/ drag.window \notin sp[drag.hut]
      THEN {[space |-> sp, docked |-> dock]}
      ELSE {[space |-> [sp EXCEPT ![drag.hut] = Shown(drag.hut, d)], docked |-> d] :
              d \in IF drag.window \in FloatsOf(drag.hut)
                      THEN {dock \cup {drag.window}, dock \ {drag.window}}
                      ELSE {dock}}
Unchanged(sp, dock) == {[space |-> sp, docked |-> dock]}

\* docks::finish_drag: an undetached drag, or one of a window tracked nowhere,
\* changes nothing.
DockLandings(sp, dock) ==
    IF dockDrag # None /\ dockDrag.detached /\ HutOf(dockDrag.window) # {}
      THEN Landings(dockDrag, sp, dock) ELSE Unchanged(sp, dock)

\* MoveSurfaceGrab::unset: an Alert keeps its position and nothing is rebuilt.
MoveLandings(sp, dock) ==
    IF grab # None /\ grab.floats THEN Landings(grab, sp, dock) ELSE Unchanged(sp, dock)

\* (the bug of a mutant: a move that ends without lifting the mark)
MarkAfterDock == IF dockDrag # None THEN None ELSE dragging

\* finish_drag and unset both lift the mark.
MarkAfterDrag == IF dockDrag # None \/ grab # None THEN None ELSE dragging

\* XdgShellHandler::move_request, with the serial of the press still held.  A
\* grab it replaces is unset first.
MoveRequest(w) ==
    /\ button /\ clicked /\ life[w] = "alive"
    /\ w \in FloatsOf(focused) \cup AlertsOf(focused)
    /\ w \in space[focused]
    /\ grab' = [hut |-> focused, window |-> w, floats |-> w \in FloatsOf(focused)]
    /\ dragging' = focused
    /\ \E r \in MoveLandings(space, docked) : space' = r.space /\ docked' = r.docked
    /\ UNCHANGED <<hutVars, lifeVars, tabVars, floating, alerts, button, clicked, dockDrag>>
    /\ SyncKeyboard(keyboard)

\* docks::advance_drag: past the threshold the window comes off its dock, and
\* from then on it is mapped under the pointer.
Advanced(sp) ==
    LET h == dockDrag.hut
        w == dockDrag.window
    IN IF dockDrag = None THEN {[space |-> sp, docked |-> docked, drag |-> None]}
       ELSE IF h \notin Live THEN {[space |-> sp, docked |-> docked, drag |-> dockDrag]}
       ELSE IF dockDrag.detached
         THEN {[space |-> IF w \in FloatsOf(h) THEN [sp EXCEPT ![h] = @ \cup {w}] ELSE sp,
                docked |-> docked, drag |-> dockDrag]}
         ELSE {[space |-> sp, docked |-> docked, drag |-> dockDrag],
               [space |-> [sp EXCEPT ![h] = Shown(h, docked \ {w})],
                docked |-> IF w \in FloatsOf(h) THEN docked \ {w} ELSE docked,
                drag |-> [dockDrag EXCEPT !.detached = TRUE]]}

\* Pointer motion during a drag, ending over hut h: handle_pointer_motion with
\* the view's sync when the pointer crosses onto another output, advance_drag,
\* then MoveSurfaceGrab::motion.
DragMotion(h) ==
    LET crossed == IF h = focused \/ dragging = h THEN space
                   ELSE [space EXCEPT ![h] = Shown(h, docked)]
        moved(sp) == IF grab # None /\ grab.hut \in Live
                       THEN [sp EXCEPT ![grab.hut] = @ \cup {grab.window}] ELSE sp
        target  == IF TerminalEffective(h) THEN None ELSE ActiveTab(h)
        held(k) == k \in crossed[h]
    IN /\ dockDrag # None \/ grab # None
       /\ h \in Live
       /\ focused' = h
       /\ \E r \in Advanced(crossed) :
            /\ docked' = r.docked
            /\ dockDrag' = r.drag
            /\ space' = moved(r.space)
       /\ UNCHANGED <<phase, lifeVars, tabVars, floating, alerts, button, clicked,
                      grab, dragging>>
       /\ SyncKeyboard(IF h = focused \/ held(keyboard) THEN keyboard ELSE target)

\* The button goes up: finish_drag, then the grab's button handler.
Release ==
    /\ button
    /\ button' = FALSE
    /\ clicked' = FALSE
    /\ dockDrag' = None
    /\ grab' = None
    /\ dragging' = MarkAfterDrag
    /\ \E d \in DockLandings(space, docked) : \E r \in MoveLandings(d.space, d.docked) :
         space' = r.space /\ docked' = r.docked
    /\ UNCHANGED <<hutVars, lifeVars, tabVars, floating, alerts>>
    /\ SyncKeyboard(keyboard)

-----------------------------------------------------------------------------
(* Shell exits and frames. *)

\* The id of a hut is never used again; one that no drag refers to stands for
\* the next one from then on.
Departed(h) ==
    IF h = dragging \/ \E d \in {dockDrag, grab} \ {None} : d.hut = h THEN "gone" ELSE "unborn"

\* handle_term_event(Exited) with ConsoleHut::close_all_windows: the hut goes
\* with its windows, which are asked to close.  The hut then on view where h
\* was gets synced; it is a fresh one when h was the last of its output.  The
\* exit of the last hut of all ends the compositor.
HutExit(h, next) ==
    /\ h \in Live /\ Live # {h}
    /\ next \in Live \ {h} \/ phase[next] = "unborn"
    /\ phase' = [phase EXCEPT ![h] = Departed(h), ![next] = "live"]
    /\ focused' = IF focused = h THEN next ELSE focused
    /\ asked' = SendClose(WindowsOf(h))
    /\ mains' = [mains EXCEPT ![h] = <<>>]
    /\ active' = [active EXCEPT ![h] = 1]
    /\ terminal' = [terminal EXCEPT ![h] = TRUE]
    /\ floating' = [m \in Windows |-> IF m \in Tabs(h) THEN {} ELSE floating[m]]
    /\ alerts' = [m \in Windows |-> IF m \in Tabs(h) THEN {} ELSE alerts[m]]
    /\ docked' = docked \ FloatsOf(h)
    /\ space' = [space EXCEPT ![h] = {},
                              ![next] = IF dragging = next THEN @ ELSE Shown(next, docked)]
    /\ UNCHANGED <<life, pointerVars>>
    /\ SyncKeyboard(keyboard)

\* A frame drops dead windows from the space it showed (send_frame_callbacks).
\* It repairs no focus.
Frame(h) ==
    /\ h \in Live
    /\ space[h] \ Alive # {}
    /\ space' = [space EXCEPT ![h] = @ \cap Alive]
    /\ UNCHANGED <<hutVars, lifeVars, tabVars, childVars, keyboard, pointerVars>>

\* The stack popup's thumbnail of an entry that is not on view
\* (refresh_hut_content_thumbnail) rebuilds that hut's space.
Thumbnail(h) ==
    /\ h \in Live \ {focused} /\ ~TerminalEffective(h)
    /\ space' = [space EXCEPT ![h] = Shown(h, docked)]
    /\ UNCHANGED <<hutVars, lifeVars, tabVars, childVars, keyboard, pointerVars>>

-----------------------------------------------------------------------------
Init ==
    /\ \E h \in Huts : /\ focused = h
                       /\ phase = [g \in Huts |-> IF g = h THEN "live" ELSE "unborn"]
    /\ life = [w \in Windows |-> "unborn"]
    /\ asked = {}
    /\ mains = [h \in Huts |-> <<>>]
    /\ active = [h \in Huts |-> 1]
    /\ terminal = [h \in Huts |-> TRUE]
    /\ floating = [w \in Windows |-> {}]
    /\ alerts = [w \in Windows |-> {}]
    /\ docked = {}
    /\ space = [h \in Huts |-> {}]
    /\ keyboard = None
    /\ button = FALSE
    /\ clicked = FALSE
    /\ dockDrag = None
    /\ grab = None
    /\ dragging = None

Client ==
    \/ \E w \in Windows :
         \/ \E h \in Huts : NewToplevel(w, h)
         \/ ToplevelDestroyed(w)
         \/ \E h \in HutOf(w) :
              \/ Retag(h, w, "main", w)
              \/ \E m \in Tabs(h), role \in {"floating", "alert"} : Retag(h, w, role, m)
         \/ MoveRequest(w)

Under == {FALSE} \cup {space[focused] # {}}

User ==
    \/ ToggleTerminal
    \/ \E step \in {-1, 1} : CycleTab(step)
    \/ \E h \in Huts : FocusHut(h) \/ SpawnHut(h) \/ DragMotion(h)
    \/ \E u \in Under :
         \/ \E i \in 0..Len(mains[focused]) : PressTab(i, u)
         \/ \E w \in Windows : StartDrag(w, u)
    \/ \E t \in {None, keyboard} : PressElsewhere(t)
    \/ \E w \in Windows : PressWindow(w)
    \/ Release

System == \E h \in Huts : Frame(h) \/ Thumbnail(h) \/ \E next \in Huts : HutExit(h, next)

Next == Client \/ User \/ System

Spec == Init /\ [][Next]_vars
-----------------------------------------------------------------------------
(* Properties. *)

\* A toplevel is in one place at most: one tab of one hut, or one child list of
\* one Main Window that is itself a tab; only Floating Windows are docked, and
\* a window that is gone is listed nowhere (take_bare and take_nested always
\* precede the insertion that a retag makes).
OnePlace ==
    /\ \A h \in Huts : IsInjective(mains[h])
    /\ \A g, h \in Huts : g # h => Tabs(g) \cap Tabs(h) = {}
    /\ \A m \in Windows :
         floating[m] \cup alerts[m] # {} => \E h \in Live : m \in Tabs(h)
    /\ \A w \in Windows :
         Cardinality({h \in Huts : w \in Tabs(h)} \cup
                     ({m \in Windows : w \in floating[m]} \X {"floating"}) \cup
                     ({m \in Windows : w \in alerts[m]} \X {"alert"})) <= 1
    /\ docked \subseteq UNION {floating[m] : m \in Windows}
    /\ \A h \in Huts : WindowsOf(h) \subseteq Alive

\* No live toplevel is forgotten silently: one that no hut lists any more was
\* told to close (the children of a Main Window that goes or that is nested
\* itself, the windows of a hut whose shell exits).
ForgottenWereAsked == \A w \in Alive : HutOf(w) = {} => w \in asked

\* Outside the terminal there is a tab to show, and the index of the active
\* one names it, whatever order tabs were removed, nested and promoted in.
ShownTabExists ==
    \A h \in Live : /\ ~terminal[h] => mains[h] # <<>>
                    /\ mains[h] # <<>> => active[h] \in DOMAIN mains[h]

\* The windows of the huts are sound: the types, one place for each toplevel and
\* an active tab that exists.
WindowsAreSound == TypeOK /\ OnePlace /\ ShownTabExists

\* The mark that suppresses a hut's resync is there exactly while a drag is
\* live, on that drag's hut: a mark left behind would freeze the hut's space.
MarkMeansDrag ==
    /\ (dragging # None) <=> (dockDrag # None \/ grab # None)
    /\ dragging # None => \E d \in {dockDrag, grab} : d # None /\ d.hut = dragging

\* A live window that holds the keyboard belongs to the hut on view: it is
\* mapped there or is its active tab.
KeyboardOnView ==
    keyboard \in Alive => keyboard \in space[focused] \cup {ActiveTab(focused)}

\* A tab list that changes (a toplevel opens, goes, or is tagged) never moves
\* the user to another tab: the active one changes only if it left the list, or
\* for a nested window that was promoted.
ListKeepsTab ==
    [][\A h \in Live :
          LET m == ActiveTab(h)
          IN mains[h] # mains'[h] /\ m # None =>
                \/ ActiveTab(h)' = m
                \/ m \notin Tabs(h)'
                \/ ActiveTab(h)' \in FloatsOf(h) \cup AlertsOf(h)]_vars
=============================================================================
