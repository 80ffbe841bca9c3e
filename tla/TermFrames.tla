----------------------------- MODULE TermFrames ------------------------------
(***************************************************************************)
(* From a change in a terminal to the screen: the terminal's program and   *)
(* the selection change what a cell should look like, the terminal library *)
(* records damage, a frame takes the damage (mudhuts-term,                  *)
(* take_dirty_cells), repaints its bounding box into a texture that is kept *)
(* (gpu_term.rs, redraw) and reports the box to the display's own damage    *)
(* tracking (console_hut.rs, redraw).  A cell is not modelled by what it    *)
(* shows but by whether the texture still shows it: `stale` are the cells  *)
(* whose texture is behind.                                                *)
(*                                                                         *)
(* The damage the library records is external: it covers the change, except*)
(* that typing is only known by where the cursor was and is, and that the  *)
(* cursor's cell counts as damaged at every look (the comment in           *)
(* take_dirty_cells); the selection is not in it.                          *)
(***************************************************************************)
EXTENDS Integers, FiniteSets, FiniteSetsExt

CONSTANTS Rows, Cols, History, NoSelection

ASSUME SizeAssumption == {Rows, Cols} \subseteq Nat \ {0} /\ History \in Nat

Row   == 0..Rows - 1
Col   == 0..Cols - 1
Cells == [row : Row, col : Col]  \* of the view, and of the screen below it

ASSUME SelectionAssumption == \A C \in SUBSET Cells : C # NoSelection

VARIABLES
    cursor,    \* its cell, in lines of the screen
    offset,    \* how far the view is scrolled back into the history
    selected,  \* the highlighted cells of the view, or NoSelection
    full,      \* the library's damage: everything
    damaged,   \*   or cells of the screen,
    lastLook,  \*   and where the cursor was when the damage was last asked for
    stale,     \* cells whose texture is not what the terminal has
    fresh,     \* the texture is to be created anew: a new size, or a renderer
    unseen,    \* cells the display was not told of since they were repainted
    painted,   \* what the last frame repainted: "nothing", "part" or "all"
    missed,    \* stale cells that no record is left of
    visible, focused,
    woken,     \* TermEvent::Wakeup on its way
    redraw     \* State::redraw_ping

termVars  == <<cursor, offset, full, damaged>>
drawnVars == <<fresh, unseen, painted, lastLook>>
viewVars  == <<visible, focused>>
termFrameVars == <<termVars, selected, drawnVars, stale, missed, viewVars, woken, redraw>>

TermTypeOK ==
    /\ cursor \in Cells /\ lastLook \in Cells
    /\ offset \in 0..History
    /\ selected \in (SUBSET Cells) \cup {NoSelection}
    /\ damaged \subseteq Cells
    /\ {full, fresh, visible, focused, woken, redraw} \subseteq BOOLEAN
    /\ {stale, unseen, missed} \subseteq SUBSET Cells
    /\ painted \in {"nothing", "part", "all"}
    /\ missed \subseteq stale

\* Cells of the screen as they are on view.
OnView(C) == {[c EXCEPT !.row = @ + offset] : c \in {d \in C : d.row + offset < Rows}}

-----------------------------------------------------------------------------
(* The program's output, on the terminal's own thread.                     *)

Changes(C) == stale' = stale \cup C /\ missed' = missed \ C

\* A character goes to the cursor's cell, and the cursor on to the next; in the
\* last column it stays.
Type ==
    /\ Changes(OnView({cursor}))
    /\ cursor' = IF cursor.col + 1 < Cols THEN [cursor EXCEPT !.col = @ + 1] ELSE cursor
    /\ woken' = TRUE
    /\ UNCHANGED <<offset, full, damaged, selected, drawnVars, viewVars, redraw>>

\* The cursor goes elsewhere, and some columns of the line it goes to change.
Edit ==
    \E to \in Cells, left \in Col, right \in Col :
      /\ left <= right
      /\ LET C == {c \in Cells : c.row = to.row /\ left <= c.col /\ c.col <= right}
         IN Changes(OnView(C \cup {cursor, to})) /\ damaged' = damaged \cup C \cup {cursor, to}
      /\ cursor' = to
      /\ woken' = TRUE
      /\ UNCHANGED <<offset, full, selected, drawnVars, viewVars, redraw>>

\* Everything moves: a line feed in the last line, another screen.
ScrollUp ==
    /\ Changes(Cells)
    /\ full' = TRUE /\ woken' = TRUE
    /\ offset' \in (IF offset = 0 THEN {0} ELSE offset..History)
    /\ UNCHANGED <<cursor, damaged, selected, drawnVars, viewVars, redraw>>

-----------------------------------------------------------------------------
(* The user.                                                               *)

\* Terminal::scroll, for the wheel
Scroll ==
    /\ offset' \in 0..History \ {offset}
    /\ full' = TRUE
    /\ Changes(Cells)
    /\ redraw' = TRUE
    /\ UNCHANGED <<cursor, damaged, selected, drawnVars, viewVars, woken>>

Highlighted == IF selected = NoSelection THEN {} ELSE selected

\* start_selection: of nothing yet.  The press asks for no frame.
StartSelection ==
    /\ visible
    /\ selected' = {}
    /\ Changes(Highlighted)
    /\ UNCHANGED <<termVars, drawnVars, viewVars, woken, redraw>>

\* extend_selection, at a motion, which does
ExtendSelection ==
    /\ visible /\ selected # NoSelection
    /\ \E l \in Row :
         /\ selected' \in {{}, {c \in Cells : c.row <= l}}
         /\ Changes(Highlighted \cup selected')
    /\ redraw' = TRUE
    /\ UNCHANGED <<termVars, drawnVars, viewVars, woken>>

\* clear_selection, at the release of a click.  Nothing keeps a record of what
\* was highlighted.
ClearSelection ==
    /\ visible /\ selected # NoSelection
    /\ selected' = NoSelection
    /\ stale' = stale \cup Highlighted
    /\ missed' = stale' \ (OnView(damaged) \cup (IF full THEN Cells ELSE {}))
    /\ UNCHANGED <<termVars, drawnVars, viewVars, woken, redraw>>

\* resize_to_pixels, and rescale with its new renderer; the library takes a
\* new number of rows or columns as a change of everything, and the same ones
\* as none.
Resize ==
    /\ fresh' = TRUE
    /\ \/ full' = TRUE /\ Changes(Cells)
       \/ UNCHANGED <<full, stale, missed>>
    /\ redraw' = TRUE
    /\ UNCHANGED <<cursor, offset, damaged, selected, unseen, painted, lastLook, viewVars, woken>>

\* The focus moves to the terminal or away; the terminal is covered by another
\* hut or a window, or uncovered.  Either asks for a frame.
Focus ==
    /\ focused' = ~focused /\ redraw' = TRUE
    /\ UNCHANGED <<termVars, selected, drawnVars, stale, missed, visible, woken>>
Show ==
    /\ visible' = ~visible /\ redraw' = TRUE
    /\ UNCHANGED <<termVars, selected, drawnVars, stale, missed, focused, woken>>

-----------------------------------------------------------------------------
(* Frames.                                                                 *)

\* (the bug of a mutant: output alone asks for no frame)
NobodyAsks == FALSE

\* Only the focused hut's output asks for a frame.
AsksForFrame == focused

\* handle_term_event, TermEvent::Wakeup
Wakeup ==
    /\ woken
    /\ woken' = FALSE
    /\ redraw' = (redraw \/ AsksForFrame)
    /\ UNCHANGED <<termVars, selected, drawnVars, stale, missed, viewVars>>

\* Term::damage: the cells between where the cursor was and where it is, in its
\* line, count as well.
CursorDamage ==
    IF cursor.row = lastLook.row
      THEN {c \in Cells : /\ c.row = cursor.row
                          /\ Min({cursor.col, lastLook.col}) <= c.col
                          /\ c.col <= Max({cursor.col, lastLook.col})}
      ELSE {cursor, lastLook}

\* One span of columns in each line.
Spans(C) ==
    {c \in Cells : \E d, e \in C : d.row = c.row /\ e.row = c.row /\ d.col <= c.col /\ c.col <= e.col}

Reported == OnView(Spans(damaged \cup CursorDamage))

\* (the bug of a mutant: the cursor's line is compared as a line of the screen)
IdleUnscrolled(R) == R \subseteq {cursor}

\* Nothing but the cursor's own cell, which is reported every time.
Idle(R) == R \subseteq OnView({cursor})

\* damage_bounds and the cells collect_cells returns for it
Box(R) ==
    {c \in Cells : \E d, e, f, g \in R :
        d.row <= c.row /\ c.row <= e.row /\ f.col <= c.col /\ c.col <= g.col}

\* (the bug of a mutant: an active selection counts for nothing)
AsReported ==
    IF full THEN Cells ELSE IF Idle(Reported) THEN {} ELSE Box(Reported)

\* What take_dirty_cells hands out.
Dirty ==
    IF full \/ selected # NoSelection THEN Cells
    ELSE IF Idle(Reported) THEN {} ELSE Box(Reported)

\* GpuTermRenderer::redraw's `touched`; the whole texture when it is new.
Touched(P) == IF fresh THEN Cells ELSE P

\* ConsoleHut::redraw, for a terminal that is on view.  Taking the damage
\* resets it, whatever becomes of the repaint.
TakeDamage == full' = FALSE /\ damaged' = {} /\ lastLook' = cursor

\* Nothing to repaint; what a cursor that stayed has just overwritten is missed.
SkipFrame ==
    /\ Dirty = {} /\ TakeDamage
    /\ painted' = "nothing"
    /\ missed' = missed \cup (stale \cap OnView({cursor}))
    /\ UNCHANGED <<stale, fresh, unseen>>

\* A texture that is new holds nothing but what is repainted.
Repaint ==
    /\ Dirty # {} /\ TakeDamage
    /\ painted' = IF Dirty = Cells THEN "all" ELSE "part"
    /\ stale' = (IF fresh THEN Cells ELSE stale) \ Dirty
    /\ missed' = IF fresh THEN stale' ELSE missed \ Dirty
    /\ unseen' = (unseen \cup Dirty) \ Touched(Dirty)
    /\ fresh' = FALSE

\* The GPU fails, after the damage was taken.
RepaintFails ==
    /\ Dirty # {} /\ TakeDamage
    /\ painted' = "nothing"
    /\ missed' = missed \cup (stale \cap Dirty)
    /\ UNCHANGED <<stale, fresh, unseen>>

Frame ==
    /\ redraw /\ redraw' = FALSE
    /\ \/ ~visible /\ UNCHANGED <<full, damaged, lastLook, painted, missed, stale, fresh, unseen>>
       \/ visible /\ (SkipFrame \/ Repaint \/ RepaintFails)
    /\ UNCHANGED <<cursor, offset, selected, viewVars, woken>>

-----------------------------------------------------------------------------
TermInit ==
    /\ cursor = [row |-> 0, col |-> 0] /\ lastLook = cursor
    /\ offset = 0
    /\ selected = NoSelection
    /\ full = TRUE /\ damaged = {}
    /\ stale = Cells /\ missed = {}
    /\ fresh = TRUE
    /\ unseen = {} /\ painted = "nothing"
    /\ visible = TRUE /\ focused = TRUE
    /\ woken = FALSE /\ redraw = TRUE

Program == Type \/ Edit \/ ScrollUp
User    == \/ Scroll \/ StartSelection \/ ExtendSelection \/ ClearSelection
           \/ Resize \/ Focus \/ Show

TermNext == Program \/ User \/ Wakeup \/ Frame

\* The event loop handles what was sent to it, and a ping leads to a frame.
TermFairness == WF_termFrameVars(Wakeup) /\ WF_termFrameVars(Frame)

TermSpec == TermInit /\ [][TermNext]_termFrameVars /\ TermFairness
-----------------------------------------------------------------------------
(* Properties.                                                             *)

\* A frame of a terminal on view leaves nothing on the texture that is not up
\* to date, but for what `missed` names: a highlight that was cleared between
\* two frames, a character typed under a cursor that stayed, a texture that was
\* new and not filled, and what a frame should have painted that failed.  The
\* display is told of every cell that was repainted.
FrameCatchesUp ==
    [][redraw /\ ~redraw' /\ visible => stale' \subseteq missed' /\ unseen' = {}]_termFrameVars

\* Nothing is repainted while nothing changes, wherever the view is scrolled.
IdleIsSkipped ==
    [][redraw /\ ~redraw' /\ ~full /\ selected = NoSelection /\ damaged = {} /\ cursor = lastLook
          => painted' \in {"nothing", painted}]_termFrameVars

\* Output of the focused terminal on view is taken by a frame.
Waiting == full \/ damaged # {} \/ cursor # lastLook
OutputIsTaken == Waiting /\ visible /\ focused ~> ~Waiting \/ ~visible \/ ~focused

\* state.rs:846: "Only the focused ConsoleHut's content is currently visible";
\* a pane of a Tile-Hut and another output's terminal are as well.
VisibleIsTaken == Waiting /\ visible ~> ~Waiting \/ ~visible

\* mudhuts-term/src/lib.rs:283: "If anything changed since the last call
\* (content damage or an active selection): every changed cell's".
NothingMissed == missed = {}

\* gpu_term.rs:769: "Returns `true` if it was (re)created, meaning the whole
\* thing needs redrawing this frame."
FreshIsPainted == [][fresh /\ ~fresh' => painted' = "all"]_termFrameVars
=============================================================================
