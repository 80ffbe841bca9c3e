------------------------------ MODULE SeatInput ------------------------------
(***************************************************************************)
(* What a seat's keys and buttons do to the terminals (input.rs): a key    *)
(* typed into the focused hut's terminal repeats by a timer of mudhuts'    *)
(* own, a press of the left button starts a text selection or, once the    *)
(* program in the terminal asked for it, is reported to it.  All of it is  *)
(* taken away by a session lock or by an exclusive layer surface, which    *)
(* get the events instead, while timers and half-done drags stay behind.   *)
(* The power button goes above all of that (PowerButton).                  *)
(*                                                                         *)
(* A key that matches a binding, or that is a bare modifier, types nothing *)
(* and arms nothing; what bindings do to the view is ShowHut and           *)
(* ShowTerminal, which client requests and shell exits cause as well.      *)
(* Pointer motion is left out: it only reads what is modelled here.        *)
(***************************************************************************)
EXTENDS PowerButton, Naturals

CONSTANTS
    Huts,
    Keys,  \* keys that type something
    None

Buttons == {"left", "right"}

VARIABLES
    focused,    \* the focused hut
    terminal,   \* per hut: is the terminal its effective view
    reports,    \* per hut: does its program want mouse reports
    typed,      \* per hut: inputs written to its terminal, modulo 2
    locked,     \* State::locked
    exclusive,  \* is an exclusive Top or Overlay layer surface mapped
    held,       \* keys physically down
    repeat,     \* the repeat timer with what it captured, and its keycode
    buttons,    \* buttons physically down
    selecting,  \* State::text_selecting
    reporting   \* State::mouse_report_button_held

viewVars    == <<focused, terminal, reports>>
grabVars    == <<locked, exclusive>>
keyVars     == <<typed, held, repeat>>
pointerVars == <<buttons, selecting, reporting>>
seatVars    == <<viewVars, grabVars, keyVars, pointerVars>>
vars        == <<seatVars, powerVars>>

TypeOK ==
    /\ PowerTypeOK
    /\ focused \in Huts
    /\ terminal \in [Huts -> BOOLEAN]
    /\ reports \in [Huts -> BOOLEAN]
    /\ typed \in [Huts -> 0..1]
    /\ locked \in BOOLEAN
    /\ exclusive \in BOOLEAN
    /\ held \subseteq Keys
    /\ repeat \in [key : Keys, hut : Huts] \cup {None}
    /\ buttons \subseteq Buttons
    /\ selecting \in BOOLEAN
    /\ reporting \in Buttons \cup {None}

TerminalOnView == terminal[focused]
WriteInput(h)  == [typed EXCEPT ![h] = 1 - @]

-----------------------------------------------------------------------------
(* Keys. *)

\* cancel_terminal_repeat
CancelRepeat == repeat' = None

\* start_terminal_repeat replaces whatever repeated before; should arming the
\* timer fail, nothing repeats.
StartRepeat(k) == repeat' \in {[key |-> k, hut |-> focused], None}

KeyPress(k) ==
    /\ k \notin held
    /\ held' = held \cup {k}
    /\ IF ~locked /\ ~exclusive /\ TerminalOnView
         THEN typed' = WriteInput(focused) /\ StartRepeat(k)
         ELSE UNCHANGED <<typed, repeat>>
    /\ UNCHANGED <<viewVars, grabVars, pointerVars>>

\* A release that the lock or an exclusive surface takes stops nothing here.
KeyRelease(k) ==
    /\ k \in held
    /\ held' = held \ {k}
    /\ IF ~locked /\ ~exclusive /\ repeat # None /\ repeat.key = k
         THEN CancelRepeat ELSE UNCHANGED repeat
    /\ UNCHANGED <<typed, viewVars, grabVars, pointerVars>>

\* (the bug of a mutant: whichever hut is focused by now)
MayRepeatAnywhere == TerminalOnView /\ ~locked /\ ~exclusive

\* Does the tick still find things as they were when the key went down.
MayRepeat == focused = repeat.hut /\ TerminalOnView /\ ~locked /\ ~exclusive

\* One tick of the repeat timer, which drops itself otherwise.
RepeatTick ==
    /\ repeat # None
    /\ \/ MayRepeat /\ typed' = WriteInput(focused) /\ UNCHANGED repeat
       \/ ~MayRepeat /\ repeat' = None /\ UNCHANGED typed
    /\ UNCHANGED <<held, viewVars, grabVars, pointerVars>>

-----------------------------------------------------------------------------
(* Buttons, over the terminal unless chrome, a layer surface or a client's *)
(* window takes the press. *)

ButtonPress(b) ==
    /\ b \notin buttons
    /\ buttons' = buttons \cup {b}
    /\ \/ UNCHANGED <<selecting, reporting>>
       \/ /\ ~locked /\ TerminalOnView /\ reports[focused]
          /\ reporting' = b
          /\ UNCHANGED selecting
       \/ /\ ~locked /\ TerminalOnView /\ ~reports[focused] /\ b = "left"
          /\ selecting' = TRUE
          /\ UNCHANGED reporting
    /\ UNCHANGED <<viewVars, grabVars, keyVars>>

\* A release counts only over a terminal: one that wants reports gets it, for
\* whichever button, and otherwise the left one ends a selection's drag.
ButtonRelease(b) ==
    /\ b \in buttons
    /\ buttons' = buttons \ {b}
    /\ LET here == ~locked /\ TerminalOnView
       IN /\ reporting' = IF here /\ reports[focused] THEN None ELSE reporting
          /\ selecting' = (selecting /\ ~(here /\ ~reports[focused] /\ b = "left"))
    /\ UNCHANGED <<viewVars, grabVars, keyVars>>

-----------------------------------------------------------------------------
(* Everything else that happens to the seat. *)

\* SessionLockHandler::lock and unlock
Lock ==
    /\ ~locked
    /\ locked' = TRUE
    /\ CancelRepeat
    /\ UNCHANGED <<exclusive, typed, held, viewVars, pointerVars>>

Unlock ==
    /\ locked
    /\ locked' = FALSE
    /\ UNCHANGED <<exclusive, viewVars, keyVars, pointerVars>>

\* A layer surface with exclusive keyboard interactivity maps or unmaps.
Exclusive ==
    /\ exclusive' = ~exclusive
    /\ UNCHANGED <<locked, viewVars, keyVars, pointerVars>>

\* Another hut gets the focus: a binding, a click on a pane, the pointer on
\* another output, a shell exit.
ShowHut(h) ==
    /\ h # focused
    /\ focused' = h
    /\ UNCHANGED <<terminal, reports, grabVars, keyVars, pointerVars>>

\* A hut's view changes between its terminal and its windows.
ShowTerminal(h) ==
    /\ terminal' = [terminal EXCEPT ![h] = ~@]
    /\ UNCHANGED <<focused, reports, grabVars, keyVars, pointerVars>>

\* The program in a terminal asks for mouse reports, or for no more of them.
SetMouseMode(h) ==
    /\ reports' = [reports EXCEPT ![h] = ~@]
    /\ UNCHANGED <<focused, terminal, grabVars, keyVars, pointerVars>>

-----------------------------------------------------------------------------
Init ==
    /\ PowerInit
    /\ focused \in Huts
    /\ terminal = [h \in Huts |-> TRUE]
    /\ reports = [h \in Huts |-> FALSE]
    /\ typed = [h \in Huts |-> 0]
    /\ locked = FALSE
    /\ exclusive = FALSE
    /\ held = {}
    /\ repeat = None
    /\ buttons = {}
    /\ selecting = FALSE
    /\ reporting = None

SeatStep ==
    \/ \E k \in Keys : KeyPress(k) \/ KeyRelease(k)
    \/ RepeatTick
    \/ \E b \in Buttons : ButtonPress(b) \/ ButtonRelease(b)
    \/ Lock \/ Unlock \/ Exclusive
    \/ \E h \in Huts : ShowHut(h) \/ ShowTerminal(h) \/ SetMouseMode(h)

Next ==
    \/ PowerNext /\ UNCHANGED seatVars
    \/ ~stopped /\ SeatStep /\ UNCHANGED powerVars

Spec == Init /\ [][Next]_vars
-----------------------------------------------------------------------------
(* Properties. *)

\* No key goes on typing behind the lock screen.
LockStopsRepeat == locked => repeat = None

\* What a terminal receives without a key going down is the repeat of a key
\* that went down in that very hut, while its terminal is on view and nothing
\* else has taken the keyboard.
RepeatStaysInHut ==
    [][\A h \in Huts : typed'[h] # typed[h] /\ held' = held =>
          /\ repeat # None /\ repeat.hut = h
          /\ focused = h /\ terminal[h] /\ ~locked /\ ~exclusive]_vars

\* input.rs:1391: "Releasing the terminal's own currently-repeating key stops
\* its repeat".
RepeatNeedsKey ==
    [][typed' # typed /\ held' = held => repeat # None /\ repeat.key \in held]_vars

\* state.rs:171: a text selection is dragged with "left button held, no mouse
\* reporting active".
SelectingMeansHeld == selecting => "left" \in buttons /\ reporting = None
=============================================================================
