----------------------------- MODULE PowerButton -----------------------------
(***************************************************************************)
(* The power button: clients bind and destroy power-button objects         *)
(* (handlers/power_button.rs), a press or release is reported to those     *)
(* bound at that moment (state.rs, notify_power_button), and when there is *)
(* none to report a press to, a timer waits for the button to be held long *)
(* enough to log out (input.rs).  The key is looked at before anything     *)
(* else an input event goes through, locked or not.                        *)
(***************************************************************************)
CONSTANT Clients  \* power-button objects, each of a client of its own

VARIABLES
    bound,     \* State::power_button_objects
    reported,  \* State::power_button_pressed_reported
    down,      \* is the button physically down
    hold,      \* State::power_button_hold_timer is pending
    stopped,   \* the event loop was told to stop
    told       \* what each object was last told of the button

powerVars == <<bound, reported, down, hold, stopped, told>>

PowerTypeOK ==
    /\ bound \subseteq Clients
    /\ reported \in BOOLEAN
    /\ down \in BOOLEAN
    /\ hold \in BOOLEAN
    /\ stopped \in BOOLEAN
    /\ told \in [Clients -> {"nothing", "pressed", "released", "bare release"}]

-----------------------------------------------------------------------------
\* Request::GetPowerButton
GetPowerButton(c) ==
    /\ ~stopped /\ c \notin bound
    /\ bound' = bound \cup {c}
    /\ told' = [told EXCEPT ![c] = "nothing"]
    /\ UNCHANGED <<reported, down, hold, stopped>>

\* (the bug of a mutant: the report dropped with any object)
ForgetsEarly(left) == FALSE

\* What is left of a report when an object goes: nothing once nobody is bound.
ReportedAfter(left) == reported /\ left # {}

\* Dispatch2::destroyed
Destroyed(c) ==
    /\ ~stopped /\ c \in bound
    /\ bound' = bound \ {c}
    /\ told' = [told EXCEPT ![c] = "nothing"]
    /\ reported' = ReportedAfter(bound \ {c})
    /\ UNCHANGED <<down, hold, stopped>>

\* start_power_button_hold_timer: should arming fail, the loop stops at once.
StartHold ==
    \/ hold' = TRUE /\ UNCHANGED stopped
    \/ hold' = FALSE /\ stopped' = TRUE

\* notify_power_button(pressed): with nobody bound the press is mudhuts' own.
Press ==
    /\ ~stopped /\ ~down
    /\ down' = TRUE
    /\ told' = [c \in Clients |-> IF c \in bound THEN "pressed" ELSE told[c]]
    /\ reported' = (reported \/ bound # {})
    /\ IF bound # {} THEN UNCHANGED <<hold, stopped>> ELSE StartHold
    /\ UNCHANGED bound

\* (the bug of a mutant: a release that leaves the timer pending)
HoldGoesOn == hold' = hold

\* cancel_power_button_hold_timer
CancelHold == hold' = FALSE

\* notify_power_button(released): only a press that was reported is followed
\* by a report of its release, to whoever is bound by then.
Release ==
    /\ ~stopped /\ down
    /\ down' = FALSE
    /\ CancelHold
    /\ told' = [c \in Clients |->
          IF reported /\ c \in bound
            THEN IF told[c] = "pressed" THEN "released" ELSE "bare release"
            ELSE told[c]]
    /\ reported' = FALSE
    /\ UNCHANGED <<bound, stopped>>

\* Is the hold still nobody's but mudhuts' when the timer fires.
StillUnbound == bound = {}

HoldFires ==
    /\ ~stopped /\ hold
    /\ hold' = FALSE
    /\ stopped' = StillUnbound
    /\ UNCHANGED <<bound, reported, down, told>>

-----------------------------------------------------------------------------
PowerInit ==
    /\ bound = {}
    /\ reported = FALSE
    /\ down = FALSE
    /\ hold = FALSE
    /\ stopped = FALSE
    /\ told = [c \in Clients |-> "nothing"]

PowerNext ==
    \/ \E c \in Clients : GetPowerButton(c) \/ Destroyed(c)
    \/ Press \/ Release \/ HoldFires

PowerSpec == PowerInit /\ [][PowerNext]_powerVars
-----------------------------------------------------------------------------
(* Properties. *)

\* The hold timer runs only during a press that no client was told of, so that
\* a client which binds late can neither be raced by it nor be blamed for it;
\* and it never outlives the press.
HoldIsUntold ==
    hold => down /\ ~reported /\ \A c \in bound : told[c] = "nothing"

\* No client is left thinking the button is down when it is up, whatever binds,
\* unbinds or exits while it is held.
NoStuckPress == ~down => \A c \in bound : told[c] # "pressed"

\* The session ends only while the button is held and nobody wants to know.
StopIsDeliberate == [][stopped' /\ ~stopped => down' /\ bound = {}]_powerVars

\* state.rs:720: "A `Released` is only ever actually sent if a matching
\* `Pressed` for the *same* press was already reported"; an object bound in the
\* middle of a press that was reported to another gets a bare one.
NoBareRelease == \A c \in bound : told[c] # "bare release"
=============================================================================
