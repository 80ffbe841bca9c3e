----------------------------- MODULE LockPromise -----------------------------
(***************************************************************************)
(* What ext-session-lock-v1 promises a locker, whatever screens come and   *)
(* go: from the moment it is told "locked" until it unlocks, no display    *)
(* shows, or is about to show, the session.                                *)
(*                                                                         *)
(* exposed is the set of displays the session's content is on, or will be  *)
(* on once the frames already handed to the kernel have been shown.        *)
(***************************************************************************)
CONSTANTS
    Displays     \* everything a frame can be shown on

VARIABLES
    phase,       \* "unlocked", "asked" (not told yet) or "told"
    exposed

vars == <<phase, exposed>>

Init == phase = "unlocked" /\ exposed = {}

\* Without a lock, displays show the session as they please.
Show ==
    /\ phase = "unlocked"
    /\ phase' = "unlocked"
    /\ exposed' \in SUBSET Displays

\* A locker asks; nothing is promised yet.
Ask ==
    /\ phase = "unlocked"
    /\ phase' = "asked"
    /\ UNCHANGED exposed

\* From then on displays may only be covered.
Cover ==
    /\ phase = "asked"
    /\ phase' = "asked"
    /\ exposed' \in SUBSET exposed

\* The locker is told once the last display is covered.
Tell ==
    /\ phase = "asked"
    /\ phase' = "told"
    /\ exposed' = {}

\* Only the locker that was told can end it.
Release ==
    /\ phase = "told"
    /\ phase' = "unlocked"
    /\ UNCHANGED exposed

Next == Show \/ Ask \/ Cover \/ Tell \/ Release

Spec == Init /\ [][Next]_vars
=============================================================================
