----------------------------- MODULE SessionLock -----------------------------
(***************************************************************************)
(* The screen lock of mudhuts --tty: handlers/session_lock.rs together     *)
(* with the parts of udev_backend.rs and state.rs that decide when the     *)
(* locker is told "locked" - the render pass of each crtc, vblanks, VT     *)
(* switches and monitors that come and go.                                 *)
(*                                                                         *)
(* One event-loop callback is one action.  What a frame shows is "locked"  *)
(* (built while State::locked, render.rs) or "content" (anything else).    *)
(*                                                                         *)
(* Indices count from 1 here and from 0 in the code.  Outputs are numbered *)
(* as they are created; 0 is the placeholder GraphStack::new starts with.  *)
(***************************************************************************)
EXTENDS Integers, FiniteSets, SequencesExt

CONSTANTS
    Crtcs,       \* the display controllers of the GPU
    Locks,       \* ext_session_lock_v1 objects clients may create
    Flaky,       \* crtcs on which rendering or queueing a frame may fail
    MaxPlugs     \* bound on the outputs created in a run

NoLock == "none"

ASSUME LockAssumption ==
    /\ Flaky \subseteq Crtcs
    /\ NoLock \notin Locks
    /\ MaxPlugs \in Nat

VARIABLES
    scanned,      \* connectors (by crtc) drm_scanner has reported connected
    surfaces,     \* Inner::surfaces, crtc -> SurfaceData
    slots,        \* the Output of each slot of GraphStack::outputs
    nextOutput,   \* number of the next Output::new
    idle,         \* crtcs whose first frame waits in insert_idle
    ping,         \* the redraw ping has been raised and not delivered
    active,       \* this VT is in front: the DRM device accepts commits
    flight,       \* what the frame queued on a crtc shows ("nothing": none)
    screen,       \* what a crtc scans out ("nothing": no frame of ours)
    locked,       \* State::locked
    holder,       \* State::accepted_lock (NoLock: None)
    pendingLock,  \* State::pending_lock is Some
    confirmed,    \* State::pending_lock_confirmed_outputs
    lockSurfaces  \* State::lock_surfaces, as <<output, lock>> pairs

hotplugVars == <<scanned, slots, nextOutput>>
kernelVars  == <<surfaces, flight, screen>>
lockVars    == <<locked, holder, lockSurfaces>>
waitVars    == <<pendingLock, confirmed>>
vars == <<hotplugVars, kernelVars, lockVars, waitVars, idle, ping, active>>

Outputs  == 0..MaxPlugs
Pictures == {"nothing", "content", "locked"}
Surfaces == [output : Outputs, index : Nat, framePending : BOOLEAN]

\* The crtcs that drive a display.
Plugged == DOMAIN surfaces

TypeOK ==
    /\ scanned \subseteq Crtcs
    /\ Plugged \subseteq scanned
    /\ surfaces \in [Plugged -> Surfaces]
    /\ slots \in Seq(Outputs)
    /\ nextOutput \in 1..(MaxPlugs + 1)
    /\ idle \subseteq Crtcs
    /\ ping \in BOOLEAN
    /\ active \in BOOLEAN
    /\ flight \in [Crtcs -> Pictures]
    /\ screen \in [Crtcs -> Pictures]
    /\ locked \in BOOLEAN
    /\ holder \in Locks \cup {NoLock}
    /\ pendingLock \in BOOLEAN
    /\ confirmed \subseteq Outputs
    /\ lockSurfaces \subseteq Outputs \X Locks

-----------------------------------------------------------------------------
(* A render pass over some crtcs.                                          *)

\* build_frame_elements: what a frame built now shows.
Wanted == IF locked THEN "locked" ELSE "content"

\* all_confirmed of confirm_pending_lock_if_ready.
SomeConfirmed(done) == ToSet(slots) \cap done # {}
AllConfirmed(done) == ToSet(slots) \subseteq done

\* What render_surface can come to on crtc c, given the surface table, the
\* screens and the state of the device it runs with.  The library refuses a frame while the device
\* is paused; it finds no damage only where the screen already shows it.
Results(c, surf, scr, act) ==
    IF c \notin DOMAIN surf \/ surf[c].framePending THEN {"skipped"}
    ELSE (IF act THEN {"queued"} ELSE {"failed"})
         \cup (IF act /\ scr[c] = Wanted THEN {"undamaged"} ELSE {})
         \cup (IF c \in Flaky THEN {"failed"} ELSE {})

\* The crtcs whose render result calls mark_this_output_confirmed.
MarkedOrFailed(result) == {c \in DOMAIN result : result[c] # "skipped"}
MarkedIfQueued(result) == {c \in DOMAIN result : result[c] = "queued"}
Marked(result) == {c \in DOMAIN result : result[c] \in {"queued", "undamaged"}}

\* render_surface on every crtc of cs, from the surface table, the frames in
\* flight and the screens the caller left: a queued or undamaged locked frame
\* confirms its output, and the last output confirmed answers the locker.
Render(cs, surf, fl, scr, act) ==
    \E result \in [cs -> {"skipped", "queued", "undamaged", "failed"}] :
        /\ \A c \in cs : result[c] \in Results(c, surf, scr, act)
        /\ LET queued == {c \in cs : result[c] = "queued"}
               marks  == IF locked /\ pendingLock
                         THEN {surf[c].output : c \in Marked(result)} ELSE {}
           IN  /\ surfaces' = [c \in DOMAIN surf |->
                     [surf[c] EXCEPT !.framePending = @ \/ c \in queued]]
               /\ flight' = [c \in Crtcs |->
                     IF c \in queued THEN Wanted ELSE fl[c]]
               /\ screen' = scr
               /\ confirmed' = confirmed \cup marks
               /\ pendingLock' =
                     (pendingLock /\ ~(marks # {} /\ AllConfirmed(confirmed')))

-----------------------------------------------------------------------------
(* The locker's requests.                                                  *)

Init ==
    /\ scanned = {}
    /\ surfaces = [c \in {} |-> 0]
    /\ slots = <<0>>
    /\ nextOutput = 1
    /\ idle = {}
    /\ ping = FALSE
    /\ active = TRUE
    /\ flight = [c \in Crtcs |-> "nothing"]
    /\ screen = [c \in Crtcs |-> "nothing"]
    /\ locked = FALSE
    /\ holder = NoLock
    /\ pendingLock = FALSE
    /\ confirmed = {}
    /\ lockSurfaces = {}

\* lock: a request made while locked is refused and changes nothing.
Lock(l) ==
    /\ ~locked
    /\ locked' = TRUE
    /\ holder' = l
    /\ lockSurfaces' = {}
    /\ confirmed' = {}
    /\ pendingLock' = TRUE
    /\ ping' = TRUE
    /\ UNCHANGED <<hotplugVars, kernelVars, idle, active>>

\* unlock: the library lets only the holder through, and only once told.
Unlock ==
    /\ locked
    /\ ~pendingLock
    /\ locked' = FALSE
    /\ holder' = NoLock
    /\ lockSurfaces' = {}
    /\ confirmed' = {}
    /\ pendingLock' = FALSE
    /\ ping' = TRUE
    /\ UNCHANGED <<hotplugVars, kernelVars, idle, active>>

\* new_surface: ignored unless it comes from the accepted lock and its
\* output still resolves; it replaces the output's earlier surface.
NewSurfaceOfAny(l, o) ==
    /\ locked
    /\ o \in ToSet(slots) \ {0}
    /\ lockSurfaces' = {s \in lockSurfaces : s[1] # o} \cup {<<o, l>>}
    /\ ping' = TRUE
    /\ UNCHANGED <<hotplugVars, kernelVars, waitVars, idle, active, locked, holder>>
NewSurface(l, o) ==
    /\ l = holder
    /\ o \in ToSet(slots) \ {0}
    /\ lockSurfaces' = {s \in lockSurfaces : s[1] # o} \cup {<<o, l>>}
    /\ ping' = TRUE
    /\ UNCHANGED <<hotplugVars, kernelVars, waitVars, idle, active, locked, holder>>

-----------------------------------------------------------------------------
(* Frames.                                                                 *)

\* request_redraw, from any of the handlers not modelled here.
RequestRedraw ==
    /\ ping' = TRUE
    /\ UNCHANGED <<hotplugVars, kernelVars, lockVars, waitVars, idle, active>>

\* The redraw ping is delivered: a pass over every crtc.
Redraw ==
    /\ ping
    /\ ping' = FALSE
    /\ Render(Plugged, surfaces, flight, screen, active)
    /\ UNCHANGED <<hotplugVars, lockVars, idle, active>>

\* The idle callback connector_connected left behind.
FirstFrame(c) ==
    /\ c \in idle
    /\ idle' = idle \ {c}
    /\ Render({c}, surfaces, flight, screen, active)
    /\ UNCHANGED <<hotplugVars, lockVars, ping, active>>

\* frame_finish: the queued frame reached the screen; render the next one.
Vblank(c) ==
    /\ flight[c] # "nothing"
    /\ Render({c}, [surfaces EXCEPT ![c].framePending = FALSE],
                   [flight EXCEPT ![c] = "nothing"],
                   [screen EXCEPT ![c] = flight[c]], active)
    /\ UNCHANGED <<hotplugVars, lockVars, idle, ping, active>>

-----------------------------------------------------------------------------
(* VT switches.                                                            *)

\* PauseSession: the frames in flight will never complete, and the screens
\* show another VT.  frame_pending stays as it is.
Pause ==
    /\ active
    /\ active' = FALSE
    /\ flight' = [c \in Crtcs |-> "nothing"]
    /\ screen' = [c \in Crtcs |-> "nothing"]
    /\ UNCHANGED <<hotplugVars, lockVars, waitVars, surfaces, idle, ping>>

\* ActivateSession: every frame_pending is dropped and every crtc rendered,
\* whether or not the device could be reactivated.
StillPending == surfaces
Resumed == [c \in Plugged |-> [surfaces[c] EXCEPT !.framePending = FALSE]]

Activate(ok) ==
    /\ ~active
    /\ active' = ok
    /\ Render(Plugged, Resumed, flight, screen, ok)
    /\ UNCHANGED <<hotplugVars, lockVars, idle, ping>>

-----------------------------------------------------------------------------
(* Monitors that come and go (the events of rescan_connectors).            *)

\* inner.surfaces.is_empty(): the new display takes over the slot left over.
NoDisplay == Plugged = {}

\* connector_connected on a desktop connector: a new Output takes over slot
\* 1 when no crtc drives a display, else it gets a slot of its own.  Its
\* first frame is left to an idle callback.
Connect(c) ==
    /\ c \notin scanned
    /\ active
    /\ nextOutput <= MaxPlugs
    /\ scanned' = scanned \cup {c}
    /\ nextOutput' = nextOutput + 1
    /\ slots' = IF NoDisplay THEN [slots EXCEPT ![1] = nextOutput]
                ELSE Append(slots, nextOutput)
    /\ surfaces' = [d \in Plugged \cup {c} |->
          IF d = c
          THEN [output |-> nextOutput, framePending |-> FALSE,
                index |-> IF NoDisplay THEN 1 ELSE Len(slots) + 1]
          ELSE surfaces[d]]
    /\ ping' \in (IF NoDisplay THEN {TRUE} ELSE {ping})
    /\ idle' = idle \cup {c}
    /\ UNCHANGED <<lockVars, waitVars, flight, screen, active>>

\* connector_connected without a display to show for it: a connector kept for
\* leasing, no usable mode, or the device (always when it is paused) or the
\* new slot's shell failing.  The scanner does not report it again.
ConnectFails(c) ==
    /\ c \notin scanned
    /\ scanned' = scanned \cup {c}
    /\ UNCHANGED <<slots, nextOutput, kernelVars, lockVars, waitVars, idle, ping, active>>

\* connector_disconnected for a crtc that never got a display.
DisconnectUnused(c) ==
    /\ c \in scanned \ Plugged
    /\ scanned' = scanned \ {c}
    /\ UNCHANGED <<slots, nextOutput, kernelVars, lockVars, waitVars, idle, ping, active>>

\* remove_output, then the index shift: the surfaces that are left.
Shifted(c) ==
    [d \in Plugged \ {c} |->
        IF surfaces[d].index > surfaces[c].index
        THEN [surfaces[d] EXCEPT !.index = @ - 1] ELSE surfaces[d]]

\* connector_disconnected for a display.  Its lock surface and confirmation
\* are purged; the slot goes too unless it is the last, in which case a
\* waiting locker is answered at once.
Disconnect(c) ==
    LET gone == surfaces[c].output
    IN  /\ c \in Plugged
        /\ scanned' = scanned \ {c}
        /\ lockSurfaces' = {s \in lockSurfaces : s[1] # gone}
        /\ confirmed' = confirmed \ {gone}
        /\ flight' = [flight EXCEPT ![c] = "nothing"]
        /\ screen' = [screen EXCEPT ![c] = "nothing"]
        /\ surfaces' = Shifted(c)
        /\ IF Len(slots) > 1
           THEN /\ slots' = RemoveAt(slots, surfaces[c].index)
                /\ pendingLock' =
                     (pendingLock /\ ~(ToSet(slots') \subseteq confirmed'))
                /\ ping' \in {ping, TRUE}
           ELSE /\ pendingLock' = FALSE
                /\ UNCHANGED <<slots, ping>>
        /\ UNCHANGED <<nextOutput, locked, holder, idle, active>>

-----------------------------------------------------------------------------
Next ==
    \/ \E l \in Locks : Lock(l)
    \/ Unlock
    \/ \E l \in Locks, o \in Outputs : NewSurface(l, o)
    \/ RequestRedraw
    \/ Redraw
    \/ \E c \in Crtcs : FirstFrame(c)
    \/ \E c \in Crtcs : Vblank(c)
    \/ Pause
    \/ \E ok \in BOOLEAN : Activate(ok)
    \/ \E c \in Crtcs : Connect(c)
    \/ \E c \in Crtcs : ConnectFails(c)
    \/ \E c \in Crtcs : DisconnectUnused(c)
    \/ \E c \in Crtcs : Disconnect(c)

Spec == Init /\ [][Next]_vars

\* The event loop delivers a raised ping and runs its idle callbacks; the
\* kernel completes a commit.  Clients, hands and hardware owe us nothing.
Fairness ==
    /\ WF_vars(Redraw)
    /\ \A c \in Crtcs : WF_vars(FirstFrame(c)) /\ WF_vars(Vblank(c))

LiveSpec == Spec /\ Fairness

-----------------------------------------------------------------------------
(* Safety.                                                                 *)

\* The index a surface keeps names the slot that holds its own Output, and
\* no other surface has it: hotplug never leaves a crtc drawing another
\* output's huts.  A slot without a display is the only slot.
SlotsFollowSurfaces ==
    /\ \A c \in Plugged : /\ surfaces[c].index \in DOMAIN slots
                          /\ slots[surfaces[c].index] = surfaces[c].output
    /\ \A c, d \in Plugged : surfaces[c].index = surfaces[d].index => c = d
    /\ \A i \in DOMAIN slots : \/ \E c \in Plugged : surfaces[c].index = i
                              \/ (Plugged = {} /\ Len(slots) = 1)

\* A display whose last frame, queued or shown, is not the session's.
Covered(c) == flight[c] = "locked" \/ (flight[c] = "nothing" /\ screen[c] # "content")

\* An output counts as confirmed only while its display is covered, so that
\* the wait ends with every display covered: monitors may come and go, frames
\* fail, and the VT switch in between.
ConfirmedAreCovered ==
    locked => \A c \in Plugged :
        (~pendingLock \/ surfaces[c].output \in confirmed) => Covered(c)

\* While a lock is accepted only its own surfaces are kept, one per output: a
\* refused locker never gets to show anything.
OnlyHolderShown ==
    /\ \A s \in lockSurfaces : s[2] = holder
    /\ \A s, t \in lockSurfaces : s[1] = t[1] => s = t
    /\ ~locked => lockSurfaces = {}

\* What is kept about displays and lock surfaces is sound: the types, a slot for
\* each surface after any hotplug, and no surface of a client that does not
\* hold the lock.
LockIsSound == TypeOK /\ SlotsFollowSurfaces /\ OnlyHolderShown

\* frame_pending is up on every crtc with a frame in flight, so that the frame
\* a pass builds is never behind one it does not know of; nothing is in
\* flight while the device is paused, or on a crtc without a display.
FramesTracked ==
    /\ \A c \in Plugged : flight[c] # "nothing" => surfaces[c].framePending
    /\ \A c \in Crtcs \ Plugged : flight[c] = "nothing" /\ screen[c] = "nothing"
    /\ ~active => \A c \in Crtcs : flight[c] = "nothing"

\* No two displays share an Output, and a new one is nobody's yet.
OutputsDistinct ==
    /\ \A c, d \in Plugged : surfaces[c].output = surfaces[d].output => c = d
    /\ \A c \in Plugged : surfaces[c].output < nextOutput

\* The inductive invariant: a lock is awaited only while it is held.
IInv ==
    /\ TypeOK
    /\ slots # <<>>
    /\ pendingLock => locked
    /\ ~locked => holder = NoLock
    /\ SlotsFollowSurfaces
    /\ OutputsDistinct
    /\ FramesTracked
    /\ ConfirmedAreCovered
    /\ OnlyHolderShown

\* The promise of LockPromise.tla, with the displays showing the session, now
\* or by a frame already queued, as its exposed set.
Phase == IF ~locked THEN "unlocked" ELSE IF pendingLock THEN "asked" ELSE "told"
Exposed == {c \in Plugged : ~Covered(c)}
Promise == INSTANCE LockPromise WITH
    Displays <- Crtcs, phase <- Phase, exposed <- Exposed
PromiseKept == Promise!Spec

-----------------------------------------------------------------------------
(* Liveness.                                                               *)

\* A locker that asked is answered, as long as there is a working display in
\* front: no order of frames in flight, hotplug and vblanks strands it.
LockConfirmed ==
    <>[](active /\ Plugged # {} /\ Plugged \cap Flaky = {}) => []<>~pendingLock

\* Whatever was in flight or pending when the lock changed, a working display
\* that stays ends up showing what it should, with no further request.
ScreensFollow ==
    \A c \in Crtcs \ Flaky :
        /\ <>[](active /\ c \in Plugged /\ locked) => <>[](screen[c] = "locked")
        /\ <>[](active /\ c \in Plugged /\ ~locked) => <>[](screen[c] = "content")
=============================================================================
