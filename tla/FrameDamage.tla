----------------------------- MODULE FrameDamage -----------------------------
(***************************************************************************)
(* How a change gets to a monitor, and how rendering comes to rest.        *)
(* Rendering is demand-driven (udev_backend.rs): a ping renders every      *)
(* monitor that has no frame in flight, a vertical blank renders its       *)
(* monitor again, and a frame is queued only when the display's damage     *)
(* tracking finds a difference.  Whether it does depends on caches that    *)
(* outlive frames: for each OUTPUT INDEX a texture with the tracker that   *)
(* knows what was drawn into it, and the record of its damage (render.rs,  *)
(* composite_normal_content); for each tab a label texture with its own    *)
(* (LabelCache).  A capture builds the same elements through the same      *)
(* caches, in between (handlers/capture.rs).                               *)
(*                                                                         *)
(* What a monitor has to show is a version of its content and of a title;  *)
(* the huts' own textures are TermFrames, the lock and VT switches         *)
(* SessionLock.  Smithay's damage tracking is external.                    *)
(***************************************************************************)
EXTENDS Integers, FiniteSets, SequencesExt

CONSTANTS
    Monitors,
    Modes,        \* sizes and scales of monitors
    MaxChanges,   \* bound: what happens to the program from outside
    MaxFaults,    \* bound: failures of the GPU and of the display
    None

Index == 1..Cardinality(Monitors)

\* What a texture may hold, what a monitor may show; a ContentTarget, and the elements of a
\* frame (whether the label and the popup are among them).
Contents == Monitors \X Nat \X Modes
Pictures == [content : Contents \cup {None}, label : Nat \cup {None}]
Targets  == [mode : Modes, shows : Contents \cup {None}, known : Contents \cup {None}]
Frames   == [content : Index \cup {None}, label : BOOLEAN, popup : BOOLEAN]

ASSUME BoundAssumption == MaxChanges \in Nat /\ MaxFaults \in Nat
ASSUME MonitorsAssumption == IsFiniteSet(Monitors) /\ Monitors # {} /\ Modes # {}
ASSUME NoneAssumption == None \notin Nat \cup Contents \cup Pictures \cup Targets \cup Frames

VARIABLES
    slots,      \* the connected monitors, by output index
    mode,       \* the size and scale each has
    version, title,     \* what a monitor has to show
    target,     \* TARGETS: of an output index, see Blank
    label,      \* LabelCache: the title its texture shows, or None
    news,       \* monitors that have not seen the last damage of their content,
    labelNews,  \*   of their label
    seen,       \* the elements of a monitor's last frame, or None
    screen,     \* what that frame shows
    pending,    \* SurfaceData::frame_pending
    pinged,     \* State::redraw_ping
    idle,       \* monitors with a first frame scheduled
    due,        \* monitors the running handler has still to render
    preview,    \* monitors whose popup shows a window's thumbnail
    picture,    \* what the last step captured, if nothing was left out, or None
    trouble,    \* monitors whose last frame failed to be built, or to be shown
    unasked,    \* history: monitors whose content changed while no frame of theirs was
                \* to come, and nobody has asked for one since
    changes, faults

worldVars == <<slots, mode, version, title, preview, changes>>
cacheVars == <<target, label>>
showVars  == <<seen, screen, pending, trouble>>
vars == <<worldVars, cacheVars, news, labelNews, showVars, pinged, idle, due, picture, unasked, faults>>

Connected == {slots[i] : i \in DOMAIN slots}
IndexOf(m) == CHOOSE i \in DOMAIN slots : slots[i] = m
Picture(m, size) == <<m, version[m], size>>
Now(m) == [content |-> Picture(m, mode[m]), label |-> title[m]]

TypeOK ==
    /\ slots \in Seq(Monitors) /\ IsInjective(slots)
    /\ version \in [Monitors -> Nat] /\ title \in [Monitors -> Nat]
    /\ mode \in [Monitors -> Modes]
    /\ target \in [Index -> Targets \cup {None}]
    /\ label \in [Monitors -> Nat \cup {None}]
    /\ {news, labelNews, pending, idle, due, preview, unasked} \subseteq SUBSET Monitors
    /\ pending \cup preview \subseteq Connected
    /\ seen \in [Monitors -> Frames \cup {None}]
    /\ screen \in [Monitors -> Pictures \cup {None}]
    /\ picture = None \/ picture.shows \in Pictures
    /\ trouble \in [Monitors -> {"none", "build", "show"}]
    /\ pinged \in BOOLEAN /\ changes \in 0..MaxChanges /\ faults \in 0..MaxFaults

-----------------------------------------------------------------------------
(* What is outside: clients, the terminal, the user, the connectors.       *)

InHandler == due # {}

\* Nobody asks for a frame of the monitor and none is under way.
Quiet(m) == ~pinged /\ m \notin due \cup pending \cup idle

\* request_redraw, and changes of contents that come without it.
Ask == pinged' = TRUE /\ unasked' = {}
ChangeUnasked(S) == unasked' = unasked \cup {m \in S : Quiet(m)}

Outside ==
    /\ ~InHandler /\ changes < MaxChanges
    /\ changes' = changes + 1
    /\ picture' = None
    /\ UNCHANGED <<faults, due>>

\* The content changes, and asks for a frame.
Draw(m) ==
    /\ m \in Connected
    /\ Outside
    /\ version' = [version EXCEPT ![m] = @ + 1]
    /\ Ask
    /\ UNCHANGED <<slots, mode, title, preview, cacheVars, news, labelNews, showVars, idle>>

\* A terminal on view that is not the focused hut is written to, on a monitor
\* without the focus or in another pane: its Wakeup asks for no frame.
DrawUnasked(m) ==
    /\ m \in Connected
    /\ Outside
    /\ version' = [version EXCEPT ![m] = @ + 1]
    /\ ChangeUnasked({m})
    /\ UNCHANGED <<slots, mode, title, preview, cacheVars, news, labelNews, showVars, pinged, idle>>

\* A window's title changes; nothing listens, so it is drawn with what comes next.
Retitle(m) ==
    /\ m \in Connected
    /\ Outside
    /\ title' = [title EXCEPT ![m] = @ + 1]
    /\ UNCHANGED <<slots, mode, version, preview, cacheVars, news, labelNews, showVars, pinged, idle, unasked>>

\* The Alt-Tab popup opens or closes over huts one of which shows a window.
Preview(m) ==
    /\ m \in Connected
    /\ Outside
    /\ preview' = IF m \in preview THEN preview \ {m} ELSE preview \cup {m}
    /\ Ask
    /\ UNCHANGED <<slots, mode, version, title, cacheVars, news, labelNews, showVars, idle>>

\* connector_connected: a monitor of any size, with new huts, and a first frame
\* when the loop is idle.  rescale_all brings the huts of all the others to its
\* scale too, if it is another one and until one of them fails; the focused
\* Output is what it was, so nobody asks for a frame of theirs.
Plug(m) ==
    /\ m \notin Connected
    /\ Outside
    /\ slots' = Append(slots, m)
    /\ \E size \in Modes : mode' = [mode EXCEPT ![m] = size]
    /\ \E rescaled \in SUBSET Connected :
         /\ version' = [o \in Monitors |-> version[o] + IF o \in rescaled \cup {m} THEN 1 ELSE 0]
         /\ ChangeUnasked(rescaled)
    /\ idle' = idle \cup {m}
    /\ UNCHANGED <<title, preview, cacheVars, news, labelNews, showVars, pinged>>

\* connector_disconnected, while another is left: the later ones move up, and no
\* cache that is kept by index moves with them; what is kept with the surface or
\* with the huts is gone.  sync_focused_output asks for a frame if it was the
\* focused Output that went; which one has the focus is not modelled.
Unplug(m) ==
    /\ m \in Connected /\ Len(slots) > 1
    /\ Outside
    /\ slots' = RemoveAt(slots, IndexOf(m))
    /\ label' = [label EXCEPT ![m] = None]
    /\ seen' = [seen EXCEPT ![m] = None]
    /\ screen' = [screen EXCEPT ![m] = None]
    /\ trouble' = [trouble EXCEPT ![m] = "none"]
    /\ pending' = pending \ {m} /\ preview' = preview \ {m}
    /\ news' = news \ {m} /\ labelNews' = labelNews \ {m}
    /\ Ask \/ (unasked' = unasked \ {m} /\ UNCHANGED pinged)
    /\ UNCHANGED <<mode, version, title, target, idle>>

-----------------------------------------------------------------------------
(* Building the elements of a monitor's frame.                             *)

\* A ContentTarget for a monitor that no one has drawn into.  `shows` is what the texture holds,
\* `known` what its tracker takes it to hold.
Blank(m) == [mode |-> mode[m], shows |-> None, known |-> None]

\* (the bug of a mutant: a target is never out of date)
AnyTarget(m) ==
    IF target[IndexOf(m)] = None THEN Blank(m) ELSE target[IndexOf(m)]

\* ensure_content_target, with output_index as the key
Target(m) ==
    LET kept == target[IndexOf(m)]
    IN  IF kept = None \/ kept.mode # mode[m] THEN Blank(m) ELSE kept

Drawn(m) ==
    LET drawn == Picture(m, Target(m).mode)
    IN  [Target(m) EXCEPT !.shows = drawn, !.known = drawn]

\* What render_output reports: the difference to what was drawn before.
Damaged(m) == Target(m).known # Drawn(m).known

\* (bugs of mutants: every build counts as damage; a damage bag of its own for
\* every build, which never has any)
AlwaysHeard(m) == {o \in Monitors : seen[o] # None /\ seen[o].content = IndexOf(m)}
NeverHeard(m) == {}

\* with_normal_content_damage and normal_content_id: the record outlives the
\* frame, so a monitor with this element in its last frame hears of the damage
\* in its next.
Heard(m) ==
    {o \in Monitors : Damaged(m) /\ seen[o] # None /\ seen[o].content = IndexOf(m)}

\* LabelCache::is_stale
IsStale(m) == label[m] # title[m]

\* The elements a build may come to; what fails is left out.
Elements(m) ==
    {[content |-> i, label |-> l, popup |-> m \in preview] :
         i \in {IndexOf(m), None}, l \in {TRUE, ~IsStale(m)}}
Whole(m) == [content |-> IndexOf(m), label |-> TRUE, popup |-> m \in preview]

\* composite_normal_content.  It fails for want of a buffer or a binding, or
\* while drawing, when the texture may hold anything and its tracker forgets.
Composite(m, e) ==
    \/ e.content # None /\ target' = [target EXCEPT ![IndexOf(m)] = Drawn(m)]
    \/ e.content = None /\ Target(m) # target[IndexOf(m)] /\ UNCHANGED target
    \/ e.content = None /\ target' = [target EXCEPT ![IndexOf(m)] = Target(m)]
    \/ e.content = None /\ target' = [target EXCEPT ![IndexOf(m)] = Blank(m)]

\* chrome::build, for one tab: a label that is out of date is rendered and stored.
Label(m, e) == label' = IF e.label /\ IsStale(m) THEN [label EXCEPT ![m] = title[m]] ELSE label

ContentNews(m, e) == news \cup (IF e.content # None THEN Heard(m) ELSE {})
LabelNews(m, e)   == labelNews \cup (IF e.label /\ IsStale(m) THEN {m} ELSE {})

\* What they look like: the texture, whatever it holds.
Shown(m, e) ==
    [content |-> IF e.content = None THEN None ELSE target'[e.content].shows,
     label   |-> IF e.label THEN label'[m] ELSE None]

\* build_frame_elements
Build(m, e) == Composite(m, e) /\ Label(m, e)

Fault(b) == faults' = faults + (IF b THEN 1 ELSE 0) /\ faults' <= MaxFaults

-----------------------------------------------------------------------------
(* render_surface.                                                         *)

\* What differs from the last frame.  A thumbnail counts as damaged whenever it
\* is asked for (hut_thumbnail_texture).
Differs(m, e) ==
    \/ seen[m] # e
    \/ e.content # None /\ m \in ContentNews(m, e)
    \/ e.label /\ m \in LabelNews(m, e)
    \/ e.popup

\* A monitor with a frame in flight is passed over.
Skip(m) ==
    /\ m \in due /\ (m \in pending \/ m \notin Connected)
    /\ due' = due \ {m} /\ picture' = None
    /\ UNCHANGED <<worldVars, cacheVars, news, labelNews, showVars, pinged, idle, unasked, faults>>

Turn(m) ==
    /\ m \in due /\ m \in Connected \ pending
    /\ due' = due \ {m} /\ picture' = None
    /\ UNCHANGED <<worldVars, pinged, idle, unasked>>

\* What was lost on the way to the monitor stays so until everything is new.
Outcome(m, e) ==
    IF e # Whole(m) THEN "build"
    ELSE IF trouble[m] = "show" /\ seen[m] # None THEN "show" ELSE "none"

\* No damage: nothing is queued, and the render chain ends.
Rest(m, e) ==
    /\ ~Differs(m, e)
    /\ news' = ContentNews(m, e) /\ labelNews' = LabelNews(m, e)
    /\ trouble' = [trouble EXCEPT ![m] = Outcome(m, e)]
    /\ UNCHANGED <<seen, screen, pending>>

Notice(m, e) ==
    /\ seen' = [seen EXCEPT ![m] = e]
    /\ news' = ContentNews(m, e) \ {m} /\ labelNews' = LabelNews(m, e) \ {m}

Queue(m, e) ==
    /\ Differs(m, e)
    /\ Notice(m, e)
    /\ screen' = [screen EXCEPT ![m] = Shown(m, e)]
    /\ pending' = pending \cup {m}
    /\ trouble' = [trouble EXCEPT ![m] = Outcome(m, e)]

\* render_frame or queue_frame fails: what the display's tracking makes of it
\* is external, it may take the frame as shown or forget all it knew.
QueueFails(m, e) ==
    /\ Differs(m, e)
    /\ \/ Notice(m, e)
       \/ /\ seen' = [seen EXCEPT ![m] = None]
          /\ news' = ContentNews(m, e) /\ labelNews' = LabelNews(m, e)
    /\ trouble' = [trouble EXCEPT ![m] = "show"]
    /\ UNCHANGED <<screen, pending>>

Render(m) ==
    /\ Turn(m)
    /\ \E e \in Elements(m) :
         /\ Build(m, e)
         /\ \/ Fault(e # Whole(m)) /\ (Rest(m, e) \/ Queue(m, e))
            \/ Fault(TRUE) /\ e = Whole(m) /\ QueueFails(m, e)

-----------------------------------------------------------------------------
(* What leads to it.                                                       *)

\* (the bug of a mutant: a vertical blank only ends the frame)
EndFrame(m) == {}

\* frame_finish renders its monitor again.
AfterBlank(m) == {m}

VBlank(m) ==
    /\ ~InHandler /\ m \in pending
    /\ pending' = pending \ {m}
    /\ due' = AfterBlank(m)
    /\ picture' = None
    /\ UNCHANGED <<worldVars, cacheVars, news, labelNews, seen, screen, trouble, pinged, idle, unasked,
                   faults>>

\* The redraw ping's handler goes through every crtc.
Ping ==
    /\ ~InHandler /\ pinged
    /\ pinged' = FALSE
    /\ due' = Connected
    /\ picture' = None
    /\ UNCHANGED <<worldVars, cacheVars, news, labelNews, showVars, idle, unasked, faults>>

FirstFrame(m) ==
    /\ ~InHandler /\ m \in idle
    /\ idle' = idle \ {m}
    /\ due' = {m}
    /\ picture' = None
    /\ UNCHANGED <<worldVars, cacheVars, news, labelNews, showVars, pinged, unasked, faults>>

\* capture_frame and render_capture: the same elements, drawn once more into a
\* buffer of its own; what comes of it is what the caches hold.  `picture` names
\* those a failed build left nothing out of.
Capture(m) ==
    /\ ~InHandler /\ m \in Connected
    /\ \E e \in Elements(m) :
         /\ Build(m, e)
         /\ news' = ContentNews(m, e) /\ labelNews' = LabelNews(m, e)
         /\ Fault(e # Whole(m))
         /\ picture' = IF e = Whole(m) THEN [of |-> m, shows |-> Shown(m, e)] ELSE None
    /\ UNCHANGED <<worldVars, showVars, pinged, idle, due, unasked>>

-----------------------------------------------------------------------------
Init ==
    /\ slots \in SeqOf(Monitors, Cardinality(Monitors)) \ {<< >>} /\ IsInjective(slots)
    /\ mode = [m \in Monitors |-> CHOOSE size \in Modes : TRUE]
    /\ version = [m \in Monitors |-> 0] /\ title = [m \in Monitors |-> 0]
    /\ target = [i \in Index |-> None] /\ label = [m \in Monitors |-> None]
    /\ news = {} /\ labelNews = {}
    /\ seen = [m \in Monitors |-> None] /\ screen = [m \in Monitors |-> None]
    /\ pending = {} /\ pinged = FALSE /\ due = {}
    /\ idle = Connected
    /\ preview = {} /\ picture = None
    /\ trouble = [m \in Monitors |-> "none"] /\ unasked = {}
    /\ changes = 0 /\ faults = 0

World ==
    \E m \in Monitors :
        Draw(m) \/ DrawUnasked(m) \/ Retitle(m) \/ Preview(m) \/ Plug(m) \/ Unplug(m)
Loop  == Ping \/ \E m \in Monitors : Render(m) \/ Skip(m) \/ VBlank(m) \/ FirstFrame(m)

Next == World \/ Loop \/ \E m \in Monitors : Capture(m)

\* The event loop finishes the handler it runs, and between two handlers none of
\* what has come is passed over for ever: the ping, the display's vertical
\* blanks, what was put off until it is idle.
Fairness ==
    /\ WF_vars(\E m \in Monitors : Render(m) \/ Skip(m))
    /\ SF_vars(Ping) /\ SF_vars(\E m \in Monitors : FirstFrame(m))
    /\ \A m \in Monitors : SF_vars(VBlank(m))

Spec == Init /\ [][Next]_vars /\ Fairness
-----------------------------------------------------------------------------
(* Properties.                                                             *)

\* Is the content on the screen what it has to be.
ShowsNow(m) == screen[m] # None /\ screen[m].content = Now(m).content

\* When nothing is asked for or under way, the monitor shows what it has to,
\* through captures, coalesced pings and renumbered outputs; but for a change
\* nobody asked a frame for, which waits for the next one whatever it is for, and
\* a failed frame, which is tried again only with the next ping.
RestIsCurrent ==
    \A m \in Connected : Quiet(m) /\ trouble[m] = "none" /\ m \notin unasked => ShowsNow(m)

\* The same, in states whose every record names monitors, modes and versions
\* that exist (the types).
RestIsSound == TypeOK /\ RestIsCurrent

\* A frame without a failure, queued or not, leaves the monitor as it has to be,
\* its title included.
FrameIsCurrent ==
    [][\A m \in Connected \ pending :
          m \in due /\ m \notin due' /\ trouble'[m] = "none" => screen'[m] = Now(m)]_vars

\* A capture shows the monitor as it is at that moment.
CaptureIsCurrent == picture # None => picture.shows = Now(picture.of)

\* udev_backend.rs:57: "Rendering is demand-driven": once nothing changes, no
\* frame is queued any more; but for a monitor with a thumbnail in its popup.
RenderingEnds == <>[](\A m \in Connected \ preview : Quiet(m))

-----------------------------------------------------------------------------
(* What the code's comments say and the code does not do.                  *)

\* state.rs:846: only the focused terminal is visible, so no other needs a frame;
\* state.rs:916: no hotplug changes a scale.  What a monitor shows at rest is
\* current, whatever changed it.
RestMeansCurrent == \A m \in Connected : Quiet(m) /\ trouble[m] = "none" => ShowsNow(m)

\* udev_backend.rs:57, of monitors with a thumbnail in their popup too.
ThumbnailsEnd == <>[](\A m \in Connected : Quiet(m))
=============================================================================
