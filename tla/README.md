# mudhuts: a TLA+ model, its checks and its proofs

mudhuts is a Wayland compositor built around terminals ("huts"). Each physical
output shows one entry of a most-recently-used stack; an entry is a console (a
terminal with the client windows started from it) or a Tab/Tile wrapper around
further entries. This directory holds a TLA+ model of the parts of that program
where order matters, the TLC runs that check it and the theorems TLAPS proves
about it. Source paths below are relative to `src/mudhuts/src/` unless they name
another crate.

## 1. Inventory

The compositor is one thread: a calloop event loop (`main.rs`) that dispatches,
one after another and in batches, input events, Wayland requests, PTY events,
timers, redraw pings, DRM vblanks and session events. Nothing preempts a
handler, so a handler is an atomic step and what is hard is the *order* in which
handlers meet shared state. The portal and the authority helper are processes
of their own.

| Component | State | Operations | What makes it correct |
|---|---|---|---|
| `graph_stack.rs` GraphStack | per output: `huts`, `current`, `preview`; `focused_output` | walk, preview, commit, wrap, cycle, exit, hotplug | indexes in range, nobody's focus moves by accident, used huts are kept |
| `graph.rs` Graph | node arena, `next_id`, children lists, port links, per-frame cache | add/remove node, link, resolve | no dangling or doubled id; one answer per frame |
| `graph_nodes.rs`, `hut.rs` | `active`, `fracs`, `child_chrome` | cycle, focused_child, resolve | active in range, per-child data follows its child |
| `input.rs`, `keybindings.rs` | modifiers, hold timer, repeat timer, tab strip | key closure, actions, clicks, motion | one key goes to one place; a preview ends |
| `console_hut.rs`, `main_window.rs` | Main Windows, Floating Windows, Alerts, `active`, `showing_terminal`, `touched` | push, take, remove, cycle, close all | a window is in exactly one place; active in range |
| `handlers/xdg_shell.rs`, `handlers/shell.rs` | (the above, over all huts) | new/destroyed toplevel, retag | redundant retags change nothing |
| `handlers/session_lock.rs` | `locked`, `pending_lock`, confirmed outputs, lock surfaces | lock, unlock, new_surface | confirmed only when every output is blank, and eventually |
| `udev_backend.rs` | surfaces, `frame_pending`, `output_index`, leases, gamma | connectors, render, vblank, pause/activate | frames never stall; indexes follow hotplug |
| `handlers/power_button.rs`, `power_config.rs`, `logind.rs` | bound objects, pressed-reported | bind, destroy, notify | press/release pairs; no logout while a client handles it |
| `docks.rs`, `grabs.rs` | `dock_drag`, `dragging_hut_id` | start, advance, finish | a drag ends exactly once, on its own hut |
| `ownership.rs` | none (reads `/proc`) | find_owning_hut | terminates, env id wins only for a live hut |
| `render.rs`, `redraw.rs`, `space_element.rs`, `switcher.rs`, `village_chrome.rs`, `chrome.rs`, `theme.rs` | damage and label caches | build frame, purge | a visible change is damaged; no leaked entry |
| `gpu_term.rs`, `cursor.rs`, `winit_backend.rs` | GPU textures | draw | pixels |
| `mudhuts-term` | terminal grid, selection, damage | write, resize, take_dirty_cells | no lost damage |
| `mudhuts-portal` | sessions, one capture session, PipeWire threads | create, start, close, capture | the capture session is released exactly once |
| `mudhuts-authority-helper` | rules, toplevels | done, closed, try_tag | tagged once, in any order of arrival |
| configuration (`config.rs`, `perf_config.rs`, `chrome_config.rs`), `rt_sched.rs`, `malloc.rs`, protocol bindings, test clients | read at start-up | | |

How they interact. `input.rs` and the Wayland handlers call GraphStack methods;
GraphStack owns the Graph, whose Console nodes own the ConsoleHuts. A hut's PTY
is a channel source of the loop: its `Exited` event comes back through
`State::handle_term_event`, which calls `GraphStack::remove_exited`. The udev
backend calls `add_output`/`remove_output` on hotplug and walks the focused
entry of each output on every frame. Pointer motion moves `focused_output`.

Behaviours that are hard: exits, hotplug and frames between the key presses of
one preview session; spawns that fail halfway through a handler; wrappers that
collapse under someone's focus; `loop_signal.stop()`, which only takes effect
after the current dispatch batch; a lock confirmation pending across hotplug and
VT switches; timers that outlive what they were armed for; the portal's threads
and timeouts. `PROJECT.json` lists these as hazards at their lines.

## 2. Modules

| Module | Models | Abstract specification, proofs |
|---|---|---|
| `GraphStack` | the tree of huts and the per-output stacks | refines `MruStacks`; `GraphStack_proofs` |
| `SessionLock` | lock life cycle x outputs x frames x VT switches | refines `LockPromise`; `SessionLock_proofs` |
| `HutWindows` | client windows, tabs, nesting, docks, drags, keyboard focus | `HutWindows_proofs` |
| `SeatInput`, extending `PowerButton` | auto-repeat, selections, mouse reports; the power button above all of them | `SeatInput_proofs` |
| `Screen` | layer surfaces, window sizes, drawing order against press and pointer order | `Screen_proofs` |
| `TermFrames` | terminal damage, selection, repaint, failing frames | the end of `Frames_proofs` |
| `FrameDamage` | content targets, damage records, label caches, pings, vblanks, captures | `Frames_proofs` |
| `DrmLoans` | DRM leases and gamma ramps over hotplug and VT switches | `DrmLoans_proofs` |
| `ScreenCast` | the portal: D-Bus tasks, PipeWire threads, the Wayland thread | `Helpers_proofs` |
| `AuthorityTags` | the authority helper and the compositor over two queues | the end of `Helpers_proofs` |

Each `MCx` module instantiates `x` for TLC. The modules cut the one process
along the state they share little of, and each says at its top what it leaves
to which other. Where one needs another's behaviour it allows every outcome that
other could have: in `HutWindows` the view moves to any live hut (`GraphStack`
decides which), in `SeatInput` a hut's terminal comes on view or leaves it at
any time (`HutWindows`), in `FrameDamage` a content changes at any time
(`TermFrames`), in `SessionLock` a redraw is asked for at any time.

What is left of the plan: the port links of `graph.rs`, the process-ancestry walk
of `ownership.rs` and the pure geometry helpers of `docks.rs` against reference
definitions.

## 3. GraphStack: model and code

| Variable | In the code |
|---|---|
| `kind`, `children`, `nextId` | `Graph::nodes`, the `children` hut lists, `Graph::next_id` |
| `active`, `keyed` | `TabNode::active`/`TileNode::active`; keys of `TileNode::fracs`/`TabNode::child_chrome` |
| `touched`, `windowed` | `ConsoleHut::touched` flag; untouched huts with a Main Window |
| `outputs`, `focusedOutput` | `GraphStack::outputs` (`huts`, `current`, `preview`), `focused_output` |
| `hold` | whether the `stack-hold` modifier is down |
| `loop` | before `event_loop.run`, running, told to stop, stopped, panicked |

Indexes count from 1 and `preview = 0` is `None`. `StackNext` and `StackPrev`
are `handle_action`'s arms; the branches of `advance_forward` and
`advance_backward` are the operators `AdvanceEmpty`, `AdvanceOver`,
`AdvanceGrow`, `AdvanceDiscard`, `AdvanceReplace`, `RetreatOver`,
`RetreatDiscard`. `StackHold` selects the two ways they are used: by default no
stack-hold modifier is configured and a step moves `current`; with one it moves
`preview`, and the chord itself requires the modifier. `ReleaseHold` and
`LateCommit` are the closure's leading commit on a key event, `Wrap` is
`wrap_tab`/`wrap_tile`, `Exited` is `handle_term_event(Exited)` with
`remove_exited` and `remove_child`, and `AddOutput`/`RemoveOutput`/
`SetFocusedOutput` are what hotplug and pointer motion do to the stack.
`SpawnOutcomes` lets every spawn inside a handler succeed or, if
`SpawnMayFail`, fail. `Panic` is the look-up of `huts[current]` out of range,
by whichever handler or frame comes first.

Abstractions worth knowing:

- The commit that precedes a key press is a step of its own (`LateCommit`): a
  key release does that commit and nothing else, and a press that follows finds
  the same state. `Wrap` performs its own commit inside the action, as the code
  does.
- `TabNext` on a hut with two or more Main Windows cycles those instead and
  changes nothing here.
- `Graph::remove_node` also removes the id from other nodes' lists. No caller
  leaves it there (`ReferencedOnce`), so nothing is left to model.
- A failing `insert_channel` in `add_output`/`spawn_and_insert` (only when the
  loop is gone) is left out.
- Two Main Windows in one hut, window titles, sizes and pixels are left out;
  `windowed` keeps only what `touched()` reads.

**MruStacks** is what the stack promises a user, without the tree below the
entries, the two indexes or the modifier: per output a list of entries and which
of them is shown, and the output in focus. Walking (`Turn`, `Grow`, `Discard`)
never reorders the list and drops only what nobody used, and only what was
shown; settling (`Settle`) brings the entry shown to the front; a wrapper or the
survivor of one takes its entry's place (`Wrap`, `Survive`); when an entry closes
(`Close`), what was shown is still shown, or one next to it if it was the one
that closed; hotplug adds and takes away whole lists (`Plug`, `Unplug`). The
refinement mapping is `Mru` in GraphStack: `Stacks` shows the preview if one is
open and `current` otherwise, `Used` is `touched()`. `MruKept` states it. That an
open preview names an entry (`PreviewInRange`, proved by itself too) is part of
it: a stack turns to entries of its list only.

## 4. SessionLock: model and code

| Variable | In the code |
|---|---|
| `scanned` | what `drm_scanner` has reported connected |
| `surfaces` | `Inner::surfaces`: per crtc its `output`, `output_index`, `frame_pending` |
| `slots`, `nextOutput` | the `Output` of each slot of `GraphStack::outputs`; numbers for `Output::new` (0 is the placeholder) |
| `idle` | first frames left to `insert_idle` |
| `ping` | the redraw ping has been raised |
| `active` | this VT is in front and the DRM device takes commits |
| `flight`, `screen` | per crtc, what the queued frame and the scanned-out one show: `content`, `locked` or `nothing` (of ours) |
| `locked`, `holder`, `pendingLock`, `confirmed`, `lockSurfaces` | `State::locked`, `accepted_lock`, `pending_lock`, `pending_lock_confirmed_outputs`, `lock_surfaces` |

Every callback of the loop is one action: the three protocol requests, the
redraw ping (`Redraw`), the idle first frame, the vblank, pause and activate, and
the connector events. `Render` is `render_surface` over a set of crtcs; for each
it picks one of the outcomes the code distinguishes: skipped (no surface, or a
frame pending), queued, no damage, or failed. Queued and undamaged frames mark
their output confirmed while a lock is pending, and the last mark answers the
client. `flight` and `screen` are the kernel's side, which the code never reads;
they are there to say what a user sees.

External behaviour the model takes from how the code uses it:

- the library reports no damage only where the screen already shows what the
  frame would (comment at `udev_backend.rs:1247`);
- a paused device refuses frames and new outputs, and frames in flight at a
  pause never complete (comment at `udev_backend.rs:556`), nor is a late vblank
  of theirs delivered after a resume;
- `unlock` reaches the handler only from the holder and only once it was told
  (`session_lock.rs:40`);
- `Output::from_resource` resolves for as long as some slot holds the Output.

A request refused (`lock` while locked, a lock surface of another lock) changes
nothing and is no action. Several connector events of one rescan are separate
steps, which only adds interleavings. Which output is focused is not in this
module; where the redraw raised by `sync_focused_output` depends on it, both
cases are allowed. The winit backend confirms on its single output's first
locked frame and is not modelled.

**LockPromise** is what the protocol promises a locker, in terms of a phase
(unlocked, asked, told) and the set of displays exposing the session. A display
is exposed unless its last frame, in flight or else on screen, is a locked one
or nothing. `Promise` in SessionLock is the refinement mapping.

## 5. HutWindows: model and code

| Variable | In the code |
|---|---|
| `phase`, `focused` | which huts exist, `GraphStack::focused` |
| `life`, `asked` | toplevels that exist; those that were sent `close` when they lost their place |
| `mains`, `active`, `terminal` | `ConsoleHut::main_windows`, `active_main_window`, `showing_terminal` |
| `floating`, `alerts`, `docked` | the children lists of `MainWindowEntry`; which have `Dock::Docked` |
| `space` | the windows mapped in `ConsoleHut::space` |
| `keyboard` | the seat's keyboard focus, windows only |
| `button`, `clicked`, `dockDrag`, `grab`, `dragging` | the implicit grab, `State::dock_drag`, the `MoveSurfaceGrab`, `dragging_hut_id` |

`NewToplevel`, `ToplevelDestroyed`, `Retag` and `MoveRequest` are the client's
requests, `Press*`, `StartDrag`, `DragMotion`, `Release`, `ToggleTerminal` and
`CycleTab` the user's, `HutExit`, `Frame` and `Thumbnail` the compositor's own.
Every request and input event ends with `sync_keyboard_focus_to_view`, which is
part of the action. Hut ids are never used twice in the code; here an id that no
drag refers to any more stands for the next hut, and `MaxLive` bounds how many
live at a time. There is one button, positions and sizes are left out, all
windows may be each other's Main Window (they belong to one client or the shell
authority tags them), and lock and layer surfaces are left to other modules.

Observations that follow from the code and that no property forbids:

- a sync that is skipped because the hut is being dragged is not made up for
  when an Alert's grab or a dock drag that never detached ends;
- destroying a Floating Window or an Alert does not rebuild the space; the next
  frame drops the dead window, without repairing the keyboard;
- `finish_drag` runs on the release of any button.

## 6. PowerButton and SeatInput: model and code

`PowerButton` has `bound`, `reported`, `hold` (`power_button_objects`,
`power_button_pressed_reported`, `power_button_hold_timer`), the physical button
(`down`), what each object was last told (`told`), and `stopped`. One action
each: bind, destroy, press, release, the timer. `SeatInput` extends it with the
keys (`held`, `repeat`, `typed`), the buttons (`buttons`, `selecting`,
`reporting`) and the view they act on (`focused`, `terminal`, `reports`,
`locked`, `exclusive`). `typed` counts modulo 2: a step that writes to a
terminal is a step that changes it. Arming a timer may fail, as in the code.

While the session is locked without a lock surface, key events are dropped
before they reach the keyboard's own state (`input.rs:878`), so it misses
releases; only physical keys are modelled here.

## 7. Screen: model and code

A display is a few rows of two columns. Layer surfaces hang from the top edge in
the order they were mapped and reserve their exclusive zone; what is left is
`Usable`, which Main Windows are configured to (`size`) and their hut's space
maps them below (`at`). `Drawn` is the order of `build_frame_elements`,
`Receiver` that of `try_click_chrome` and the branches of a button press,
`SurfaceUnder` that of `surface_under`. `PlugInstead` is the monitor that takes
over the slot the last one left behind. `replaced` is a history variable: huts
whose display was replaced and that were not configured since.

The library's layer map (`Above`, `Covers`, `RowsOfLayer`, and the zones added
up by `Zones`, `Taken` and `PlaceOf`) and window space (`InSpace`) are external; Top and Overlay count as one, Bottom and Background as
the other. Observations:

- a monitor that takes the place of the last one reconfigures no window
  (`connector_connected` only resizes terminals), hence `\ replaced`;
- a press within a tile is a pane click even under a Top layer surface, and the
  strip is drawn above Top layer surfaces;
- a press over the terminal beside it, on a Bottom layer surface, goes to the
  terminal;
- a layer surface that gives up its interactivity keeps the keyboard until
  something else takes it; after the focused display was unplugged nothing
  repairs the keyboard before the next event;
- a revealed strip may outlive a change of its height until the next motion;
- nothing moves the pointer when a monitor goes or is replaced: it may be below
  the new one's last row until it moves. `StripStaysHome` therefore says, of
  every step that changes the focused Output (a replaced monitor is another
  Output in the same slot), that the strip is hidden, unless it was a motion
  that ends at the edge (`MonitorsUnchanged`).

## 8. TermFrames: model and code

| Variable | In the code |
|---|---|
| `cursor`, `offset`, `full`, `damaged`, `lastLook` | the terminal library's grid and its damage state |
| `selected` | `Terminal`'s selection, as the cells it highlights |
| `fresh`, `stale` | the renderer's texture: to be created, cells it is behind on |
| `unseen` | cells repainted but not reported to the display's damage tracking |
| `woken`, `redraw` | `TermEvent::Wakeup` in the channel, the redraw ping |
| `painted`, `missed` | history: what the last frame repainted; stale cells no record is left of |

`Type`, `Edit`, `ScrollUp` and `CursorDamage` are the terminal library, modelled
from the comments in `take_dirty_cells` on what it reports. `Frame` is
`ConsoleHut::redraw`: `Dirty` is `take_dirty_cells`, `Repaint` and
`RepaintFails` are `GpuTermRenderer::redraw`. `missed` names the cells the code
loses track of, so that `FrameCatchesUp` can say that nothing else is lost.

## 9. FrameDamage: model and code

| Variable | In the code |
|---|---|
| `slots`, `mode` | the outputs in order, their size and scale |
| `version`, `title` | what a monitor has to show: its content's and a label's |
| `target` | the content texture and tracker of each output **index** (`TARGETS`) |
| `label` | `LabelCache`: what the label's texture was rendered from |
| `news`, `labelNews` | monitors that have not seen the last recorded damage |
| `seen`, `screen`, `pending` | the last frame's elements, what it shows, `frame_pending` |
| `pinged`, `idle`, `due` | the redraw ping, first frames left to `insert_idle`, monitors the handler still has to render |
| `preview` | monitors whose Alt-Tab popup shows a window's thumbnail |
| `picture`, `trouble` | history: the last step's capture, if nothing was left out of it; which frame failed |
| `unasked` | history: monitors whose content changed while no frame of theirs was to come, and nobody has asked for one since |

`Build` is `build_frame_elements` with `Composite` (`composite_normal_content`)
and the labels; `Render` is one monitor's `render_surface` (`Queue`, `Rest`,
`QueueFails`), `Capture` the capture handler, which builds through the same
caches. What a frame that the display refused leaves in the library's own
tracker is external and may be anything. At the start any of the monitors are
connected. A change asks for a frame (`Draw`) or does not: `DrawUnasked` is the
output of a terminal that is on view but not focused, and `Plug` ends in
`rescale_all`, which rebuilds the huts of every monitor, while only the new one
gets a first frame. `Plug` draws the set of monitors whose content this changes,
since it stops at the first hut that fails and changes nothing at an equal
scale. `Unplug` asks for a frame only if the focused Output went
(`sync_focused_output`); which monitor has the focus is not modelled, so it may
or may not. Besides failed frames `RestIsCurrent` excepts `unasked` only. Observations:

- after a hotplug the other monitors show their huts at the old scale until
  something else asks for a frame (`RestMeansCurrent`, section 16);
- a title that changes asks for no frame and is drawn with the next one;
- labels are keyed by title and activity, not by scale: tabs keep their
  old-size labels after a hotplug rescaled all huts, while `state.rs:916` still
  says there is "no hotplug-driven rescale";
- a failed frame is tried again only with the next ping.

## 10. DrmLoans: model and code

`crtcOf` is the connector scanner's view, `surface` and `bound`
`Inner::surfaces` with `gamma_control_bound`, `leasable`
`non_desktop_connectors`, `lease` and `control` the protocol objects, `ramp` the
hardware. `GrantLease`/`DenyLease` are `lease_request`, `GrantControl`,
`SetGamma` and `ControlDestroyed` the gamma handler, `PauseSession` and
`ActivateSession` the VT switch. `KernelAgrees` is external: the kernel leases
an object once, and only to the master. `outlived`, `orphan` and `stained` are
history variables that name the exceptions of `GivenBack` and `LentOnce`:

- a lease whose headset was unplugged keeps its CRTC until its client destroys
  it;
- a gamma control whose monitor was unplugged is not told; it still sets and
  restores the ramp of whichever monitor has the CRTC then;
- a control destroyed on another VT cannot restore its ramp, nothing sets a ramp
  again after a switch, and a monitor whose initialisation failed is not retried.

## 11. ScreenCast: model and code

`session` is the portal's session table, `call`, `of`, `size` and `node` a Start
in progress with its two reply channels, `thread` and `quit` the PipeWire thread
it spawned, `jobs` and `capture` the Wayland thread's queue and its one capture
session (`AppState::cast`). A step is what a task or thread does between two
waits. `GiveUp` may come any time before the node id, which covers the five
seconds' timeout. The thread's main loop and the data thread PipeWire runs the
stream on are one thread here, so a frame and a change of the stream's state are
never handled at once. `create_session` exports its session object without fail;
in the code a failed export takes the new entry out of the table again and
answers with an error. A frontend is assumed to use a session handle again only once
Close was answered. Observations:

- one capture session serves all: a second session's Start is refused while one
  casts (`wayland.rs:427`);
- a handle that is used again while an old Start of it is in flight gets that
  Start's cast;
- a frame asked for by a cast that is being closed may come from the next one;
- after its output was unplugged and plugged again, a cast's frames fail for the
  rest of its life (comment at `udev_backend.rs:967`).

## 12. AuthorityTags: model and code

`place` and `handle` are the compositor's Main Windows and children with their
foreign-toplevel handles; `app` is what the client has set by now, while a
handle keeps the app id of the moment it was minted. `known` is the helper's
`toplevels`; `events` and `requests` are the two sockets, bounded by `MaxEvents`
and `MaxRequests` in the guards of those who fill them. `TakeEvent` is the
helper's dispatch with `try_tag_all`, `TakeRequest` the compositor's
`set_floating`/`set_alert` with `resolve_by_identifier`. Identifiers are never
used twice in the code; the model uses one again once nothing refers to it, and
mints none while all are in use (`MayMint`).
`TaggedByRule` speaks of the app ids windows were announced under, with what the
clients have set since beside them.
Observations:

- a request that names a window re-tagged meanwhile is a protocol error, which
  ends the helper's connection;
- tagging a window closes the windows nested below it;
- a rule with an empty side is accepted by `parse_rule`, and an app id that was
  not set is empty (`ToplevelInfo::app_id`): such a rule matches every window
  that was announced before its client set one;
- two windows that are each other's rule can be tagged for ever (`RequestsEnd`),
  although `main.rs:65` says a toplevel is tagged once: every re-tag to a Main
  Window mints a new handle.

## 13. Runs

| Run | Instance | Distinct states | Shows |
|---|---|---|---|
| `instant` | 5 nodes, 2 outputs, 1 autostarted, 1 with a window; no hold modifier, spawns may fail | 155,432 | the tree is sound, `current` in range, exits move nobody else's focus, used huts survive |
| `preview` | 5 nodes, 3 outputs; hold modifier | 240,263 | MruStacks implemented, previews not moving the focus, wraps during a preview, unplugging one of three outputs |
| `lock` | 2 crtcs, one flaky, 2 lockers, 3 outputs; fairness | 108,814 | covered when confirmed, sound slots and surfaces, LockPromise implemented, a locker is answered, displays end up right |
| `windows` | 3 windows, 3 huts, 2 at a time | 149,787 | one place per window, nothing forgotten, the drag mark, keyboard and tab stay with what is seen |
| `seat` | 2 power-button clients, 2 huts, 2 keys | 946,176 | no bare timers, no stuck press, a repeat stays in its hut |
| `screen` | displays of 3 and 2 rows, 2 huts, a panel and a wallpaper, auto-hidden strip | 279,233 | windows fit, drawing order = press order = pointer order, the strip stays home |
| `terminal` | 2 x 2 cells, 1 line of history; fairness | 379,125 | nothing stale unnoticed, idle frames skipped, output drawn |
| `frames` | 2 monitors, 2 modes, 2 changes, 1 failure; fairness | 665,370 | current at rest (silent changes excepted) and when captured, rendering ends |
| `loans` | monitor, headset, visor, internal panel; 2 crtcs, 2 leases, 3 gamma controls | 798,432 | lent once, given back |
| `portal` | 2 sessions, 2 Starts; fairness | 116,560 | one owner of the capture, no lost cast, every Start answered, abandoned casts end |
| `helper` | 3 windows of 2 huts, 1 rule, queues of 2; fairness | 202,255 | the helper keeps up, tags follow rules |
| `appid` | the same | | *violated*: a window whose app id is set later is never tagged |

Bounds, and why they are enough:

- GraphStack: `MaxNodes` bounds how many nodes are ever allocated (ids are never
  reused, in the code either). A nested wrap needs five: a console, a wrap of it
  (two more) and a wrap inside that one (two more), the smallest tree where a
  collapse happens under a surviving wrapper. Two outputs suffice for a handler
  to hit the wrong one, three for an index shift that a clamp alone gets wrong.
- SessionLock: with two crtcs one display is confirmed while the other is not,
  and an index shifts; `MaxPlugs` = 3 outputs lets one be replugged, so that a
  slot is reused.
- HutWindows: three windows make a Main Window with a child next to another tab,
  an index in front of and behind a removal; three huts, two of them alive at a
  time (`MaxLive`), a drag whose hut exits while the view is on a second and a
  third is spawned.
- SeatInput: two clients bind on either side of a press; the second key repeats
  in place of the first.
- Screen: two displays of different heights, two huts to tile or to put on
  either display; the panel sits above the content, the wallpaper below it.
- TermFrames: two rows and columns tell a line, a column span and the bounding
  box of two cells apart; one line of history is enough to be scrolled back.
- FrameDamage: since any monitors may be connected at the start, `MaxChanges` =
  2 lets a monitor go and another take its index, a content change beside a
  hotplug, or one be asked for after one that was not; `MaxFaults` = 1 puts a
  failure at any one place.
- DrmLoans: two crtcs are fewer than the connectors, so that they are fought
  over; three controls let one be orphaned, one hold its CRTC and one ask.
- ScreenCast: a Start is named by its call, and a call is free again once
  nothing of it is left, so the two of them are two at a time.
- AuthorityTags: the rule's target and main in one hut, and a second candidate
  in another hut.

Deadlock checking is off where the system may stop or the bounds end a behaviour:
`seat` (the session was ended), `helper`/`appid` and `frames` (the windows, or
the changes, are used up). Symmetry is used in the safety runs `windows`,
`seat`, `screen` and `loans` only.

## 14. Fairness and liveness

GraphStack, HutWindows, SeatInput, Screen and DrmLoans state no fairness: their
steps react to the user, to clients, to shells or to hardware, none of which the
code can oblige to act.

- SessionLock (`LiveSpec`): weak fairness of `Redraw`, `FirstFrame(c)` and
  `Vblank(c)`: calloop delivers a raised ping and runs idle callbacks on its
  next turns, and the kernel completes an accepted commit. Nothing is assumed of
  lockers, VT switches, monitors or frames on flaky crtcs, so `LockConfirmed` is
  conditional on the VT being in front with only working displays from some
  point on, `ScreensFollow` on one working display that stays.
- TermFrames: weak fairness of `Wakeup` and `Frame`, for the same reason.
- FrameDamage: weak fairness of the running handler; strong fairness of the
  ping, of the first frame and of each monitor's vertical blank, since they
  are enabled only between two handlers and the loop, which polls all its
  sources every turn, passes none of them over for ever.
- ScreenCast: weak fairness of the Wayland thread, of every task (whose timeout
  comes) and of a thread's set-up; strong fairness of a thread's `Quit`, because
  it is read between two frames that may go on coming. Nothing is assumed of
  PipeWire's state changes or of the frontend.
- AuthorityTags: weak fairness of both processes reading their sockets.

## 15. Proofs

Every module has its
safety properties proved, for every value of its constants. The argument is the
same everywhere: an inductive invariant `IInv` that adds to the property what it
rests on; `Init => IInv`; `IInv /\ [Next]_vars => IInv'`, with a lemma for each
action or for each part of `IInv`; and the property from `IInv`, an action
property from one more look at the actions that could break it. What follows
names, for each module, what the property alone lacks.

**GraphStack** (`GraphStack_proofs`). Three invariants, each on top of the one
before.

    IInv    == TypeOK /\ GraphInv /\ SlotInv
    TreeInv == Forest(Tops, Below, LiveNodes) /\ injective lists /\ KeyedByChildren
    ShownInv == for every output, Pos(slot) <= MaxIndex(Len(slot.huts))

- `TypeOK` alone is not inductive: a fresh id has to be unused (`GraphInv`: ids
  at or past `nextId` name nothing), a wrapper must have exactly two children
  for its collapse to leave one survivor and for `active` to stay in range
  (`WrappersArePairs`), and an index is only safe under a removal if it was in
  range before (`SlotInv`). `SlotInv` also records that with a hold modifier
  `current` is the first entry for good and without one no preview is ever open,
  so the two walks cannot disturb each other's index. From it: `TypeCorrect`,
  `WrappersStayPairs`, `CurrentStaysInRange`, `StackStaysNonEmpty`,
  `PreviewStaysInRange`, `UsedHutsAreKept`, `UnplugIsLocal`.
- `TreeInv` says that the graph is a forest: every live node is in exactly one
  place, an output's list or a node's children; nothing else is in any; what has
  children is live; and it is `Grounded`, no set of nodes has all its parents
  inside itself, which is how the absence of cycles is put without a path. Each
  operation on the graph (adding a root, dropping one, wrapping, replacing a node
  by its survivor) is shown to keep a forest as a lemma on sets and functions
  alone, and the handlers are compositions of them. The walk down the active
  children (`FocusedPath`) and being below an entry (`Under`) follow by
  induction over the depth; a node is under one entry only, so what happens
  under another leaves a walk as it was. From it: `TreeStaysSound`,
  `FocusStaysOnConsole`, `KeysStayWithChildren`, `PreviewsKeepFocus`,
  `ExitsKeepOtherFocus`, `WrapsKeepFocus`.
- `StacksAreMru` is the refinement, `Spec => MruKept`: one lemma per handler that
  finds the step of MruStacks it is. `SlotInv` bounds the indexes only until the
  loop is being stopped, and events of the last batch still arrive after that;
  `ShownInv` is what holds on: what is shown is in the list, or the first place
  of an empty one. It is kept by every step of MruStacks, whichever handler took
  it (`MruKeepsShown`), so the two are proved together. That an entry a handler
  brings in was listed nowhere is where `TreeInv` is needed: fresh ids name
  nothing, and a survivor was a child and so on no output's list.

**SessionLock** (`SessionLock_proofs`). `ConfirmedAreCovered` needs
`FramesTracked` (a crtc without `frame_pending` has nothing in flight, and none
has while paused): otherwise a locked frame could be marked while an older
session frame is still to come; `OutputsDistinct`, so that confirming one
display's Output says nothing of another's; and `SlotsFollowSurfaces`, so that
all slots confirmed means all displays confirmed. All steps that render go
through one lemma, `RenderStep`, from what a pass does (`RenderFacts`). From it
`LockSafe` and `LockStaysSound`. `PromiseHolds` is the refinement, `Spec =>
Promise!Spec`: every step either asks, releases, or keeps the lock and uncovers
nothing (`QuietStep`), a step of LockPromise or a stutter.

**SeatInput** (`SeatInput_proofs`). `NoStuckPress` alone is not inductive: a
release tells everybody exactly when `reported` is set, so it needs
`PressedIsReported` (whoever was told of a press is the reason why it counts as
reported) and `ReportIsCurrent` (a report is of the press under way and somebody
who got it is still bound; this is what a reset in `destroyed` is for).
`HoldStaysUntold`, `NobodyStuck` and `StopDeliberate` follow. `RepeatInHut` goes
action by action: only a tick writes without a key going down, and it looks
again at everything the key press looked at; `LockStops` and `TypeCorrect` are
its invariants.

**HutWindows** (`HutWindows_proofs`). `IInv == ListsHalf /\ ViewHalf`. The lists'
half is about sets: which toplevels a hut's tabs and children hold, that each
live one is in one place or was asked to close, and that the active tab is one
of the tabs; every operation on the lists (tagging, docking, closing, promoting
the children) is first a lemma about those sets. The view's half is what the
space, the keyboard, the mark and the drags have to do with them; the two
resyncs that most handlers end with recompute it from the lists (`SyncedView`).
From it `WindowsStaySound`, `NobodyForgotten`,
`MarkFollowsDrag`, `KeyboardStaysOnView`, `TabsAreKept`.

**Screen** (`Screen_proofs`). `LayoutIsSound` compares a window's size with the
height its display leaves, a sum over the layer map. It needs: every display
shows an entry of its own stack (`HomesInv`), a layer surface is in one layer
map at most (`LayersInv`), a window its hut's space has mapped is there and in
front of the terminal (`AtInv`), and windows fit (`WindowsFit`). The sums are followed through each
operation by induction over the map: a commit on one display leaves the zones of
others, a new surface takes no room before its first commit, an unmapped one
gives back exactly what it took. `PressesAreDrawn` rests on types and homes
only, `DrawnAreHit` on `AtInv` besides, `StripsStayHome` on none: it is a case
analysis of the steps that change the focused Output.

**FrameDamage** (`Frames_proofs`). `RestIsCurrent` speaks of monitors at
rest, and has to be prepared while they are not: what a target's tracker takes
the texture to hold, it does hold (`KnownIsHeld`); unless a monitor has news to
come its last frame shows what the target it refers to was last drawn with
(`SeenIsShown`); and a frame that was taken as shown but was not had everything
in it (`LostWasWhole`), so a later one that lacks something differs from it.
A step that changes a content either asks for a frame or, if none is to come,
puts the monitor into `unasked`; one that does neither leaves those at rest as
they were (`StillCurrent`).
From it `RestStaysSound`, `CapturesAreCurrent`, `FramesAreCurrent`.

**TermFrames** (the end of `Frames_proofs`).
`FrameCatchesUp` needs that a cell the texture is behind on is either given up
or will be reported at the next look (`NothingLost`). Typing reports nothing of
its own, only where the cursor was at the last look and is now: so the cursor
has to have come to its place by typing, from there or from a recorded cell to
its left (`CursorAnchored`), or a character typed after an edit could fall
outside the span. That the cells between two ends are no more than the span of
the two (`SpansOfEnds`) makes `Reported` monotone. From it `FramesCatchUp`;
`IdleFramesSkip` needs the types only.

**DrmLoans** (`DrmLoans_proofs`). `IInv == TypeOK /\ HotplugInv /\ LeaseInv /\
GammaInv`: the scanner's connectors have CRTCs of their own and agree with
surfaces and offers; leases are apart, of headsets still offered unless one was
unplugged, and revoked while away; and a gamma control whose monitor nobody
unplugged has its surface, its flag and a plain ramp to restore. From it `LoansAreExclusive` and `LoansAreReturned`.

**ScreenCast** (`Helpers_proofs`). `IInv == TypeOK /\ QueueInv /\ OwnInv /\
ThreadInv`: a job is queued once and only for a Start or a thread that waits for
it; who answers for the capture session is who has it, in one of three ways
(the Start that is being set up, the session, or a StopCapture in the queue);
and a thread nobody answers for is ending. From it `CastsStayOwned` and
`CastsStayKept`.

**AuthorityTags** (the end of `Helpers_proofs`). `TagsInv == TagsTypeOK /\
HandlesInv /\ FeedInv /\ AskInv`. `CaughtUp` compares what the helper will know
with the handles there are, and alone it is not inductive: it needs the order of
what is still to come (`InOrder`: each thing is said once, and announced before
it is closed), that what is announced is neither known nor asked about yet
(`IsNews`), and that what is on the way and not closed again is a handle that is
live (`Balances`), with its app id (`KnowsApps`). `Feed` puts these together for a
queue, what is known and the live handles as data; announcing, closing and
reading either event are four lemmas about it (`FeedDone`, `FeedClosed`,
`FeedReadDone`, `FeedReadClosed`), and every step of the compositor is a close,
an announcement or both (`HandleStep`). `TaggedByRule` needs that each request on
its way was made by a rule for whatever windows its identifiers still name
(`ByRule`); it holds on although they are renamed, since an identifier is not
used again while a request has it. From it `HelperCatchesUp` and `RulesAreObeyed`.

Assumptions. The theorems rest on the ASSUMEs of the modules they are about and
on nothing else: `BoundsAssumption` (GraphStack), `LockAssumption`
(SessionLock), `NamesAssumption`, `NoneAssumption` and `BoundAssumption`
(HutWindows), `RowsAssumption` and `NoneAssumption` (Screen), `BoundAssumption`,
`MonitorsAssumption` and `NoneAssumption` (FrameDamage), `DrmAssumption`
(DrmLoans), `CallNames` (ScreenCast), `SizeAssumption` and `SelectionAssumption`
(TermFrames), `WindowsAssumption`, `RulesAssumption` and `HandleAssumption`
(AuthorityTags), none for SeatInput. TLC evaluates all of them on every run.

Induction. The library's induction theorems take an operator and cannot be
cited here, but their consequence for a set of naturals can be proved from the
order of finite sets (`NatSetInduction` in Screen_proofs and its like in
GraphStack_proofs). So what the recursive functions `FocusedPath`, `Under` and
`Taken` compute is proved, not assumed.

Only model-checked: `LockConfirmed`, `ScreensFollow`, `StartAnswered`,
`CastEnds`, `RenderingEnds` and `OutputIsTaken`: all liveness, which with
`ENABLED` is outside what the prover handles.

## 16. What the sources say and the code does not do

`AppsAreTagged`, run `appid`: `new_toplevel` mints the foreign-toplevel handle
with the app id of the moment the toplevel is created, which is none; nothing
passes a later one on. The helper's app-id rules (`main.rs:1`) thus match nothing
until some client re-tags the window.

The following statements are written down in the modules, each under the comment
it comes from. They are in no run; TLC refutes each when it is added to the
module's `.cfg` (as an INVARIANT, or as a PROPERTY where it is temporal).

| Statement | Module | What happens |
|---|---|---|
| `NoPanic` | MCGraphStack, `instant` | after a failed respawn the stop is deferred to the end of the batch (`state.rs:831`), and another event of that batch indexes the empty list (`graph_stack.rs:75`) |
| `UntouchedIsFrontier` | MCGraphStack, `instant` | `graph_stack.rs:1084`; autostarted entries (touched) are appended after the untouched first one, so discarding it jumps over them |
| `ReleaseEndsPreview` | MCGraphStack, `preview` | `input.rs:1378`; only the focused output's session is looked at, and the pointer may have moved on |
| `ToldMeansPresented` | MCSessionLock | `session_lock.rs:25`; the locker is told once the frame is queued, up to a vblank early. LockPromise therefore counts queued frames as covering |
| `NoDisplayNoWait` | MCSessionLock | `udev_backend.rs:1087` answers a waiting locker when the last display goes; one that asks after that waits for the next display |
| `NoFocusWhileHidden` | MCHutWindows | `docks.rs:513`, `input.rs:484`; a drag's hut that goes back to its terminal leaves the keyboard with the hidden window |
| `NoBareRelease` | PowerButton | `state.rs:720`; an object bound in the middle of a press that another was told of gets the release alone |
| `RepeatNeedsKey` | SeatInput | `input.rs:1391`; a release taken by the lock or an exclusive surface does not stop the repeat, which resumes typing if the view is as before at its next tick |
| `SelectingMeansHeld` | SeatInput | `state.rs:171`; a release over something else than a terminal, or once the program wants reports, leaves the drag on |
| `RequestsEnd` | AuthorityTags | `main.rs:65`; see section 12 |
| `VisibleIsTaken` | TermFrames | `state.rs:846`; output of a terminal that is on view but not focused asks for no frame |
| `NothingMissed` | TermFrames | `mudhuts-term/src/lib.rs:283`; a cleared highlight and a character typed under a cursor that returned are in no damage |
| `FreshIsPainted` | TermFrames | `gpu_term.rs:769`; a texture created at an unchanged number of rows and columns is only repainted where there was damage |
| `PositionIsLive`, `TerminalHasKeys`, `UnderIsTopmost`, `PanesShowTerminals` | Screen | `layer_shell.rs:203`, `input.rs:1359`, `state.rs:1405`, `graph_nodes.rs:349`: windows are moved only by the next sync of their space; and a pane whose hut has a window on view shows the window after all, which keeps the keyboard and hears of the pointer over the other pane's terminal |
| `GammaIsExclusive` | DrmLoans | `udev_backend.rs:160`; a control that outlived its monitor clears the flag of the next one |
| `RestMeansCurrent` | FrameDamage | `state.rs:846`, `state.rs:916`; output of an unfocused terminal that is on view, and the other monitors' huts that a hotplug rescales (`udev_backend.rs:962`), are not shown before something else asks for a frame |
| `ThumbnailsEnd` | FrameDamage | `udev_backend.rs:57`, `render.rs:545`; a hut's thumbnail reports its whole buffer as damaged on every build, so rendering goes on at the display's rate while the Alt-Tab popup is open over a hut with a window |

## 17. Not modelled

Pixels and geometry beyond rows and columns; popups, resize and fullscreen
requests; axis events, pointer constraints and cursor images; modes, cursor
planes and renderer set-up of the udev backend; the winit development backend,
which reaches the same methods with one output; the walk over process ancestry,
whose answer is any live hut; configuration parsing, encodings of keys and mouse
reports, portal settings, generated bindings and test clients. None of these
keeps state that a sequence of events could bring out of step, except popups,
which the library owns. Compositions of the modules with each other (for instance
a session lock during a drag) are left to the assumption each module makes of the
others, listed in section 2.
