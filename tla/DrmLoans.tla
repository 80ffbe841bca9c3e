------------------------------ MODULE DrmLoans ------------------------------
(***************************************************************************)
(* What the udev backend lends to clients while monitors and headsets come *)
(* and go and the VT is switched (udev_backend.rs): DRM leases of          *)
(* "non-desktop" connectors, and exclusive control of a CRTC's gamma ramp. *)
(*                                                                         *)
(* A scan finds one connector changed at a time.  The connector scanner    *)
(* gives a connector any CRTC no other connected one has; the kernel       *)
(* leases an object once and refuses leases and ramps while another VT is  *)
(* in front; lease ids are not reused.  Frames are left to SessionLock,    *)
(* the outputs' huts to GraphStack.                                        *)
(***************************************************************************)
EXTENDS FiniteSets

CONSTANTS
    Connectors,  \* what can be plugged in
    NonDesktop,  \* those whose driver sets the "non-desktop" property
    BuiltIn,     \* those with an interface of an internal panel
    Crtcs,
    Leases,      \* the lease requests clients may submit
    Controls,    \* the gamma controls clients may create
    None

ASSUME DrmAssumption ==
    /\ NonDesktop \subseteq Connectors /\ BuiltIn \subseteq Connectors
    /\ None \notin Connectors \cup Crtcs \cup Controls
    /\ "plain" \notin Controls

VARIABLES
    crtcOf,     \* the scanner's CRTC of each connected connector, or None
    away,       \* another VT is in front
    surface,    \* Inner::surfaces: per CRTC, the monitor it drives, or None
    bound,      \* SurfaceData::gamma_control_bound, per CRTC
    leasable,   \* Inner::non_desktop_connectors
    lease,      \* per lease object: its progress and the pairs it was granted
    control,    \* per gamma control: progress, CRTC and the ramp it found
    ramp,       \* the hardware's ramp of each CRTC: "plain", or who set it
    outlived,   \* history: leases one of whose headsets was unplugged
    orphan,     \* history: controls whose monitor was unplugged
    stained     \* history: CRTCs an orphan held, or a restore failed on

hotplugVars == <<crtcOf, surface, leasable>>
gammaVars   == <<bound, control, ramp, orphan, stained>>
leaseVars   == <<lease, outlived>>
vars == <<hotplugVars, away, gammaVars, leaseVars>>

Pairs == Connectors \X Crtcs
Ramps == {"plain"} \cup Controls

TypeOK ==
    /\ crtcOf \in [Connectors -> Crtcs \cup {None}] /\ away \in BOOLEAN
    /\ surface \in [Crtcs -> Connectors \cup {None}]
    /\ bound \in [Crtcs -> BOOLEAN]
    /\ leasable \subseteq Pairs
    /\ lease \in [Leases -> [step : {"unborn", "active", "finished"}, pairs : SUBSET Pairs]]
    /\ control \in [Controls -> [step : {"unborn", "active", "failed", "gone"},
                                 crtc : Crtcs \cup {None}, original : Ramps]]
    /\ ramp \in [Crtcs -> Ramps]
    /\ outlived \subseteq Leases /\ orphan \subseteq Controls /\ stained \subseteq Crtcs

Active(l)  == lease[l].step = "active"
Holding(g) == control[g].step = "active"
LeasedBy(l) == {p[2] : p \in lease[l].pairs}

\* DrmDevice::claim_plane: a CRTC's primary plane is its surface's or a lease's.
Claimed(c) == surface[c] # None \/ \E l \in Leases : Active(l) /\ c \in LeasedBy(l)

-----------------------------------------------------------------------------
(* Hotplug: rescan_connectors. *)

\* (the bug of a mutant: whatever the driver calls non-desktop)
DriverSays(k) == k \in NonDesktop
\* is_leasable
Leasable(k) == k \in NonDesktop /\ k \notin BuiltIn

\* The scanner's choice for connector k.
Assigned(k, c) ==
    /\ crtcOf[k] = None /\ \A other \in Connectors : crtcOf[other] # c
    /\ crtcOf' = [crtcOf EXCEPT ![k] = c]

\* connector_connected, of a headset: offered for lease.
HeadsetConnected(k, c) ==
    /\ Leasable(k) /\ Assigned(k, c)
    /\ leasable' = leasable \cup {<<k, c>>}
    /\ UNCHANGED <<surface, away, gammaVars, leaseVars>>

\* connector_connected, of a monitor: a surface with nothing bound.
MonitorConnected(k, c) ==
    /\ ~Leasable(k) /\ Assigned(k, c)
    /\ ~away /\ ~Claimed(c)
    /\ surface' = [surface EXCEPT ![c] = k]
    /\ bound' = [bound EXCEPT ![c] = FALSE]
    /\ UNCHANGED <<leasable, away, control, ramp, orphan, stained, leaseVars>>

\* connector_connected, when it has no mode or initialize_output fails: the
\* scanner has reported the monitor, nothing tries again.
MonitorRefused(k, c) ==
    /\ ~Leasable(k) /\ Assigned(k, c)
    /\ UNCHANGED <<surface, leasable, away, gammaVars, leaseVars>>

\* connector_disconnected, of a headset: no longer offered, but a lease of it
\* goes on.
HeadsetDisconnected(k) ==
    /\ crtcOf[k] # None /\ <<k, crtcOf[k]>> \in leasable
    /\ crtcOf' = [crtcOf EXCEPT ![k] = None]
    /\ leasable' = leasable \ {<<k, crtcOf[k]>>}
    /\ outlived' = outlived \cup {l \in Leases : Active(l) /\ <<k, crtcOf[k]>> \in lease[l].pairs}
    /\ UNCHANGED <<surface, away, gammaVars, lease>>

\* (the bug of a mutant: the surface stays)
SurfaceKept(k) == surface
WithoutSurface(k) == [surface EXCEPT ![crtcOf[k]] = None]

\* connector_disconnected, of a monitor: its surface goes, if it had one; the
\* gamma control of its CRTC is not told.
MonitorDisconnected(k) ==
    /\ crtcOf[k] # None /\ <<k, crtcOf[k]>> \notin leasable
    /\ LET held == {g \in Controls : Holding(g) /\ control[g].crtc = crtcOf[k]}
       IN /\ orphan' = orphan \cup held
          /\ stained' = IF held = {} THEN stained ELSE stained \cup {crtcOf[k]}
    /\ crtcOf' = [crtcOf EXCEPT ![k] = None]
    /\ surface' = WithoutSurface(k)
    /\ bound' = [bound EXCEPT ![crtcOf[k]] = FALSE]
    /\ UNCHANGED <<leasable, away, control, ramp, leaseVars>>

-----------------------------------------------------------------------------
(* DRM leases: DrmLeaseHandler. *)

Finished == [step |-> "finished", pairs |-> {}]

\* What lease_request can build for a set of connectors.
Buildable(pairs) == \A p \in pairs : p \in leasable /\ ~Claimed(p[2])

\* drmModeCreateLease: only by the master, and each object is leased once.
KernelAgrees(pairs) ==
    ~away /\ \A l \in Leases : Active(l) =>
        \A p \in pairs, q \in lease[l].pairs : p[1] # q[1] /\ p[2] # q[2]

\* lease_request granted, and new_active_lease.
GrantLease(l, pairs) ==
    /\ lease[l].step = "unborn" /\ pairs # {}
    /\ Buildable(pairs) /\ KernelAgrees(pairs)
    /\ lease' = [lease EXCEPT ![l] = [step |-> "active", pairs |-> pairs]]
    /\ UNCHANGED <<hotplugVars, away, gammaVars, outlived>>

\* lease_request denied: a connector withdrawn meanwhile, a plane in use, or
\* the kernel's refusal; the claims made so far go with the builder.
DenyLease(l) ==
    /\ lease[l].step = "unborn"
    /\ lease' = [lease EXCEPT ![l] = Finished]
    /\ UNCHANGED <<hotplugVars, away, gammaVars, outlived>>

\* lease_destroyed
LeaseDestroyed(l) ==
    /\ Active(l)
    /\ lease' = [lease EXCEPT ![l] = Finished]
    /\ UNCHANGED <<hotplugVars, away, gammaVars, outlived>>

-----------------------------------------------------------------------------
(* Gamma: zwlr_gamma_control_v1. *)

Unheld(c) == surface[c] # None /\ ~bound[c]

\* get_gamma_control, granted: the output is driven and nobody holds it.
GrantControl(g, c) ==
    /\ control[g].step = "unborn" /\ Unheld(c)
    /\ bound' = [bound EXCEPT ![c] = TRUE]
    /\ control' = [control EXCEPT ![g] = [step |-> "active", crtc |-> c, original |-> ramp[c]]]
    /\ UNCHANGED <<hotplugVars, away, ramp, orphan, stained, leaseVars>>

\* get_gamma_control for an output that is held, gone or has no ramp.
FailControl(g) ==
    /\ control[g].step = "unborn"
    /\ control' = [control EXCEPT ![g].step = "failed"]
    /\ UNCHANGED <<hotplugVars, away, bound, ramp, orphan, stained, leaseVars>>

\* apply_gamma; while away the ioctl fails and the client is told.
SetGamma(g) ==
    /\ Holding(g) /\ ~away
    /\ ramp' = [ramp EXCEPT ![control[g].crtc] = g]
    /\ UNCHANGED <<hotplugVars, away, bound, control, orphan, stained, leaseVars>>

Restored(g) == IF away THEN ramp[control[g].crtc] ELSE control[g].original

\* destroyed: by request, or with its client.  A failed restore is only logged;
\* the flag cleared is that of the surface now on the CRTC.
ControlDestroyed(g) ==
    /\ Holding(g)
    /\ control' = [control EXCEPT ![g].step = "gone"]
    /\ ramp' = [ramp EXCEPT ![control[g].crtc] = Restored(g)]
    /\ stained' = IF away THEN stained \cup {control[g].crtc} ELSE stained
    /\ bound' = [bound EXCEPT ![control[g].crtc] = FALSE]
    /\ UNCHANGED <<hotplugVars, away, orphan, leaseVars>>

-----------------------------------------------------------------------------
(* VT switches. *)

Revoked(l) == IF Active(l) THEN Finished ELSE lease[l]

\* PauseSession: every lease is revoked.
PauseSession ==
    /\ ~away /\ away' = TRUE
    /\ lease' = [l \in Leases |-> Revoked(l)]
    /\ UNCHANGED <<hotplugVars, gammaVars, outlived>>

ActivateSession ==
    /\ away /\ away' = FALSE
    /\ UNCHANGED <<hotplugVars, gammaVars, leaseVars>>

-----------------------------------------------------------------------------
Init ==
    /\ crtcOf = [k \in Connectors |-> None] /\ away = FALSE
    /\ surface = [c \in Crtcs |-> None] /\ bound = [c \in Crtcs |-> FALSE]
    /\ leasable = {}
    /\ lease = [l \in Leases |-> [step |-> "unborn", pairs |-> {}]]
    /\ control = [g \in Controls |-> [step |-> "unborn", crtc |-> None, original |-> "plain"]]
    /\ ramp = [c \in Crtcs |-> "plain"]
    /\ outlived = {} /\ orphan = {} /\ stained = {}

RescanConnectors ==
    \E k \in Connectors :
        \/ HeadsetDisconnected(k) \/ MonitorDisconnected(k)
        \/ \E c \in Crtcs : HeadsetConnected(k, c) \/ MonitorConnected(k, c) \/ MonitorRefused(k, c)
LeaseClients ==
    \E l \in Leases :
        \/ DenyLease(l) \/ LeaseDestroyed(l)
        \/ \E pairs \in SUBSET leasable : GrantLease(l, pairs)
GammaClients ==
    \E g \in Controls :
        \/ FailControl(g) \/ SetGamma(g) \/ ControlDestroyed(g)
        \/ \E c \in Crtcs : GrantControl(g, c)
Next == RescanConnectors \/ LeaseClients \/ GammaClients \/ PauseSession \/ ActivateSession

Spec == Init /\ [][Next]_vars

-----------------------------------------------------------------------------
(* Properties. *)

\* However headsets and monitors are plugged while leases are out, no CRTC is
\* lent twice or lent and driven, and an internal panel is never lent, even one
\* its driver reports as a headset.
LoansAreApart ==
    \A l \in Leases : Active(l) =>
        /\ \A c \in LeasedBy(l) : surface[c] = None
        /\ \A m \in Leases \ {l} : Active(m) => LeasedBy(l) \cap LeasedBy(m) = {}
        /\ \A p \in lease[l].pairs : p[1] \notin BuiltIn

\* A CRTC no connector has any more is kept from the next monitor only by a
\* lease that outlived its headset.
FreeAgain ==
    \A c \in Crtcs :
        Claimed(c) /\ (\A k \in Connectors : crtcOf[k] # c) =>
            \E l \in outlived : Active(l) /\ c \in LeasedBy(l)

\* No lease goes on on another VT, whatever was requested or replugged before
\* the switch.
AwayIsRevoked == away => \A l \in Leases : ~Active(l)

\* A ramp a client set does not outlive its control: with nobody holding the
\* CRTC it is plain, unless a monitor was unplugged under a control of it or a
\* control was destroyed on another VT.
TintHasOwner ==
    \A c \in Crtcs \ stained :
        ramp[c] # "plain" => \E g \in Controls : Holding(g) /\ control[g].crtc = c

\* Whatever is created and destroyed in whatever order, a CRTC has one gamma
\* control at a time until a monitor is unplugged under one.
OneHolderEach ==
    \A g, h \in Controls :
        g # h /\ Holding(g) /\ Holding(h) /\ control[g].crtc = control[h].crtc =>
            control[g].crtc \in stained

\* What is lent has one holder: a CRTC among leases and displays, a gamma ramp
\* among controls (and the types).
LentOnce == TypeOK /\ LoansAreApart /\ OneHolderEach

\* What was lent comes back: a CRTC nobody uses, a lease on another VT, a ramp
\* whose control is gone.
GivenBack == FreeAgain /\ AwayIsRevoked /\ TintHasOwner

-----------------------------------------------------------------------------
(* What the code's comments say and the code does not do. *)

\* udev_backend.rs: at most one client has gamma access to an output (controls
\* of monitors that are gone not counted).
GammaIsExclusive ==
    \A g, h \in Controls :
        g # h /\ Holding(g) /\ Holding(h) /\ {g, h} \cap orphan = {} => control[g].crtc # control[h].crtc
=============================================================================
