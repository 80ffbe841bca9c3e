-------------------------- MODULE DrmLoans_proofs --------------------------
(***************************************************************************)
(* Theorems about DrmLoans, for any connectors, CRTCs, leases and gamma    *)
(* controls.  What the two properties need is that the backend's tables    *)
(* agree with each other: a surface and an offered headset are where the   *)
(* scanner has their connector, a lease is of headsets still offered       *)
(* unless one was unplugged, and a gamma control that nobody unplugged     *)
(* still has its surface, its flag and a plain ramp to restore.            *)
(***************************************************************************)
EXTENDS DrmLoans, TLAPS

\* The scanner gives a CRTC to one connector at a time.
CrtcsApart ==
    \A j, k \in Connectors : crtcOf[j] = crtcOf[k] /\ crtcOf[j] # None => j = k

\* A CRTC is driven for the monitor the scanner has on it.
SurfaceAgrees ==
    \A c \in Crtcs : surface[c] # None => crtcOf[surface[c]] = c /\ ~Leasable(surface[c])

\* What is offered is plugged in, where the scanner has it.
OfferAgrees == \A p \in leasable : Leasable(p[1]) /\ crtcOf[p[1]] = p[2]

\* A lease is of what is still offered, unless a headset of it was unplugged.
LeaseAgrees ==
    \A l \in Leases : Active(l) => l \in outlived \/ lease[l].pairs \subseteq leasable

\* A control whose monitor stays has its surface and flag, and found a plain ramp.
ControlAgrees ==
    \A g \in Controls : Holding(g) =>
        /\ control[g].crtc \in Crtcs
        /\ control[g].crtc \notin stained =>
             /\ surface[control[g].crtc] # None /\ bound[control[g].crtc]
             /\ control[g].original = "plain"

HotplugInv == CrtcsApart /\ SurfaceAgrees /\ OfferAgrees
LeaseInv   == LoansAreApart /\ LeaseAgrees /\ AwayIsRevoked
GammaInv   == ControlAgrees /\ OneHolderEach /\ TintHasOwner
IInv       == TypeOK /\ HotplugInv /\ LeaseInv /\ GammaInv

-----------------------------------------------------------------------------
(* What a step leaves alone stays sound.                                     *)

\* The parts of the invariant rest on the variables they name.
LEMMA HotplugKept == ASSUME HotplugInv, UNCHANGED hotplugVars PROVE HotplugInv'
BY DEF HotplugInv, CrtcsApart, SurfaceAgrees, OfferAgrees, hotplugVars, Leasable

\* (the same for leases)
LEMMA LeaseKept ==
    ASSUME LeaseInv, UNCHANGED <<lease, outlived, surface, leasable, away>> PROVE LeaseInv'
BY DEF LeaseInv, LoansAreApart, LeaseAgrees, AwayIsRevoked, Active, LeasedBy

\* Surfaces may change as long as they keep off the CRTCs that are lent.
LEMMA LeaseUndriven ==
    ASSUME LeaseInv, UNCHANGED <<lease, outlived, leasable, away>>,
           \A l \in Leases : Active(l) => \A c \in LeasedBy(l) : surface'[c] = None
    PROVE  LeaseInv'
<1>1. LoansAreApart'
  BY DEF LeaseInv, LoansAreApart, Active, LeasedBy
<1> QED BY <1>1 DEF LeaseInv, LeaseAgrees, AwayIsRevoked, Active

\* (the same for gamma controls)
LEMMA GammaKept == ASSUME GammaInv, UNCHANGED <<gammaVars, surface>> PROVE GammaInv'
BY DEF GammaInv, ControlAgrees, OneHolderEach, TintHasOwner, Holding, gammaVars

-----------------------------------------------------------------------------
(* Hotplug. *)

\* HeadsetConnected keeps the inductive invariant.
LEMMA HeadsetConnectedKeeps ==
    ASSUME IInv, NEW k \in Connectors, NEW c \in Crtcs, HeadsetConnected(k, c)
    PROVE  IInv'
<1>1. TypeOK'
  BY DEF IInv, TypeOK, HeadsetConnected, Assigned, gammaVars, leaseVars, Pairs
<1>2. HotplugInv'
  BY DrmAssumption DEF IInv, TypeOK, HotplugInv, CrtcsApart, SurfaceAgrees, OfferAgrees,
     HeadsetConnected, Assigned, Leasable, Pairs
<1>3. LeaseInv'
  BY DEF IInv, LeaseInv, LoansAreApart, LeaseAgrees, AwayIsRevoked, Active, LeasedBy,
     HeadsetConnected, leaseVars
<1>4. GammaInv'
  BY GammaKept DEF IInv, HeadsetConnected
<1> QED BY <1>1, <1>2, <1>3, <1>4 DEF IInv

\* MonitorConnected keeps the inductive invariant.
LEMMA MonitorConnectedKeeps ==
    ASSUME IInv, NEW k \in Connectors, NEW c \in Crtcs, MonitorConnected(k, c)
    PROVE  IInv'
<1>1. TypeOK'
  BY DEF IInv, TypeOK, MonitorConnected, Assigned, leaseVars, Pairs
<1>2. HotplugInv'
  BY DrmAssumption DEF IInv, TypeOK, HotplugInv, CrtcsApart, SurfaceAgrees, OfferAgrees,
     MonitorConnected, Assigned, Leasable, Pairs
<1>3. LeaseInv'
  <2>1. \A l \in Leases : Active(l) => c \notin LeasedBy(l)
    BY DEF MonitorConnected, Claimed
  <2>2. \A l \in Leases : Active(l) => \A d \in LeasedBy(l) : surface'[d] = None
    BY <2>1 DEF IInv, TypeOK, LeaseInv, LoansAreApart, MonitorConnected, LeasedBy, Pairs
  <2> QED BY <2>2, LeaseUndriven DEF IInv, MonitorConnected, leaseVars
<1>4. GammaInv'
  BY DEF IInv, TypeOK, GammaInv, ControlAgrees, OneHolderEach, TintHasOwner, Holding,
     MonitorConnected, Claimed
<1> QED BY <1>1, <1>2, <1>3, <1>4 DEF IInv

\* MonitorRefused keeps the inductive invariant.
LEMMA MonitorRefusedKeeps ==
    ASSUME IInv, NEW k \in Connectors, NEW c \in Crtcs, MonitorRefused(k, c)
    PROVE  IInv'
<1>1. TypeOK'
  BY DEF IInv, TypeOK, MonitorRefused, Assigned, gammaVars, leaseVars, Pairs
<1>2. HotplugInv'
  BY DrmAssumption DEF IInv, TypeOK, HotplugInv, CrtcsApart, SurfaceAgrees, OfferAgrees,
     MonitorRefused, Assigned, Leasable, Pairs
<1>3. LeaseInv'
  BY LeaseKept DEF IInv, MonitorRefused, leaseVars
<1>4. GammaInv'
  BY GammaKept DEF IInv, MonitorRefused
<1> QED BY <1>1, <1>2, <1>3, <1>4 DEF IInv

\* HeadsetDisconnected keeps the inductive invariant.
LEMMA HeadsetDisconnectedKeeps ==
    ASSUME IInv, NEW k \in Connectors, HeadsetDisconnected(k)
    PROVE  IInv'
<1>1. TypeOK'
  BY DEF IInv, TypeOK, HeadsetDisconnected, gammaVars, Pairs
<1>2. HotplugInv'
  BY DrmAssumption DEF IInv, TypeOK, HotplugInv, CrtcsApart, SurfaceAgrees, OfferAgrees,
     HeadsetDisconnected, Leasable, Pairs
<1>3. LeaseInv'
  BY DEF IInv, LeaseInv, LoansAreApart, LeaseAgrees, AwayIsRevoked, Active, LeasedBy,
     HeadsetDisconnected
<1>4. GammaInv'
  BY GammaKept DEF IInv, HeadsetDisconnected
<1> QED BY <1>1, <1>2, <1>3, <1>4 DEF IInv

\* MonitorDisconnected keeps the inductive invariant.
LEMMA MonitorDisconnectedKeeps ==
    ASSUME IInv, NEW k \in Connectors, MonitorDisconnected(k)
    PROVE  IInv'
<1>1. TypeOK'
  BY DEF IInv, TypeOK, MonitorDisconnected, WithoutSurface, leaseVars, Pairs
<1>2. HotplugInv'
  BY DrmAssumption DEF IInv, TypeOK, HotplugInv, CrtcsApart, SurfaceAgrees, OfferAgrees,
     MonitorDisconnected, WithoutSurface, Leasable, Pairs
<1>3. LeaseInv'
  <2>1. \A l \in Leases : Active(l) => \A d \in LeasedBy(l) : surface'[d] = None
    BY DEF IInv, TypeOK, LeaseInv, LoansAreApart, MonitorDisconnected, WithoutSurface, LeasedBy,
       Pairs
  <2> QED BY <2>1, LeaseUndriven DEF IInv, MonitorDisconnected, leaseVars
<1>4. GammaInv'
  BY DEF IInv, TypeOK, GammaInv, ControlAgrees, OneHolderEach, TintHasOwner, Holding,
     MonitorDisconnected, WithoutSurface
<1> QED BY <1>1, <1>2, <1>3, <1>4 DEF IInv

-----------------------------------------------------------------------------
(* Leases. *)

\* GrantLease keeps the inductive invariant.
LEMMA GrantLeaseKeeps ==
    ASSUME IInv, NEW l \in Leases, NEW pairs \in SUBSET leasable, GrantLease(l, pairs)
    PROVE  IInv'
<1>1. TypeOK'
  BY DEF IInv, TypeOK, GrantLease, hotplugVars, gammaVars
<1>2. HotplugInv'
  BY HotplugKept DEF IInv, GrantLease
<1>3. LeaseInv'
  <2>1. \A m \in Leases : lease'[m] = IF m = l THEN [step |-> "active", pairs |-> pairs] ELSE lease[m]
    BY DEF IInv, TypeOK, GrantLease
  <2>2. \A m \in Leases : Active(m)' /\ m # l => Active(m) /\ LeasedBy(m)' = LeasedBy(m)
    BY <2>1 DEF Active, LeasedBy
  <2>3. LeasedBy(l)' = {p[2] : p \in pairs} /\ lease'[l].pairs = pairs
    BY <2>1 DEF LeasedBy
  <2>4. \A m \in Leases : Active(m) => {p[2] : p \in pairs} \cap LeasedBy(m) = {}
    BY DEF GrantLease, KernelAgrees, LeasedBy
  <2>5. \A p \in pairs : surface[p[2]] = None /\ p[1] \notin BuiltIn
    BY DEF IInv, HotplugInv, OfferAgrees, GrantLease, Buildable, Claimed, Leasable
  <2>6. UNCHANGED surface
    BY DEF GrantLease, hotplugVars
  <2>7. LoansAreApart'
    BY <2>1, <2>2, <2>3, <2>4, <2>5, <2>6 DEF IInv, LeaseInv, LoansAreApart
  <2>8. LeaseAgrees' /\ AwayIsRevoked'
    BY <2>1 DEF IInv, LeaseInv, LeaseAgrees, AwayIsRevoked, Active, GrantLease, KernelAgrees,
       hotplugVars
  <2> QED BY <2>7, <2>8 DEF LeaseInv
<1>4. GammaInv'
  BY GammaKept DEF IInv, GrantLease, hotplugVars
<1> QED BY <1>1, <1>2, <1>3, <1>4 DEF IInv

\* Leases that end, one (denied, destroyed) or all (a VT switch).
LEMMA EndedLeasesKeep ==
    ASSUME IInv, UNCHANGED <<hotplugVars, gammaVars, outlived>>, away' \in BOOLEAN,
           NEW ended \in SUBSET Leases,
           lease' = [l \in Leases |-> IF l \in ended THEN Finished ELSE lease[l]],
           away' => away \/ \A l \in Leases \ ended : ~Active(l)
    PROVE  IInv'
<1>1. TypeOK'
  BY DEF IInv, TypeOK, hotplugVars, gammaVars, Finished
<1>2. HotplugInv'
  BY HotplugKept DEF IInv
<1>3. LeaseInv'
  <2>1. \A l \in Leases : Active(l)' => Active(l) /\ l \notin ended /\ lease'[l] = lease[l]
    BY DEF Active, Finished
  <2>2. LoansAreApart'
    BY <2>1 DEF IInv, LeaseInv, LoansAreApart, LeasedBy, hotplugVars
  <2>3. LeaseAgrees' /\ AwayIsRevoked'
    BY <2>1 DEF IInv, LeaseInv, LeaseAgrees, AwayIsRevoked, hotplugVars
  <2> QED BY <2>2, <2>3 DEF LeaseInv
<1>4. GammaInv'
  BY GammaKept DEF IInv, hotplugVars
<1> QED BY <1>1, <1>2, <1>3, <1>4 DEF IInv

\* LeaseEnds keeps the inductive invariant.
LEMMA LeaseEndsKeeps ==
    ASSUME IInv, NEW l \in Leases, DenyLease(l) \/ LeaseDestroyed(l)
    PROVE  IInv'
<1>1. lease' = [m \in Leases |-> IF m \in {l} THEN Finished ELSE lease[m]]
  BY DEF IInv, TypeOK, DenyLease, LeaseDestroyed
<1>2. away' \in BOOLEAN /\ (away' => away) /\ {l} \in SUBSET Leases
  BY DEF IInv, TypeOK, DenyLease, LeaseDestroyed
<1>3. UNCHANGED <<hotplugVars, gammaVars, outlived>>
  BY DEF DenyLease, LeaseDestroyed
<1> QED BY <1>1, <1>2, <1>3, EndedLeasesKeep

\* Switch keeps the inductive invariant.
LEMMA SwitchKeeps == ASSUME IInv, PauseSession \/ ActivateSession PROVE IInv'
<1>1. CASE PauseSession
  <2> DEFINE ended == {l \in Leases : Active(l)}
  <2>1. lease' = [l \in Leases |-> IF l \in ended THEN Finished ELSE lease[l]]
    BY <1>1 DEF PauseSession, Revoked
  <2> QED BY <1>1, <2>1, EndedLeasesKeep DEF PauseSession
<1>2. CASE ActivateSession
  <2>1. lease' = [l \in Leases |-> IF l \in {} THEN Finished ELSE lease[l]]
    BY <1>2 DEF IInv, TypeOK, ActivateSession, leaseVars
  <2>2. away' \in BOOLEAN /\ (away' => away) /\ {} \in SUBSET Leases
    BY <1>2 DEF ActivateSession
  <2>3. UNCHANGED <<hotplugVars, gammaVars, outlived>>
    BY <1>2 DEF ActivateSession, leaseVars
  <2> QED BY <2>1, <2>2, <2>3, EndedLeasesKeep
<1> QED BY <1>1, <1>2

-----------------------------------------------------------------------------
(* Gamma controls. *)

\* GrantControl keeps the inductive invariant.
LEMMA GrantControlKeeps ==
    ASSUME IInv, NEW g \in Controls, NEW c \in Crtcs, GrantControl(g, c)
    PROVE  IInv'
<1>1. TypeOK'
  BY DEF IInv, TypeOK, GrantControl, hotplugVars, leaseVars
<1>2. HotplugInv' /\ LeaseInv'
  BY HotplugKept, LeaseKept DEF IInv, GrantControl, hotplugVars, leaseVars
<1>3. GammaInv'
  <2>1. \A h \in Controls :
          control'[h] = IF h = g THEN [step |-> "active", crtc |-> c, original |-> ramp[c]]
                                 ELSE control[h]
    BY DEF IInv, TypeOK, GrantControl
  <2>2. c \notin stained => \A h \in Controls : ~(Holding(h) /\ control[h].crtc = c)
    BY DEF IInv, GammaInv, ControlAgrees, GrantControl, Unheld
  <2>3. c \notin stained => ramp[c] = "plain"
    BY <2>2 DEF IInv, GammaInv, TintHasOwner
  <2>4. ControlAgrees'
    BY <2>1, <2>3 DEF IInv, TypeOK, GammaInv, ControlAgrees, Holding, GrantControl, Unheld,
       hotplugVars
  <2>5. OneHolderEach'
    BY <2>1, <2>2 DEF IInv, GammaInv, OneHolderEach, Holding, GrantControl
  <2>6. TintHasOwner'
    BY <2>1 DEF IInv, GammaInv, TintHasOwner, Holding, GrantControl
  <2> QED BY <2>4, <2>5, <2>6 DEF GammaInv
<1> QED BY <1>1, <1>2, <1>3 DEF IInv

\* FailControl keeps the inductive invariant.
LEMMA FailControlKeeps ==
    ASSUME IInv, NEW g \in Controls, FailControl(g)
    PROVE  IInv'
<1>1. TypeOK'
  BY DEF IInv, TypeOK, FailControl, hotplugVars, leaseVars
<1>2. HotplugInv' /\ LeaseInv'
  BY HotplugKept, LeaseKept DEF IInv, FailControl, hotplugVars, leaseVars
<1>3. GammaInv'
  <2>1. \A h \in Controls : /\ Holding(h)' <=> Holding(h)
                            /\ Holding(h) => control'[h] = control[h]
    BY DEF IInv, TypeOK, FailControl, Holding
  <2> QED
    BY <2>1 DEF IInv, GammaInv, ControlAgrees, OneHolderEach, TintHasOwner, FailControl, hotplugVars
<1> QED BY <1>1, <1>2, <1>3 DEF IInv

\* SetGamma keeps the inductive invariant.
LEMMA SetGammaKeeps ==
    ASSUME IInv, NEW g \in Controls, SetGamma(g)
    PROVE  IInv'
<1>1. TypeOK'
  BY DEF IInv, TypeOK, SetGamma, hotplugVars, leaseVars, Ramps
<1>2. HotplugInv' /\ LeaseInv'
  BY HotplugKept, LeaseKept DEF IInv, SetGamma, hotplugVars, leaseVars
<1>3. GammaInv'
  BY DEF IInv, TypeOK, GammaInv, ControlAgrees, OneHolderEach, TintHasOwner, Holding, SetGamma,
     hotplugVars
<1> QED BY <1>1, <1>2, <1>3 DEF IInv

\* ControlDestroyed keeps the inductive invariant.
LEMMA ControlDestroyedKeeps ==
    ASSUME IInv, NEW g \in Controls, ControlDestroyed(g)
    PROVE  IInv'
<1> DEFINE c == control[g].crtc
<1>1. c \in Crtcs
  BY DEF IInv, GammaInv, ControlAgrees, ControlDestroyed
<1>2. TypeOK'
  BY <1>1 DEF IInv, TypeOK, ControlDestroyed, Restored, hotplugVars, leaseVars, Ramps
<1>3. HotplugInv' /\ LeaseInv'
  BY HotplugKept, LeaseKept DEF IInv, ControlDestroyed, hotplugVars, leaseVars
<1>4. GammaInv'
  <2>1. \A h \in Controls : /\ Holding(h)' <=> Holding(h) /\ h # g
                            /\ h # g => control'[h] = control[h]
    BY DEF IInv, TypeOK, ControlDestroyed, Holding
  <2>2. \A h \in Controls \ {g} : Holding(h) /\ control[h].crtc = c => c \in stained
    BY DEF IInv, GammaInv, OneHolderEach, ControlDestroyed
  <2>3. stained \subseteq stained' /\ (away => c \in stained')
    BY DEF ControlDestroyed
  <2>4. \A d \in Crtcs \ {c} : bound'[d] = bound[d] /\ ramp'[d] = ramp[d]
    BY <1>1 DEF IInv, TypeOK, ControlDestroyed
  <2>5. ControlAgrees'
    BY <1>1, <2>1, <2>2, <2>3, <2>4 DEF IInv, GammaInv, ControlAgrees, ControlDestroyed, hotplugVars
  <2>6. OneHolderEach'
    BY <2>1, <2>3 DEF IInv, GammaInv, OneHolderEach
  <2>7. c \notin stained' => ramp'[c] = "plain"
    BY <1>1, <2>3 DEF IInv, TypeOK, GammaInv, ControlAgrees, ControlDestroyed, Restored
  <2>8. TintHasOwner'
    BY <1>1, <2>1, <2>3, <2>4, <2>7 DEF IInv, GammaInv, TintHasOwner
  <2> QED BY <2>5, <2>6, <2>8 DEF GammaInv
<1> QED BY <1>2, <1>3, <1>4 DEF IInv

-----------------------------------------------------------------------------
\* The inductive invariant holds at the start.
LEMMA InitIInv == Init => IInv
<1> SUFFICES ASSUME Init PROVE IInv
  OBVIOUS
<1>1. TypeOK
  BY DEF Init, TypeOK, Pairs, Ramps
<1>2. HotplugInv
  BY DEF Init, HotplugInv, CrtcsApart, SurfaceAgrees, OfferAgrees
<1>3. \A l \in Leases : ~Active(l)
  BY DEF Init, Active
<1>4. \A g \in Controls : ~Holding(g)
  BY DEF Init, Holding
<1>5. LeaseInv
  BY <1>3 DEF LeaseInv, LoansAreApart, LeaseAgrees, AwayIsRevoked
<1>6. GammaInv
  BY <1>4 DEF Init, GammaInv, ControlAgrees, OneHolderEach, TintHasOwner
<1> QED BY <1>1, <1>2, <1>5, <1>6 DEF IInv

\* A step that changes nothing keeps it.
LEMMA StutterKeeps == ASSUME IInv, UNCHANGED vars PROVE IInv'
<1>1. TypeOK'
  BY DEF IInv, TypeOK, vars, hotplugVars, gammaVars, leaseVars
<1> QED BY <1>1, HotplugKept, LeaseKept, GammaKept DEF IInv, vars, hotplugVars, leaseVars

\* Every step keeps it.
LEMMA StepIInv == IInv /\ [Next]_vars => IInv'
<1> SUFFICES ASSUME IInv, [Next]_vars PROVE IInv'
  OBVIOUS
<1>1. CASE RescanConnectors
  BY <1>1, HeadsetConnectedKeeps, MonitorConnectedKeeps, MonitorRefusedKeeps,
     HeadsetDisconnectedKeeps, MonitorDisconnectedKeeps DEF RescanConnectors
<1>2. CASE LeaseClients
  BY <1>2, GrantLeaseKeeps, LeaseEndsKeeps DEF LeaseClients
<1>3. CASE GammaClients
  BY <1>3, GrantControlKeeps, FailControlKeeps, SetGammaKeeps, ControlDestroyedKeeps
     DEF GammaClients
<1>4. CASE PauseSession \/ ActivateSession
  BY <1>4, SwitchKeeps
<1>5. CASE UNCHANGED vars
  BY <1>5, StutterKeeps
<1> QED BY <1>1, <1>2, <1>3, <1>4, <1>5 DEF Next

\* The inductive invariant holds in every state of DrmLoans.
THEOREM Inductive == Spec => []IInv
BY InitIInv, StepIInv, PTL DEF Spec

\* However monitors and headsets are plugged while clients hold leases and
\* gamma controls: a CRTC is lent once and not lent while driven, an internal
\* panel is never lent, and a ramp has one holder until a monitor is unplugged
\* under one.
THEOREM LoansAreExclusive == Spec => []LentOnce
<1>1. IInv => LentOnce
  BY DEF IInv, LeaseInv, GammaInv, LentOnce
<1> QED BY <1>1, Inductive, PTL

\* What was lent is given back: CRTCs without a connector are free but for
\* leases that outlived their headset, none goes on on another VT, and no ramp
\* outlives its control.
THEOREM LoansAreReturned == Spec => []GivenBack
<1>1. IInv => FreeAgain
  <2> SUFFICES ASSUME IInv, NEW c \in Crtcs, Claimed(c), \A k \in Connectors : crtcOf[k] # c
               PROVE  \E l \in outlived : Active(l) /\ c \in LeasedBy(l)
    BY DEF FreeAgain
  <2>1. surface[c] = None
    BY DEF IInv, TypeOK, HotplugInv, SurfaceAgrees
  <2>2. PICK l \in Leases : Active(l) /\ c \in LeasedBy(l)
    BY <2>1 DEF Claimed
  <2>3. PICK p \in lease[l].pairs : p[2] = c
    BY <2>2 DEF LeasedBy
  <2>4. p[1] \in Connectors
    BY DEF IInv, TypeOK, Pairs
  <2>5. p \notin leasable
    BY <2>3, <2>4 DEF IInv, HotplugInv, OfferAgrees
  <2> QED BY <2>2, <2>3, <2>5 DEF IInv, LeaseInv, LeaseAgrees
<1>2. IInv => GivenBack
  BY <1>1 DEF IInv, LeaseInv, GammaInv, GivenBack
<1> QED BY <1>2, Inductive, PTL
=============================================================================
