---------------------------- MODULE AuthorityTags ----------------------------
(***************************************************************************)
(* The authority helper and the compositor's side of its protocol: the     *)
(* compositor announces every bare Main Window under an identifier         *)
(* (ext_foreign_toplevel_list_v1), the helper (mudhuts-authority-helper)    *)
(* matches app ids against its rules and asks for one announced toplevel   *)
(* to be tagged as belonging to another (mudhuts_shell_authority_v1,       *)
(* handlers/shell.rs).  Events and requests are two queues, so each side   *)
(* works on what the other was a moment ago.                               *)
(*                                                                         *)
(* Floating Window and Alert are one role here: both take the window out   *)
(* of the list.  A token that is wrong, and a poisoned entry, are left out.*)
(***************************************************************************)
EXTENDS Naturals, Sequences, SequencesExt

CONSTANTS
    Windows,
    HutOf,        \* the hut each window was assigned to when it was created
    AppOf,        \* the app id its client sets, once the toplevel exists
    Rules,        \* the helper's rules, in order: [target, main]
    Ids,          \* identifiers; one that nothing refers to may be minted anew
    NoApp,        \* what a handle says before there is an app id
    Nothing,
    MaxEvents,    \* bound: clients retag and create only below it
    MaxRequests   \* bound: the helper reads on only below it

VARIABLES
    place,     \* "unmapped", "main", "gone", or the main window it belongs to
    app,       \* the app id the client has set by now
    handle,    \* MainWindowEntry::foreign_handle: identifier and app id, or Nothing
    helper,    \* "starting", "running", "refused"
    known,     \* AppState::toplevels, of those whose Done was seen
    events,    \* to the helper
    requests   \* from the helper

clientVars == <<place, app, handle>>
tagsVars == <<place, app, handle, helper, known, events, requests>>

Handles  == [id : Ids, app : {AppOf[w] : w \in Windows} \cup {NoApp}]
Requests == [target : Ids, main : Ids]
Events   == [kind : {"done"}, of : Handles] \cup [kind : {"closed"}, id : Ids]

ASSUME WindowsAssumption == IsFiniteSet(Windows) /\ Windows \cap {"unmapped", "main", "gone"} = {}
ASSUME RulesAssumption == Rules \in Seq([target : STRING, main : STRING])
ASSUME HandleAssumption == Nothing \notin Handles

TagsTypeOK ==
    /\ place \in [Windows -> {"unmapped", "main", "gone"} \cup Windows]
    /\ app \in [Windows -> {AppOf[w] : w \in Windows} \cup {NoApp}]
    /\ handle \in [Windows -> Handles \cup {Nothing}]
    /\ \A w \in Windows : handle[w] # Nothing <=> place[w] = "main"
    /\ helper \in {"starting", "running", "refused"}
    /\ DOMAIN known \subseteq Ids
    /\ \A i \in DOMAIN known :
          known[i] \in [app : {AppOf[w] : w \in Windows} \cup {NoApp}, tagged : BOOLEAN]
    /\ events \in Seq(Events)
    /\ requests \in Seq(Requests)

Mains         == {w \in Windows : place[w] = "main"}
Announced     == {handle[w].id : w \in Mains}
ChildrenOf(w) == {c \in Windows : place[c] = w}

-----------------------------------------------------------------------------
(* The compositor.                                                         *)

\* An identifier is never used twice; here, not while anything refers to it.
InUse ==
    Announced \cup DOMAIN known
      \cup {requests[n].target : n \in DOMAIN requests}
      \cup {requests[n].main : n \in DOMAIN requests}
      \cup {IF events[n].kind = "done" THEN events[n].of.id ELSE events[n].id : n \in DOMAIN events}
FreshId == CHOOSE i \in Ids : i \notin InUse

\* Bound: nothing is minted when all of Ids are in use.
MayMint == Ids \ InUse # {}

Done(h)   == [kind |-> "done", of |-> h]
Closed(h) == [kind |-> "closed", id |-> h.id]

\* Events go to a helper that is there to get them.
Announce(es) == events' = IF helper = "running" THEN events \o es ELSE events

\* ForeignToplevelListState::new_toplevel: title and app id as they are now.
\* No later change of either is passed on.
Mint(w) == [id |-> FreshId, app |-> app[w]]

\* new_toplevel runs before the client has set any app id on it.
Map(w) ==
    /\ place[w] = "unmapped" /\ Len(events) < MaxEvents /\ MayMint
    /\ place' = [place EXCEPT ![w] = "main"]
    /\ handle' = [handle EXCEPT ![w] = Mint(w)]
    /\ Announce(<<Done(Mint(w))>>)
    /\ UNCHANGED <<app, helper, known, requests>>

SetAppId(w) ==
    /\ place[w] \notin {"unmapped", "gone"} /\ app[w] = NoApp
    /\ app' = [app EXCEPT ![w] = AppOf[w]]
    /\ UNCHANGED <<place, handle, helper, known, events, requests>>

\* An entry that goes drops its handle, which sends `closed`.
ClosedOf(w) == IF handle[w] = Nothing THEN <<>> ELSE <<Closed(handle[w])>>

\* Entries without w, and without those it leaves behind.
Forget(w) == [c \in Windows |-> IF c \in ChildrenOf(w) THEN "gone" ELSE place[c]]

ToplevelDestroyed(w) ==
    /\ place[w] \notin {"unmapped", "gone"} /\ Len(events) < MaxEvents
    /\ place' = [Forget(w) EXCEPT ![w] = "gone"]
    /\ handle' = [handle EXCEPT ![w] = Nothing]
    /\ Announce(ClosedOf(w))
    /\ UNCHANGED <<app, helper, known, requests>>

\* retag_in_stack, for a window that is somewhere, as nested in m when m is
\* another bare Main Window of its own hut, as a bare Main Window otherwise;
\* the latter is pushed with a new handle even if it was one before.
MayNest(w, m) == m # w /\ place[m] = "main" /\ HutOf[m] = HutOf[w]

Retag(w, m) ==
    IF m \in Windows /\ MayNest(w, m)
      THEN /\ place' = [Forget(w) EXCEPT ![w] = m]
           /\ handle' = [handle EXCEPT ![w] = Nothing]
           /\ Announce(ClosedOf(w))
      ELSE /\ MayMint
           /\ place' = [place EXCEPT ![w] = "main"]
           /\ handle' = [handle EXCEPT ![w] = Mint(w)]
           /\ Announce(ClosedOf(w) \o <<Done(Mint(w))>>)

\* A client with mudhuts_window_role_v1 tags a toplevel of its own, or moves
\* it back (m = Nothing).
WindowRole(w, m) ==
    /\ place[w] \notin {"unmapped", "gone"} /\ Len(events) < MaxEvents
    /\ m # Nothing => place[m] \notin {"unmapped", "gone"}
    /\ Retag(w, m)
    /\ UNCHANGED <<app, helper, known, requests>>

Resolves(i) == i \in Announced
WindowOf(i) == CHOOSE w \in Mains : handle[w].id = i

\* Requests SetFloating and SetAlert of the authority.  An identifier that names no
\* current Main Window is a protocol error, which ends the connection.
TakeRequest ==
    /\ helper = "running" /\ requests # <<>>
    /\ LET r == Head(requests) IN
       IF Resolves(r.target) /\ Resolves(r.main)
         THEN /\ Retag(WindowOf(r.target), WindowOf(r.main))
              /\ requests' = Tail(requests)
              /\ UNCHANGED <<helper, known>>
         ELSE /\ helper' = "refused"
              /\ events' = <<>> /\ requests' = <<>> /\ known' = <<>>
              /\ UNCHANGED <<place, handle>>
    /\ UNCHANGED app

-----------------------------------------------------------------------------
(* The helper.                                                             *)

\* Binding the list announces what there is, in the order of the list.
Connect ==
    /\ helper = "starting"
    /\ helper' = "running"
    /\ \E order \in SetToSeqs(Mains) :
          events' = [n \in DOMAIN order |-> Done(handle[order[n]])]
    /\ UNCHANGED <<place, app, handle, known, requests>>

\* (the bug of a mutant: any other toplevel will do as a main)
AnyMain(t, rule, i) == DOMAIN t \ {i}

\* Rules that match entry i of the toplevels t, and the mains they would find:
\* any entry but i itself.
MainsFor(t, rule, i) == {j \in DOMAIN t \ {i} : t[j].app = rule.main}
Matching(t, i) ==
    {n \in DOMAIN Rules : Rules[n].target = t[i].app /\ MainsFor(t, Rules[n], i) # {}}

\* (the bug of a mutant: try_tag of the one that is just done)
JustDone(t) == {i \in DOMAIN t : i \notin DOMAIN known /\ Matching(t, i) # {}}

\* try_tag_all: whom it tags now.
Taggable(t) == {i \in DOMAIN t : ~t[i].tagged /\ Matching(t, i) # {}}

\* try_tag takes the first rule that finds a main, and any entry that is one.
MainChoices(t, i) ==
    MainsFor(t, Rules[CHOOSE n \in Matching(t, i) : \A o \in Matching(t, i) : n <= o], i)

TryTagAll(t) ==
    LET now == Taggable(t) IN
    \E order \in SetToSeqs(now), main \in [now -> DOMAIN t] :
      /\ \A i \in now : main[i] \in MainChoices(t, i)
      /\ requests' = requests \o
            [n \in DOMAIN order |-> [target |-> order[n], main |-> main[order[n]]]]
      /\ known' = [i \in DOMAIN t |-> [t[i] EXCEPT !.tagged = @ \/ i \in now]]

Without(i) == [j \in DOMAIN known \ {i} |-> known[j]]

TakeEvent ==
    /\ helper = "running" /\ events # <<>> /\ Len(requests) < MaxRequests
    /\ events' = Tail(events)
    /\ LET e == Head(events) IN
       \/ /\ e.kind = "done"
          /\ TryTagAll([i \in DOMAIN known \cup {e.of.id} |->
                IF i = e.of.id THEN [app |-> e.of.app, tagged |-> FALSE] ELSE known[i]])
       \/ /\ e.kind = "closed"
          /\ known' = Without(e.id)
          /\ UNCHANGED requests
    /\ UNCHANGED <<helper, clientVars>>

-----------------------------------------------------------------------------
TagsInit ==
    /\ place = [w \in Windows |-> "unmapped"]
    /\ app = [w \in Windows |-> NoApp]
    /\ handle = [w \in Windows |-> Nothing]
    /\ helper = "starting"
    /\ known = <<>>
    /\ events = <<>>
    /\ requests = <<>>

Clients == \E w \in Windows :
    \/ Map(w) \/ SetAppId(w) \/ ToplevelDestroyed(w)
    \/ \E m \in Windows \cup {Nothing} : WindowRole(w, m)

TagsNext == Clients \/ Connect \/ TakeRequest \/ TakeEvent

\* Both processes run, and their sockets deliver.
TagsFairness == WF_tagsVars(Connect) /\ WF_tagsVars(TakeRequest) /\ WF_tagsVars(TakeEvent)

TagsSpec == TagsInit /\ [][TagsNext]_tagsVars /\ TagsFairness
-----------------------------------------------------------------------------
(* Properties.                                                             *)

\* Whatever is still on its way, the helper ends up knowing exactly the bare
\* Main Windows: a toplevel that is tagged, or closed and announced anew, is
\* neither lost nor kept.
KnowledgeCatchesUp ==
    LET arriving == {events[n].of.id : n \in {k \in DOMAIN events : events[k].kind = "done"}}
        leaving  == {events[n].id : n \in {k \in DOMAIN events : events[k].kind = "closed"}}
    IN helper = "running" => (DOMAIN known \cup arriving) \ leaving = Announced

\* "a target arriving before its intended main window" is not forgotten: no
\* untagged toplevel the helper knows waits while a rule finds it a main.
NothingWaits == \A i \in DOMAIN known : ~known[i].tagged => Matching(known, i) = {}

\* A toplevel is asked about once for each time it was announced.
AskedOnce ==
    /\ \A m, n \in DOMAIN requests : requests[m].target = requests[n].target => m = n
    /\ \A n \in DOMAIN requests :
          requests[n].target \in DOMAIN known => known[requests[n].target].tagged

\* The helper keeps up with the list, whatever is still on its way in either
\* direction (the three facts above, and the types).
CaughtUp == TagsTypeOK /\ KnowledgeCatchesUp /\ NothingWaits /\ AskedOnce

\* What a request of the helper puts below another window are windows that were
\* announced under the app ids of a rule, whatever happened to either while the
\* request was on its way; and those are their app ids, unless they had none yet.
TaggedByRule ==
    [][\A w, m \in Windows :
          place'[w] # place[w] /\ place'[w] = m /\ requests' # requests =>
             /\ \E n \in DOMAIN Rules :
                   Rules[n] = [target |-> handle[w].app, main |-> handle[m].app]
             /\ handle[w].app \in {app[w], NoApp} /\ handle[m].app \in {app[m], NoApp}]_tagsVars

\* mudhuts-authority-helper/src/main.rs:1: the helper "tags *other* clients'
\* toplevels [...] by simple exact `app_id` rules".
PairOpen(t, m) ==
    /\ {t, m} \subseteq Mains /\ HutOf[t] = HutOf[m] /\ t # m
    /\ \E n \in DOMAIN Rules : Rules[n] = [target |-> app[t], main |-> app[m]]
AppsAreTagged ==
    \A t, m \in Windows : PairOpen(t, m) ~> ~PairOpen(t, m) \/ helper = "refused"

\* main.rs:65: "a toplevel only ever gets tagged once": without clients doing
\* anything more, requests come to an end.
RequestsEnd == <>[][~Clients]_tagsVars => <>[](requests = <<>>)
=============================================================================
