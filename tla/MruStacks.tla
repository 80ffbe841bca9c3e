------------------------------ MODULE MruStacks ------------------------------
(***************************************************************************)
(* What the stack of huts promises a user: every output has one list of    *)
(* entries, most recently used first, and shows one of them.  Walking the  *)
(* list never reorders it, only settling on an entry does; what opens goes *)
(* to the end; what is not the user's doing leaves on screen what was on   *)
(* screen, unless it is the very entry that closed.                        *)
(*                                                                         *)
(* Which entries count as used is the user's business and the clients':    *)
(* `used` changes freely, and no walk discards an entry that is in it.     *)
(***************************************************************************)
EXTENDS Integers, SequencesExt

CONSTANTS
    Entries     \* everything that can be listed

VARIABLES
    stacks,     \* one [list, shown] per output: its entries, and which is shown
    focus,      \* the output the keyboard is on
    used        \* the entries someone has used

vars == <<stacks, focus>>

Listed   == UNION {ToSet(stacks[o].list) : o \in DOMAIN stacks}
Unlisted == Entries \ Listed

\* What may be opened along with another change: nothing, or one new entry.
Opened == {<<>>} \cup {<<e>> : e \in Unlisted}

OneEntry(e) == [list |-> <<e>>, shown |-> 1]
Fronted(s)  == [list |-> <<s.list[s.shown]>> \o RemoveAt(s.list, s.shown), shown |-> 1]

Change(o, new) ==
    /\ stacks' = [stacks EXCEPT ![o] = new]
    /\ UNCHANGED focus

Init ==
    /\ \E e \in Entries : stacks = <<OneEntry(e)>>
    /\ focus = 1

-----------------------------------------------------------------------------
(* The user, on the output in focus.                                       *)

\* One entry on, one back, or straight to the last.
Turn ==
    \E p \in DOMAIN stacks[focus].list :
        /\ p \in {stacks[focus].shown - 1, stacks[focus].shown + 1,
                  Len(stacks[focus].list)}
        /\ Change(focus, [stacks[focus] EXCEPT !.shown = p])

\* A new entry at the end, shown at once or not.
Grow ==
    \E e \in Unlisted : LET grown == Append(stacks[focus].list, e) IN
        \E p \in {stacks[focus].shown, Len(grown)} :
            Change(focus, [list |-> grown, shown |-> p])

\* Turning away from an entry nobody used drops it: what is shown next is the
\* one before it, or the last, which may be a new one.
Discard ==
    LET s == stacks[focus] IN
    /\ s.shown \in DOMAIN s.list
    /\ s.list[s.shown] \notin used
    /\ \E more \in Opened : LET left == RemoveAt(s.list, s.shown) \o more IN
         \E p \in DOMAIN left \cap {s.shown - 1, Len(left)} :
            Change(focus, [list |-> left, shown |-> p])

\* Settling on the entry shown: it becomes the first one, and used.
Settle ==
    LET s == stacks[focus] IN
    /\ s.shown \in DOMAIN s.list
    /\ s.list[s.shown] \in used'
    /\ Change(focus, Fronted(s))

\* The entry shown, settled on or not, becomes part of a new one in its place.
Wrap ==
    /\ stacks[focus].shown \in DOMAIN stacks[focus].list
    /\ \E e \in Unlisted, s \in {stacks[focus], Fronted(stacks[focus])} :
         Change(focus, [s EXCEPT !.list = [@ EXCEPT ![s.shown] = e]])

-----------------------------------------------------------------------------
(* What happens to any output.                                             *)

\* Entry i closes.  What was shown is still shown; if it is entry i itself, a
\* neighbour takes its place.  Only a list with nothing left is refilled.
Close(o, i) ==
    LET s == stacks[o] IN
    \E more \in Opened : LET left == RemoveAt(s.list, i) \o more IN
        /\ Len(s.list) > 1 => more = <<>>
        /\ \E p \in 1..Len(s.list) :
            /\ left # <<>> => p \in DOMAIN left
            /\ IF s.shown = i THEN p \in {i - 1, i} ELSE left[p] = s.list[s.shown]
            /\ Change(o, [list |-> left, shown |-> p])

\* A part of entry i closes, and the last other part stands in for the entry.
Survive(o, i) ==
    \E e \in Unlisted :
        Change(o, [stacks[o] EXCEPT !.list = [@ EXCEPT ![i] = e]])

Plug ==
    /\ \E e \in Unlisted : stacks' = Append(stacks, OneEntry(e))
    /\ UNCHANGED focus

\* Unplugging takes one list away; the focus stays on its output if it can.
Unplug(o) ==
    /\ stacks' = RemoveAt(stacks, o)
    /\ focus' \in DOMAIN stacks'
    /\ focus # o => stacks'[focus'] = stacks[focus]

Look(o) ==
    /\ focus' = o
    /\ UNCHANGED stacks

Next ==
    \/ Turn \/ Grow \/ Discard \/ Settle \/ Wrap
    \/ \E o \in DOMAIN stacks :
        \/ \E i \in DOMAIN stacks[o].list : Close(o, i) \/ Survive(o, i)
        \/ Unplug(o)
        \/ Look(o)
    \/ Plug

Spec == Init /\ [][Next]_vars
=============================================================================
