---------------------------- MODULE MCGraphStack ----------------------------
(***************************************************************************)
(* GraphStack for TLC: the instances are numbers in the .cfg files.  Below *)
(* are three statements the repository makes of this code that the code    *)
(* does not keep.  They are in no run: TLC refutes each when it is added   *)
(* to a .cfg as an INVARIANT (the third one to the preview instance).      *)
(***************************************************************************)
EXTENDS GraphStack

\* No handler and no frame indexes past the end of an output's list: after a
\* failed respawn the compositor is said to shut down in a controlled way
\* (state.rs) instead of panicking.
NoPanic == loop # "panicked"

\* "An untouched entry is only ever the frontier": among the entries of an
\* output only the last one may be an untouched console (graph_stack.rs).
UntouchedIsFrontier ==
    \A o \in DOMAIN outputs : \A i \in DOMAIN outputs[o].huts :
      ~Touched(outputs[o].huts[i]) => i = Len(outputs[o].huts)

\* Letting go of the stack-hold modifier is what ends a preview session
\* (input.rs): none is left open anywhere.
ReleaseEndsPreview ==
    ~hold => \A o \in DOMAIN outputs : outputs[o].preview = 0
=============================================================================
