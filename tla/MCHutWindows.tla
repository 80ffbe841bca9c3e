---------------------------- MODULE MCHutWindows ----------------------------
(***************************************************************************)
(* HutWindows for TLC, with a statement the repository makes of this code  *)
(* that the code does not keep: it is in no run, and TLC refutes it when   *)
(* it is added to the .cfg as an INVARIANT.                                *)
(***************************************************************************)
EXTENDS HutWindows, TLC

Sym == Permutations(Windows) \cup Permutations(Huts)

\* input.rs:484-486 has it that a window keeps no stale focus while the
\* terminal hides it.  A live drag suspends the resync, so it is only asked of
\* states without one.
NoFocusWhileHidden ==
    dragging = None /\ TerminalEffective(focused) => keyboard \notin Alive
=============================================================================
