----------------------------- MODULE MCTermFrames -----------------------------
(* TermFrames for TLC: a terminal of a few cells and one line of history.    *)
EXTENDS TermFrames
===============================================================================
