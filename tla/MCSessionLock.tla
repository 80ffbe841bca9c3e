---------------------------- MODULE MCSessionLock ----------------------------
(***************************************************************************)
(* SessionLock for TLC.  Below are two statements the repository makes of  *)
(* this code that the code does not keep.  They are in no run: TLC refutes *)
(* each when it is added to the .cfg as an INVARIANT.                      *)
(***************************************************************************)
EXTENDS SessionLock

\* session_lock.rs:25-27 has it that the locker is told only once a locked
\* frame has been presented: no display still shows the session.
ToldMeansPresented ==
    locked /\ ~pendingLock => \A c \in Plugged : screen[c] # "content"

\* udev_backend.rs:1087-1091 has it that without a display a locker has
\* nothing to wait for, and is answered rather than left hanging.
NoDisplayNoWait == ~(pendingLock /\ Plugged = {})
=============================================================================
