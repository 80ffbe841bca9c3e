----------------------------- MODULE ScreenCast -----------------------------
(***************************************************************************)
(* Screen casts of the portal backend (mudhuts-portal): the D-Bus tasks    *)
(* that serve CreateSession, Start, Close and Screenshot (screencast.rs,   *)
(* screenshot.rs), one PipeWire thread per cast (pipewire_stream.rs), and  *)
(* the one thread that is a client of the compositor and works through a   *)
(* queue of jobs (wayland.rs).  They share the session table, the queue    *)
(* and one reply channel per request; a step is what a task or thread does *)
(* between two waits.                                                      *)
(*                                                                         *)
(* A Start is named by its call, and so are the PipeWire thread it spawns  *)
(* and the capture session it gets.  The code keeps no such name: `by` of  *)
(* a job and the value of capture only tell the properties who asked.      *)
(* Left out: SelectSources, whose two fields nothing reads, frame contents *)
(* and encodings, and failures of the queue, whose receiver never goes.    *)
(***************************************************************************)
EXTENDS Naturals, Sequences, FiniteSets

CONSTANTS
    Sessions,  \* session handles the frontend may choose
    Calls,     \* Starts that may be in progress, or have left a cast, at a time
    None

ASSUME CallNames == None \notin Calls /\ Calls \cap {"none", "open"} = {}

VARIABLES
    wayland,  \* did the Wayland thread connect, or does it only drain its jobs
    session,  \* the session table: "none", "open", or the call whose cast it has
    call,     \* Start: "idle", awaiting the capture size, or the node id
    of,       \* the session a Start is for
    size,     \* the reply channel of its StartCapture
    node,     \* the channel of its node id
    thread,   \* its PipeWire thread
    quit,     \* has that thread been sent Quit
    jobs,     \* the job queue; the Wayland thread is at work on the head
    capture,  \* AppState::cast
    shot      \* is a Screenshot waiting for its answer

taskVars   == <<session, call, of>>
threadVars == <<node, thread, quit>>
vars == <<wayland, taskVars, size, threadVars, jobs, capture, shot>>

Job == [kind : {"start", "frame", "stop"}, by : Calls] \cup [kind : {"shot"}, by : {None}]

TypeOK ==
    /\ wayland \in {"up", "down"}
    /\ session \in [Sessions -> {"none", "open"} \cup Calls]
    /\ call \in [Calls -> {"idle", "sizing", "pairing"}]
    /\ of \in [Calls -> Sessions]
    /\ size \in [Calls -> {"none", "ok", "err"}]
    /\ node \in [Calls -> {"none", "id", "err", "dropped"}]
    /\ thread \in [Calls -> {"gone", "setup", "loop", "asking"}]
    /\ quit \in [Calls -> BOOLEAN]
    /\ jobs \in Seq(Job)
    /\ capture \in Calls \cup {None}
    /\ shot \in BOOLEAN

Queued(kind, c) == \E i \in DOMAIN jobs : jobs[i] = [kind |-> kind, by |-> c]
Send(kind, c)   == Append(jobs, [kind |-> kind, by |-> c])
HasCast(s)      == session[s] \in Calls
CastOf(c)       == {s \in Sessions : session[s] = c}

-----------------------------------------------------------------------------
(* The D-Bus tasks. *)

\* create_session.  The frontend chooses a handle it has no session at.
CreateSession(s) ==
    /\ session[s] = "none"
    /\ session' = [session EXCEPT ![s] = "open"]
    /\ UNCHANGED <<wayland, call, of, size, threadVars, jobs, capture, shot>>

\* start, up to its first wait.  An unknown session, or one with a cast, is
\* refused.  A call is free again once nothing of its last use is left.
Start(c, s) ==
    /\ call[c] = "idle" /\ thread[c] = "gone"
    /\ CastOf(c) = {} /\ capture # c
    /\ ~Queued("start", c) /\ ~Queued("stop", c) /\ ~Queued("frame", c)
    /\ session[s] = "open"
    /\ call' = [call EXCEPT ![c] = "sizing"]
    /\ of' = [of EXCEPT ![c] = s]
    /\ size' = [size EXCEPT ![c] = "none"]
    /\ jobs' = Send("start", c)
    /\ UNCHANGED <<wayland, session, threadVars, capture, shot>>

\* The answer to StartCapture: an error ends the Start, a size starts the
\* PipeWire thread.
Sized(c) ==
    /\ call[c] = "sizing" /\ size[c] # "none"
    /\ \/ /\ size[c] = "err"
          /\ call' = [call EXCEPT ![c] = "idle"]
          /\ UNCHANGED threadVars
       \/ /\ size[c] = "ok"
          /\ call' = [call EXCEPT ![c] = "pairing"]
          /\ node' = [node EXCEPT ![c] = "none"]
          /\ thread' = [thread EXCEPT ![c] = "setup"]
          /\ quit' = [quit EXCEPT ![c] = FALSE]
    /\ UNCHANGED <<wayland, session, of, size, jobs, capture, shot>>

\* (the bug of a mutant: a capture that is never given up)
KeepCapture(c) == jobs

\* PwCast::stop and Job::StopCapture, which give a cast up.
StopCapture(c) == Send("stop", c)
StopThread(c)  == [quit EXCEPT ![c] = TRUE]

\* The node id arrived: the session gets the cast, unless it closed meanwhile.
Paired(c) ==
    /\ call[c] = "pairing" /\ node[c] = "id"
    /\ call' = [call EXCEPT ![c] = "idle"]
    /\ IF session[of[c]] # "none"
         THEN session' = [session EXCEPT ![of[c]] = c] /\ UNCHANGED <<quit, jobs>>
         ELSE quit' = StopThread(c) /\ jobs' = StopCapture(c) /\ UNCHANGED session
    /\ UNCHANGED <<wayland, of, size, node, thread, capture, shot>>

\* (the bug of a mutant: no five seconds' limit)
GiveUpOnAnswer(c) == node[c] \in {"err", "dropped"}

\* When a Start stops waiting without a node id, which wins over the timeout.
MayGiveUp(c) == node[c] # "id"

\* The stream failed, its thread returned without a word, or five seconds
\* passed.
GiveUp(c) ==
    /\ call[c] = "pairing" /\ MayGiveUp(c)
    /\ call' = [call EXCEPT ![c] = "idle"]
    /\ quit' = IF node[c] = "dropped" THEN quit ELSE StopThread(c)
    /\ jobs' = StopCapture(c)
    /\ UNCHANGED <<wayland, session, of, size, node, thread, capture, shot>>

\* (the bug of a mutant: a cast that is not given up)
CloseForgets(s) == quit' = quit /\ jobs' = jobs

\* What close does with the cast of session s.
CloseCast(s) ==
    IF HasCast(s)
      THEN quit' = StopThread(session[s]) /\ jobs' = StopCapture(session[s])
      ELSE UNCHANGED <<quit, jobs>>

\* SessionImpl::close
Close(s) ==
    /\ session[s] # "none"
    /\ session' = [session EXCEPT ![s] = "none"]
    /\ CloseCast(s)
    /\ UNCHANGED <<wayland, call, of, size, node, thread, capture, shot>>

\* ScreenshotBackend::screenshot, one at a time here.
Screenshot ==
    /\ ~shot
    /\ shot' = TRUE
    /\ jobs' = Send("shot", None)
    /\ UNCHANGED <<wayland, taskVars, size, threadVars, capture>>

-----------------------------------------------------------------------------
(* The PipeWire threads. *)

\* What Start hears of a failing setup: the error while the thread still has the
\* sender at hand, nothing once the stream's listener has taken it over.
EarlyFailure == "err"
LateFailure  == "dropped"

\* run, up to mainloop.run
SetUp(c) ==
    /\ thread[c] = "setup"
    /\ \/ thread' = [thread EXCEPT ![c] = "loop"] /\ UNCHANGED node
       \/ /\ thread' = [thread EXCEPT ![c] = "gone"]
          /\ \E reply \in {EarlyFailure, LateFailure} : node' = [node EXCEPT ![c] = reply]
    /\ UNCHANGED <<wayland, taskVars, size, quit, jobs, capture, shot>>

\* state_changed: the first Paused or Error is reported.
StateChanged(c) ==
    /\ thread[c] = "loop" /\ node[c] = "none"
    /\ \E reply \in {"id", "err"} : node' = [node EXCEPT ![c] = reply]
    /\ UNCHANGED <<wayland, taskVars, size, thread, quit, jobs, capture, shot>>

\* process: a consumer wants a frame, and the thread waits for it.
Process(c) ==
    /\ thread[c] = "loop" /\ node[c] = "id"
    /\ thread' = [thread EXCEPT ![c] = "asking"]
    /\ jobs' = Send("frame", c)
    /\ UNCHANGED <<wayland, taskVars, size, node, quit, capture, shot>>

Quit(c) ==
    /\ thread[c] = "loop" /\ quit[c]
    /\ thread' = [thread EXCEPT ![c] = "gone"]
    /\ UNCHANGED <<wayland, taskVars, size, node, quit, jobs, capture, shot>>

-----------------------------------------------------------------------------
(* The Wayland thread (wayland.rs, run and drain_with_error). *)

Working(kind) ==
    /\ jobs # <<>> /\ Head(jobs).kind = kind
    /\ jobs' = Tail(jobs)
    /\ UNCHANGED <<wayland, taskVars, quit>>

\* With no compositor, or none that speaks the protocols, every job fails.
Connected == wayland = "up"

\* (the bug of a mutant: a second capture session replaces the first)
ReplacesCapture == Connected

\* start_capture only makes a session when there is none; the compositor may
\* still refuse it.
MayCapture == Connected /\ capture = None

DoStartCapture ==
    /\ Working("start")
    /\ LET c == Head(jobs).by
       IN \/ /\ MayCapture
             /\ capture' = c
             /\ size' = [size EXCEPT ![c] = "ok"]
          \/ /\ size' = [size EXCEPT ![c] = "err"]
             /\ UNCHANGED capture
    /\ UNCHANGED <<node, thread, shot>>

\* capture_next_frame: an image or an error, the thread goes on either way.
DoCaptureFrame ==
    /\ Working("frame")
    /\ thread' = [thread EXCEPT ![Head(jobs).by] = "loop"]
    /\ UNCHANGED <<node, size, capture, shot>>

DoStopCapture ==
    /\ Working("stop")
    /\ capture' = None
    /\ UNCHANGED <<node, thread, size, shot>>

\* capture_once
DoScreenshot ==
    /\ Working("shot")
    /\ shot' = FALSE
    /\ UNCHANGED <<node, thread, size, capture>>

WaylandThread == DoStartCapture \/ DoCaptureFrame \/ DoStopCapture \/ DoScreenshot

-----------------------------------------------------------------------------
Init ==
    /\ wayland \in {"up", "down"}
    /\ session = [s \in Sessions |-> "none"]
    /\ call = [c \in Calls |-> "idle"]
    /\ of \in [Calls -> Sessions]
    /\ \A c, d \in Calls : of[c] = of[d]
    /\ size = [c \in Calls |-> "none"]
    /\ node = [c \in Calls |-> "none"]
    /\ thread = [c \in Calls |-> "gone"]
    /\ quit = [c \in Calls |-> FALSE]
    /\ jobs = <<>>
    /\ capture = None
    /\ shot = FALSE

Frontend ==
    \/ \E s \in Sessions : CreateSession(s) \/ Close(s) \/ \E c \in Calls : Start(c, s)
    \/ Screenshot

Task(c)     == Sized(c) \/ Paired(c) \/ GiveUp(c)
PwThread(c) == SetUp(c) \/ StateChanged(c) \/ Process(c) \/ Quit(c)

Next == Frontend \/ WaylandThread \/ \E c \in Calls : Task(c) \/ PwThread(c)

\* The Wayland thread and the tasks make progress, the five seconds pass, and a
\* PipeWire thread finishes its setup and reads its Quit between two frames.
Fairness ==
    /\ WF_vars(WaylandThread)
    /\ \A c \in Calls : WF_vars(Task(c)) /\ WF_vars(SetUp(c)) /\ SF_vars(Quit(c))

Spec == Init /\ [][Next]_vars /\ Fairness
-----------------------------------------------------------------------------
(* Properties. *)

\* Who answers for the capture session: a Start that has its size, a session
\* that has its cast, or a StopCapture on its way.
Granted(c) == (call[c] = "sizing" /\ size[c] = "ok") \/ call[c] = "pairing"
Holds(c)   == Granted(c) \/ CastOf(c) # {} \/ Queued("stop", c)

\* The one capture session is owned by exactly the Start that got it, through
\* every failure, timeout and close, and is released exactly once: it is never
\* left behind, and no StopCapture reaches a capture session of someone else.
OneHolder ==
    /\ \A c \in Calls : Holds(c) <=> capture = c
    /\ \A c \in Calls :
         /\ ~(Granted(c) /\ CastOf(c) # {})
         /\ Queued("stop", c) => ~Granted(c) /\ CastOf(c) = {}
    /\ \A i, j \in DOMAIN jobs : jobs[i].kind = "stop" /\ jobs[j].kind = "stop" => i = j

\* A PipeWire thread that nobody can stop any more is one that is ending: it was
\* sent Quit, or the Start or the session that answers for it is still there.
ThreadsOwned ==
    \A c \in Calls : thread[c] # "gone" => quit[c] \/ call[c] = "pairing" \/ CastOf(c) # {}

\* Everything a cast needs has exactly one that answers for it (and the types).
CastsAreOwned == TypeOK /\ OneHolder /\ ThreadsOwned

\* Two sessions never share a cast, and a session that has one never gets
\* another in its place, whatever Starts overlap: a replaced cast would stream
\* on for good, since dropping it does not stop its thread.
CastsAreKept ==
    [][\A s \in Sessions : HasCast(s) /\ session'[s] # session[s] => session'[s] = "none"]_vars

\* Every Start is answered.
StartAnswered == \A c \in Calls : call[c] # "idle" ~> call[c] = "idle"

\* Once no Start and no session answers for a cast, its thread ends and the
\* capture session is free for others.
Abandoned(c) == call[c] = "idle" /\ CastOf(c) = {}
CastEnds == \A c \in Calls : Abandoned(c) ~> ~Abandoned(c) \/ (thread[c] = "gone" /\ capture # c)
=============================================================================
