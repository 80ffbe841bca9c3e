--------------------------- MODULE Helpers_proofs ---------------------------
(***************************************************************************)
(* Theorems about the programs that run beside the compositor: the portal  *)
(* backend's casts (ScreenCast), for any sessions and any number of Starts *)
(* in progress, and the authority helper (AuthorityTags), for any windows, *)
(* rules and identifiers and queues of any length.                         *)
(***************************************************************************)
EXTENDS ScreenCast, AuthorityTags, FiniteSetTheorems, TLAPS

-----------------------------------------------------------------------------
(* The job queue.                                                          *)

Kinds == {"start", "frame", "stop"}

\* No job but a screenshot is queued twice.
Unique ==
    \A i, j \in DOMAIN jobs : jobs[i] = jobs[j] /\ jobs[i].kind # "shot" => i = j

\* Sending a job that is not queued yet.
LEMMA Sent ==
    ASSUME jobs \in Seq(Job), Unique, NEW kind \in Kinds, NEW c \in Calls,
           ~Queued(kind, c), jobs' = Send(kind, c)
    PROVE  /\ jobs' \in Seq(Job) /\ Unique'
           /\ \A k \in Kinds, d \in Calls :
                Queued(k, d)' <=> Queued(k, d) \/ (k = kind /\ d = c)
<1> DEFINE job == [kind |-> kind, by |-> c]
<1>1. job \in Job
  BY DEF Job, Kinds
<1>2. /\ jobs' \in Seq(Job) /\ Len(jobs') = Len(jobs) + 1 /\ Len(jobs) \in Nat
      /\ DOMAIN jobs = 1..Len(jobs) /\ DOMAIN jobs' = 1..(Len(jobs) + 1)
      /\ \A i \in 1..Len(jobs) : jobs'[i] = jobs[i]
      /\ jobs'[Len(jobs) + 1] = job
  BY <1>1 DEF Send
<1>3. \A i \in 1..Len(jobs) : jobs[i] # job
  BY <1>2 DEF Queued
<1>4. job.kind = kind /\ job.by = c
  OBVIOUS
<1> HIDE DEF job
<1>5. Unique'
  <2> SUFFICES ASSUME NEW i \in 1..(Len(jobs) + 1), NEW j \in 1..(Len(jobs) + 1),
                      jobs'[i] = jobs'[j], jobs'[i].kind # "shot"
               PROVE  i = j
    BY <1>2 DEF Unique
  <2>1. CASE i \in 1..Len(jobs) /\ j \in 1..Len(jobs)
    BY <2>1, <1>2 DEF Unique
  <2>2. CASE i \notin 1..Len(jobs) \/ j \notin 1..Len(jobs)
    BY <2>2, <1>2, <1>3
  <2> QED BY <2>1, <2>2
<1>6. ASSUME NEW k \in Kinds, NEW d \in Calls
      PROVE  Queued(k, d)' <=> Queued(k, d) \/ (k = kind /\ d = c)
  <2> DEFINE other == [kind |-> k, by |-> d]
  <2>1. other = job <=> k = kind /\ d = c
    BY DEF job
  <2> HIDE DEF other
  <2>2. (\E i \in 1..(Len(jobs) + 1) : jobs'[i] = other) <=>
          (\E i \in 1..Len(jobs) : jobs[i] = other) \/ other = job
    <3>1. ASSUME NEW i \in 1..(Len(jobs) + 1), jobs'[i] = other
          PROVE  (\E n \in 1..Len(jobs) : jobs[n] = other) \/ other = job
      <4>1. CASE i \in 1..Len(jobs)
        BY <3>1, <4>1, <1>2
      <4>2. CASE i = Len(jobs) + 1
        BY <3>1, <4>2, <1>2
      <4> QED BY <4>1, <4>2, <1>2
    <3>2. ASSUME NEW i \in 1..Len(jobs), jobs[i] = other
          PROVE  i \in 1..(Len(jobs) + 1) /\ jobs'[i] = other
      BY <3>2, <1>2
    <3>3. Len(jobs) + 1 \in 1..(Len(jobs) + 1)
      BY <1>2
    <3> QED BY <3>1, <3>2, <3>3, <1>2
  <2> QED BY <2>1, <2>2, <1>2 DEF Queued, other
<1> QED BY <1>2, <1>5, <1>6

\* Asking for a screenshot.
LEMMA SentShot ==
    ASSUME jobs \in Seq(Job), Unique, jobs' = Send("shot", None)
    PROVE  /\ jobs' \in Seq(Job) /\ Unique'
           /\ \A k \in Kinds, d \in Calls : Queued(k, d)' <=> Queued(k, d)
<1> DEFINE job == [kind |-> "shot", by |-> None]
<1>1. job \in Job /\ job.kind = "shot"
  BY DEF Job
<1>2. /\ jobs' \in Seq(Job) /\ Len(jobs') = Len(jobs) + 1 /\ Len(jobs) \in Nat
      /\ DOMAIN jobs = 1..Len(jobs) /\ DOMAIN jobs' = 1..(Len(jobs) + 1)
      /\ \A i \in 1..Len(jobs) : jobs'[i] = jobs[i]
      /\ jobs'[Len(jobs) + 1] = job
  BY <1>1 DEF Send
<1> HIDE DEF job
<1>5. Unique'
  <2> SUFFICES ASSUME NEW i \in 1..(Len(jobs) + 1), NEW j \in 1..(Len(jobs) + 1),
                      jobs'[i] = jobs'[j], jobs'[i].kind # "shot"
               PROVE  i = j
    BY <1>2 DEF Unique
  <2>1. i \in 1..Len(jobs) /\ j \in 1..Len(jobs)
    BY <1>1, <1>2
  <2> QED BY <2>1, <1>2 DEF Unique
<1>6. ASSUME NEW k \in Kinds, NEW d \in Calls
      PROVE  Queued(k, d)' <=> Queued(k, d)
  <2> DEFINE other == [kind |-> k, by |-> d]
  <2>1. other # job
    BY DEF job, Kinds
  <2> HIDE DEF other
  <2>2. (\E i \in 1..(Len(jobs) + 1) : jobs'[i] = other) <=>
          (\E i \in 1..Len(jobs) : jobs[i] = other)
    <3>1. ASSUME NEW i \in 1..(Len(jobs) + 1), jobs'[i] = other
          PROVE  i \in 1..Len(jobs) /\ jobs[i] = other
      BY <3>1, <2>1, <1>2
    <3>2. ASSUME NEW i \in 1..Len(jobs), jobs[i] = other
          PROVE  i \in 1..(Len(jobs) + 1) /\ jobs'[i] = other
      BY <3>2, <1>2
    <3> QED BY <3>1, <3>2
  <2> QED BY <2>2, <1>2 DEF Queued, other
<1> QED BY <1>2, <1>5, <1>6

\* The Wayland thread takes the first job.
LEMMA Taken ==
    ASSUME jobs \in Seq(Job), Unique, jobs # <<>>, jobs' = Tail(jobs)
    PROVE  /\ jobs' \in Seq(Job) /\ Unique'
           /\ Head(jobs) \in Job
           /\ \A k \in Kinds, d \in Calls :
                Queued(k, d)' <=> Queued(k, d) /\ Head(jobs) # [kind |-> k, by |-> d]
           /\ \A k \in Kinds, d \in Calls :
                Head(jobs) = [kind |-> k, by |-> d] => Queued(k, d)
<1>1. /\ jobs' \in Seq(Job) /\ Len(jobs') = Len(jobs) - 1 /\ Len(jobs) \in Nat \ {0}
      /\ DOMAIN jobs = 1..Len(jobs) /\ DOMAIN jobs' = 1..(Len(jobs) - 1)
      /\ \A i \in 1..(Len(jobs) - 1) : jobs'[i] = jobs[i + 1]
      /\ Head(jobs) = jobs[1] /\ 1 \in 1..Len(jobs)
  OBVIOUS
<1>2. Head(jobs) \in Job
  BY <1>1
<1>3. Unique'
  <2> SUFFICES ASSUME NEW i \in 1..(Len(jobs) - 1), NEW j \in 1..(Len(jobs) - 1),
                      jobs'[i] = jobs'[j], jobs'[i].kind # "shot"
               PROVE  i = j
    BY <1>1 DEF Unique
  <2>1. i + 1 \in 1..Len(jobs) /\ j + 1 \in 1..Len(jobs) /\ jobs[i + 1] = jobs[j + 1]
        /\ jobs[i + 1].kind # "shot"
    BY <1>1
  <2>2. i + 1 = j + 1
    BY <2>1, <1>1 DEF Unique
  <2> QED BY <2>2
<1>4. ASSUME NEW k \in Kinds, NEW d \in Calls
      PROVE  /\ Queued(k, d)' <=> Queued(k, d) /\ Head(jobs) # [kind |-> k, by |-> d]
             /\ Head(jobs) = [kind |-> k, by |-> d] => Queued(k, d)
  <2> DEFINE job == [kind |-> k, by |-> d]
  <2>1. job.kind # "shot"
    BY DEF Kinds
  <2> HIDE DEF job
  <2>2. ASSUME NEW i \in 1..(Len(jobs) - 1), jobs'[i] = job
        PROVE  (\E n \in 1..Len(jobs) : jobs[n] = job) /\ jobs[1] # job
    <3>1. i + 1 \in 1..Len(jobs) /\ jobs[i + 1] = job /\ i + 1 # 1
      BY <2>2, <1>1
    <3>2. jobs[1] # job
      BY <3>1, <2>1, <1>1 DEF Unique
    <3> QED BY <3>1, <3>2
  <2>3. ASSUME NEW n \in 1..Len(jobs), jobs[n] = job, jobs[1] # job
        PROVE  \E i \in 1..(Len(jobs) - 1) : jobs'[i] = job
    <3>1. n - 1 \in 1..(Len(jobs) - 1) /\ jobs'[n - 1] = job
      BY <2>3, <1>1
    <3> QED BY <3>1
  <2> QED BY <2>2, <2>3, <1>1 DEF Queued, job
<1> QED BY <1>1, <1>2, <1>3, <1>4

-----------------------------------------------------------------------------
(* The inductive invariant.                                                *)

\* A StartCapture is queued only while its Start waits for it, a frame only
\* while its thread does.
QueueInv ==
    /\ Unique
    /\ \A c \in Calls : Queued("start", c) => call[c] = "sizing" /\ size[c] = "none"
    /\ \A c \in Calls : Queued("frame", c) => thread[c] = "asking"

\* Who answers for the capture session is who has it, in one of the three ways,
\* and no two sessions have the same cast.
OwnInv ==
    /\ \A c \in Calls : Holds(c) <=> capture = c
    /\ \A c \in Calls :
         /\ ~(Granted(c) /\ CastOf(c) # {})
         /\ Queued("stop", c) => ~Granted(c) /\ CastOf(c) = {}
    /\ \A s, t \in Sessions : HasCast(s) /\ session[s] = session[t] => s = t

\* A thread nobody answers for is ending, one that dropped its channel is gone,
\* and a Start without its size has none yet.
ThreadInv ==
    /\ ThreadsOwned
    /\ \A c \in Calls : node[c] = "dropped" => thread[c] = "gone"
    /\ \A c \in Calls : call[c] = "sizing" => thread[c] = "gone"

IInv == TypeOK /\ QueueInv /\ OwnInv /\ ThreadInv

TaskTypes ==
    /\ wayland \in {"up", "down"}
    /\ session \in [Sessions -> {"none", "open"} \cup Calls]
    /\ call \in [Calls -> {"idle", "sizing", "pairing"}]
    /\ of \in [Calls -> Sessions]

OtherTypes ==
    /\ size \in [Calls -> {"none", "ok", "err"}]
    /\ node \in [Calls -> {"none", "id", "err", "dropped"}]
    /\ thread \in [Calls -> {"gone", "setup", "loop", "asking"}]
    /\ quit \in [Calls -> BOOLEAN]
    /\ jobs \in Seq(Job)
    /\ capture \in Calls \cup {None}
    /\ shot \in BOOLEAN

\* What the type invariant says, in the form the steps use.
LEMMA Types == TypeOK <=> TaskTypes /\ OtherTypes
  BY DEF TypeOK, TaskTypes, OtherTypes

\* Holding in terms of the table and the queue alone.
LEMMA Holding ==
    ASSUME NEW c \in Calls
    PROVE  Holds(c) <=> \/ call[c] = "sizing" /\ size[c] = "ok"
                        \/ call[c] = "pairing"
                        \/ \E s \in Sessions : session[s] = c
                        \/ Queued("stop", c)
  BY DEF Holds, Granted, CastOf

-----------------------------------------------------------------------------
(* The tasks.                                                              *)

\* CreateSession keeps the inductive invariant.
LEMMA CreateSessionKeeps == ASSUME IInv, NEW s \in Sessions, CreateSession(s) PROVE IInv'
<1> USE DEF IInv, CreateSession
<1>1. TypeOK'
  BY DEF TypeOK, threadVars
<1>2. QueueInv'
  BY DEF QueueInv, Unique, Queued, threadVars
<1>3. ThreadInv' /\ OwnInv'
  <2>1. \A c \in Calls : CastOf(c)' = CastOf(c)
    BY CallNames DEF CastOf, TypeOK
  <2>2. ThreadInv'
    BY <2>1 DEF ThreadInv, ThreadsOwned, threadVars
  <2>3. \A c \in Calls : Granted(c)' = Granted(c) /\ Queued("stop", c)' = Queued("stop", c)
    BY DEF Granted, Queued
  <2>4. \A t, u \in Sessions : HasCast(t)' /\ session'[t] = session'[u] => t = u
    BY CallNames DEF OwnInv, HasCast, TypeOK
  <2>5. \A c \in Calls : Holds(c)' <=> capture' = c
    BY <2>1, <2>3 DEF OwnInv, Holds
  <2>6. \A c \in Calls : /\ ~(Granted(c) /\ CastOf(c) # {})'
                         /\ Queued("stop", c)' => (~Granted(c) /\ CastOf(c) = {})'
    BY <2>1, <2>3 DEF OwnInv
  <2> QED BY <2>2, <2>4, <2>5, <2>6 DEF OwnInv
<1> QED BY <1>1, <1>2, <1>3

\* Start keeps the inductive invariant.
LEMMA StartKeeps == ASSUME IInv, NEW c \in Calls, NEW s \in Sessions, Start(c, s) PROVE IInv'
<1> USE DEF IInv, Start
<1>1. /\ jobs' \in Seq(Job) /\ Unique'
      /\ \A k \in Kinds, d \in Calls : Queued(k, d)' <=> Queued(k, d) \/ (k = "start" /\ d = c)
  BY Sent DEF TypeOK, QueueInv, Kinds
<1>2. TypeOK'
  BY <1>1 DEF TypeOK, threadVars
<1>3. QueueInv'
  BY <1>1 DEF QueueInv, TypeOK, threadVars, Kinds
<1>4. \A d \in Calls : CastOf(d)' = CastOf(d) /\ (Queued("stop", d)' <=> Queued("stop", d))
  BY <1>1 DEF CastOf, Kinds
<1>5. \A d \in Calls : Granted(d)' <=> Granted(d)
  BY DEF Granted, TypeOK
<1>6. ThreadInv'
  BY <1>4 DEF ThreadInv, ThreadsOwned, TypeOK, threadVars
<1>7. OwnInv'
  <2>1. \A d \in Calls : Holds(d)' <=> capture' = d
    BY <1>4, <1>5 DEF OwnInv, Holds
  <2>2. \A d \in Calls : /\ ~(Granted(d) /\ CastOf(d) # {})'
                         /\ Queued("stop", d)' => (~Granted(d) /\ CastOf(d) = {})'
    BY <1>4, <1>5 DEF OwnInv
  <2>3. \A t, u \in Sessions : HasCast(t)' /\ session'[t] = session'[u] => t = u
    BY DEF OwnInv, HasCast
  <2> QED BY <2>1, <2>2, <2>3 DEF OwnInv
<1> QED BY <1>2, <1>3, <1>6, <1>7

\* Sized keeps the inductive invariant.
LEMMA SizedKeeps == ASSUME IInv, NEW c \in Calls, Sized(c) PROVE IInv'
<1> USE DEF IInv, Sized
<1>1. TypeOK'
  <2>1. TaskTypes'
    BY Types DEF TaskTypes
  <2>2. OtherTypes'
    BY Types DEF OtherTypes, threadVars
  <2> QED BY <2>1, <2>2 DEF TypeOK, TaskTypes, OtherTypes
<1>2. \A d \in Calls : /\ CastOf(d)' = CastOf(d)
                       /\ \A k \in Kinds : Queued(k, d)' <=> Queued(k, d)
  BY DEF CastOf, Queued
<1>3. \A d \in Calls : Granted(d)' <=> Granted(d)
  BY DEF Granted, TypeOK
<1>4. ~Queued("start", c)
  BY DEF QueueInv, TypeOK
<1>5. QueueInv'
  <2>1. Unique'
    BY DEF QueueInv, Unique
  <2>2. \A d \in Calls : Queued("start", d)' => call'[d] = "sizing" /\ size'[d] = "none"
    BY <1>2, <1>4 DEF QueueInv, TypeOK, Kinds
  <2>3. \A d \in Calls : Queued("frame", d)' => thread'[d] = "asking"
    BY <1>2 DEF QueueInv, ThreadInv, TypeOK, Kinds, threadVars
  <2> QED BY <2>1, <2>2, <2>3 DEF QueueInv
<1>6. ThreadInv'
  BY <1>2 DEF ThreadInv, ThreadsOwned, TypeOK, threadVars
<1>7. OwnInv'
  <2>1. \A d \in Calls : Holds(d)' <=> capture' = d
    BY <1>2, <1>3 DEF OwnInv, Holds, Kinds
  <2>2. \A d \in Calls : /\ ~(Granted(d) /\ CastOf(d) # {})'
                         /\ Queued("stop", d)' => (~Granted(d) /\ CastOf(d) = {})'
    BY <1>2, <1>3 DEF OwnInv, Kinds
  <2>3. \A t, u \in Sessions : HasCast(t)' /\ session'[t] = session'[u] => t = u
    BY DEF OwnInv, HasCast
  <2> QED BY <2>1, <2>2, <2>3 DEF OwnInv
<1> QED BY <1>1, <1>5, <1>6, <1>7

\* A step that changes nothing about who answers for what.
LEMMA OwnKept ==
    ASSUME OwnInv, UNCHANGED <<session, capture>>,
           \A c \in Calls : Granted(c)' <=> Granted(c),
           \A c \in Calls : Queued("stop", c)' <=> Queued("stop", c)
    PROVE  OwnInv'
<1>1. \A c \in Calls : CastOf(c)' = CastOf(c)
  BY DEF CastOf
<1>2. \A d \in Calls : Holds(d)' <=> capture' = d
  BY <1>1 DEF OwnInv, Holds
<1>3. \A d \in Calls : /\ ~(Granted(d) /\ CastOf(d) # {})'
                       /\ Queued("stop", d)' => (~Granted(d) /\ CastOf(d) = {})'
  BY <1>1 DEF OwnInv
<1>4. \A t, u \in Sessions : HasCast(t)' /\ session'[t] = session'[u] => t = u
  BY DEF OwnInv, HasCast
<1> QED BY <1>2, <1>3, <1>4 DEF OwnInv

\* A cast whose holder hands it over to a StopCapture: call c, whose Start gives
\* up or whose session closes.
LEMMA HandedOver ==
    ASSUME OwnInv, NEW c \in Calls, Holds(c), ~Queued("stop", c), UNCHANGED capture,
           \A d \in Calls : Queued("stop", d)' <=> Queued("stop", d) \/ d = c,
           ~Granted(c)', CastOf(c)' = {},
           \A d \in Calls \ {c} : (Granted(d)' <=> Granted(d)) /\ CastOf(d)' = CastOf(d),
           \A t, u \in Sessions : HasCast(t)' /\ session'[t] = session'[u] => t = u
    PROVE  OwnInv'
<1>1. \A d \in Calls : Holds(d)' <=> capture' = d
  BY DEF OwnInv, Holds
<1>2. \A d \in Calls : /\ ~(Granted(d) /\ CastOf(d) # {})'
                       /\ Queued("stop", d)' => (~Granted(d) /\ CastOf(d) = {})'
  BY DEF OwnInv
<1> QED BY <1>1, <1>2 DEF OwnInv

\* Queueing a StopCapture for c.
LEMMA StopSent ==
    ASSUME TypeOK, QueueInv, NEW c \in Calls, ~Queued("stop", c), jobs' = StopCapture(c),
           \A d \in Calls : call'[d] = call[d] \/ ~Queued("start", d),
           UNCHANGED <<size, thread>>
    PROVE  /\ jobs' \in Seq(Job) /\ QueueInv'
           /\ \A d \in Calls : Queued("stop", d)' <=> Queued("stop", d) \/ d = c
<1>1. /\ jobs' \in Seq(Job) /\ Unique'
      /\ \A k \in Kinds, d \in Calls : Queued(k, d)' <=> Queued(k, d) \/ (k = "stop" /\ d = c)
  BY Sent DEF TypeOK, QueueInv, Kinds, StopCapture
<1>2. \A d \in Calls : /\ Queued("stop", d)' <=> Queued("stop", d) \/ d = c
                       /\ Queued("start", d)' <=> Queued("start", d)
                       /\ Queued("frame", d)' <=> Queued("frame", d)
  BY <1>1 DEF Kinds
<1>3. QueueInv'
  BY <1>1, <1>2 DEF QueueInv
<1> QED BY <1>1, <1>2, <1>3

\* Paired keeps the inductive invariant.
LEMMA PairedKeeps == ASSUME IInv, NEW c \in Calls, Paired(c) PROVE IInv'
<1> USE DEF IInv, Paired
<1>1. /\ Granted(c) /\ capture = c /\ CastOf(c) = {} /\ ~Queued("stop", c)
      /\ ~Queued("start", c) /\ Holds(c) /\ of[c] \in Sessions
  BY DEF Granted, Holds, OwnInv, QueueInv, TypeOK
<1>2. /\ ~Granted(c)'
      /\ \A d \in Calls \ {c} : Granted(d)' <=> Granted(d)
  BY DEF Granted, TypeOK
<1>3. CASE session[of[c]] # "none"
  <2>1. session' = [session EXCEPT ![of[c]] = c] /\ UNCHANGED <<quit, jobs>>
    BY <1>3
  <2>2. TypeOK'
    BY <1>1, <2>1 DEF TypeOK
  <2>3. \A k \in Kinds, d \in Calls : Queued(k, d)' <=> Queued(k, d)
    BY <2>1 DEF Queued
  <2>4. QueueInv'
    BY <2>1, <2>3, <1>1 DEF QueueInv, Unique, Kinds, TypeOK
  <2>5. session[of[c]] \notin Calls
    <3>1. ASSUME session[of[c]] \in Calls PROVE FALSE
      <4>1. CastOf(session[of[c]]) # {}
        BY <1>1 DEF CastOf
      <4>2. capture = session[of[c]]
        BY <3>1, <4>1 DEF OwnInv, Holds
      <4> QED BY <4>1, <4>2, <1>1
    <3> QED BY <3>1
  <2>6. of[c] \in CastOf(c)' /\ \A d \in Calls \ {c} : CastOf(d)' = CastOf(d)
    BY <2>1, <2>5, <1>1 DEF CastOf, TypeOK
  <2>7. \A d \in Calls : Holds(d)' <=> capture' = d
    BY <2>3, <2>6, <1>1, <1>2 DEF OwnInv, Holds, Kinds
  <2>8. \A d \in Calls : /\ ~(Granted(d) /\ CastOf(d) # {})'
                         /\ Queued("stop", d)' => (~Granted(d) /\ CastOf(d) = {})'
    BY <2>3, <2>6, <1>1, <1>2 DEF OwnInv, Kinds
  <2>9. \A t, u \in Sessions : HasCast(t)' /\ session'[t] = session'[u] => t = u
    <3> SUFFICES ASSUME NEW t \in Sessions, NEW u \in Sessions, session'[t] \in Calls,
                        session'[t] = session'[u]
                 PROVE  t = u
      BY DEF HasCast
    <3>1. \A v \in Sessions : session[v] # c
      BY <1>1 DEF CastOf
    <3>2. CASE t = of[c] \/ u = of[c]
      BY <3>1, <3>2, <2>1, <1>1 DEF TypeOK
    <3>3. CASE t # of[c] /\ u # of[c]
      BY <3>3, <2>1 DEF TypeOK, OwnInv, HasCast
    <3> QED BY <3>2, <3>3
  <2>10. OwnInv'
    BY <2>7, <2>8, <2>9 DEF OwnInv
  <2>11. ThreadInv'
    BY <2>1, <2>6, <2>5 DEF ThreadInv, ThreadsOwned, TypeOK
  <2> QED BY <2>2, <2>4, <2>10, <2>11
<1>4. CASE session[of[c]] = "none"
  <2>1. quit' = [quit EXCEPT ![c] = TRUE] /\ jobs' = StopCapture(c) /\ UNCHANGED session
    BY <1>4 DEF StopThread
  <2>2. /\ jobs' \in Seq(Job) /\ QueueInv'
        /\ \A d \in Calls : Queued("stop", d)' <=> Queued("stop", d) \/ d = c
    BY <2>1, <1>1, StopSent DEF TypeOK
  <2>3. TypeOK'
    BY <2>1, <2>2 DEF TypeOK
  <2>4. \A d \in Calls : CastOf(d)' = CastOf(d)
    BY <2>1 DEF CastOf
  <2>5. \A t, u \in Sessions : HasCast(t)' /\ session'[t] = session'[u] => t = u
    BY <2>1 DEF OwnInv, HasCast
  <2>6. OwnInv'
    BY <2>2, <2>4, <2>5, <1>1, <1>2, HandedOver
  <2>7. ThreadInv'
    BY <2>1, <2>4 DEF ThreadInv, ThreadsOwned, TypeOK
  <2> QED BY <2>2, <2>3, <2>6, <2>7
<1> QED BY <1>3, <1>4

\* GiveUp keeps the inductive invariant.
LEMMA GiveUpKeeps == ASSUME IInv, NEW c \in Calls, GiveUp(c) PROVE IInv'
<1> USE DEF IInv, GiveUp
<1>1. /\ Granted(c) /\ capture = c /\ CastOf(c) = {} /\ ~Queued("stop", c)
      /\ ~Queued("start", c) /\ Holds(c)
  BY DEF Granted, Holds, OwnInv, QueueInv, TypeOK
<1>2. /\ ~Granted(c)'
      /\ \A d \in Calls \ {c} : Granted(d)' <=> Granted(d)
  BY DEF Granted, TypeOK
<1>3. /\ jobs' \in Seq(Job) /\ QueueInv'
      /\ \A d \in Calls : Queued("stop", d)' <=> Queued("stop", d) \/ d = c
  BY <1>1, StopSent DEF TypeOK
<1>4. TypeOK'
  BY <1>3 DEF TypeOK, StopThread
<1>5. \A d \in Calls : CastOf(d)' = CastOf(d)
  BY DEF CastOf
<1>6. \A t, u \in Sessions : HasCast(t)' /\ session'[t] = session'[u] => t = u
  BY DEF OwnInv, HasCast
<1>7. OwnInv'
  BY <1>1, <1>2, <1>3, <1>5, <1>6, HandedOver
<1>8. ThreadInv'
  BY <1>5 DEF ThreadInv, ThreadsOwned, TypeOK, StopThread
<1> QED BY <1>3, <1>4, <1>7, <1>8

\* Close keeps the inductive invariant.
LEMMA CloseKeeps == ASSUME IInv, NEW s \in Sessions, Close(s) PROVE IInv'
<1> USE DEF IInv, Close
<1>1. CASE HasCast(s)
  <2>c. PICK c \in Calls : c = session[s]
    BY <1>1 DEF HasCast
  <2>1. s \in CastOf(c)
    BY <2>c DEF CastOf
  <2>2. Holds(c) /\ ~Granted(c) /\ ~Queued("stop", c)
    BY <2>1 DEF OwnInv, Holds
  <2>3. quit' = [quit EXCEPT ![c] = TRUE] /\ jobs' = StopCapture(c)
    BY <1>1, <2>c DEF CloseCast, StopThread
  <2>4. /\ jobs' \in Seq(Job) /\ QueueInv'
        /\ \A d \in Calls : Queued("stop", d)' <=> Queued("stop", d) \/ d = c
    BY <2>1, <2>2, <2>3, StopSent
  <2>5. TypeOK'
    BY <2>1, <2>3, <2>4 DEF TypeOK
  <2>6. CastOf(c)' = {}
    BY <2>c, CallNames DEF CastOf, TypeOK, OwnInv, HasCast
  <2>7. \A d \in Calls \ {c} : CastOf(d)' = CastOf(d)
    BY <2>c, CallNames DEF CastOf, TypeOK
  <2>8. \A d \in Calls : Granted(d)' <=> Granted(d)
    BY DEF Granted
  <2>9. \A t, u \in Sessions : HasCast(t)' /\ session'[t] = session'[u] => t = u
    BY CallNames DEF OwnInv, HasCast, TypeOK
  <2>10. OwnInv'
    BY <2>1, <2>2, <2>4, <2>6, <2>7, <2>8, <2>9, HandedOver
  <2>11. ThreadInv'
    BY <2>1, <2>3, <2>7 DEF ThreadInv, ThreadsOwned, TypeOK
  <2> QED BY <2>4, <2>5, <2>10, <2>11
<1>2. CASE ~HasCast(s)
  <2>1. UNCHANGED <<quit, jobs>>
    BY <1>2 DEF CloseCast
  <2>2. TypeOK'
    BY <2>1 DEF TypeOK
  <2>3. QueueInv'
    BY <2>1 DEF QueueInv, Unique, Queued
  <2>4. \A d \in Calls : CastOf(d)' = CastOf(d)
    BY <1>2, CallNames DEF CastOf, TypeOK, HasCast
  <2>5. \A d \in Calls : Granted(d)' = Granted(d) /\ Queued("stop", d)' = Queued("stop", d)
    BY <2>1 DEF Granted, Queued
  <2>6. \A d \in Calls : Holds(d)' <=> capture' = d
    BY <2>4, <2>5 DEF OwnInv, Holds
  <2>7. \A d \in Calls : /\ ~(Granted(d) /\ CastOf(d) # {})'
                         /\ Queued("stop", d)' => (~Granted(d) /\ CastOf(d) = {})'
    BY <2>4, <2>5 DEF OwnInv
  <2>8. \A t, u \in Sessions : HasCast(t)' /\ session'[t] = session'[u] => t = u
    BY CallNames DEF OwnInv, HasCast, TypeOK
  <2>9. ThreadInv'
    BY <2>1, <2>4 DEF ThreadInv, ThreadsOwned
  <2>10. OwnInv'
    BY <2>6, <2>7, <2>8 DEF OwnInv
  <2> QED BY <2>2, <2>3, <2>9, <2>10
<1> QED BY <1>1, <1>2

\* Screenshot keeps the inductive invariant.
LEMMA ScreenshotKeeps == ASSUME IInv, Screenshot PROVE IInv'
<1> USE DEF IInv, Screenshot, taskVars, threadVars
<1>1. /\ jobs' \in Seq(Job) /\ Unique'
      /\ \A k \in Kinds, d \in Calls : Queued(k, d)' <=> Queued(k, d)
  BY SentShot DEF TypeOK, QueueInv
<1>2. TypeOK'
  BY <1>1 DEF TypeOK
<1>3. QueueInv'
  BY <1>1 DEF QueueInv, Kinds
<1>4. \A d \in Calls : Granted(d)' <=> Granted(d)
  BY DEF Granted
<1>5. OwnInv'
  BY <1>1, <1>4, OwnKept DEF Kinds
<1>6. ThreadInv'
  BY DEF ThreadInv, ThreadsOwned, CastOf
<1> QED BY <1>2, <1>3, <1>5, <1>6

-----------------------------------------------------------------------------
(* The PipeWire threads and the Wayland thread.                            *)

\* A step of a PipeWire thread that asks for no frame.
LEMMA ThreadStepKeeps ==
    ASSUME IInv, NEW c \in Calls, SetUp(c) \/ StateChanged(c) \/ Quit(c)
    PROVE  IInv'
<1> USE DEF IInv, SetUp, StateChanged, Quit, taskVars, EarlyFailure, LateFailure
<1>1. TypeOK'
  <2>1. node' \in [Calls -> {"none", "id", "err", "dropped"}]
    BY DEF TypeOK
  <2>2. thread' \in [Calls -> {"gone", "setup", "loop", "asking"}]
    BY DEF TypeOK
  <2> QED BY <2>1, <2>2 DEF TypeOK
<1>2. QueueInv'
  BY DEF QueueInv, Unique, Queued, TypeOK
<1>3. OwnInv'
  <2>1. \A d \in Calls : (Granted(d)' <=> Granted(d)) /\ (Queued("stop", d)' <=> Queued("stop", d))
    BY DEF Granted, Queued
  <2> QED BY <2>1, OwnKept
<1>4. ThreadInv'
  BY DEF ThreadInv, ThreadsOwned, CastOf, TypeOK
<1> QED BY <1>1, <1>2, <1>3, <1>4

\* Process keeps the inductive invariant.
LEMMA ProcessKeeps == ASSUME IInv, NEW c \in Calls, Process(c) PROVE IInv'
<1> USE DEF IInv, Process, taskVars
<1>1. ~Queued("frame", c)
  BY DEF QueueInv
<1>2. /\ jobs' \in Seq(Job) /\ Unique'
      /\ \A k \in Kinds, d \in Calls : Queued(k, d)' <=> Queued(k, d) \/ (k = "frame" /\ d = c)
  BY <1>1, Sent DEF TypeOK, QueueInv, Kinds
<1>3. TypeOK'
  BY <1>2 DEF TypeOK
<1>4. QueueInv'
  BY <1>2 DEF QueueInv, Kinds, TypeOK
<1>5. \A d \in Calls : (Granted(d)' <=> Granted(d)) /\ (Queued("stop", d)' <=> Queued("stop", d))
  BY <1>2 DEF Granted, Kinds
<1>6. OwnInv'
  BY <1>5, OwnKept
<1>7. ThreadInv'
  BY DEF ThreadInv, ThreadsOwned, CastOf, TypeOK
<1> QED BY <1>3, <1>4, <1>6, <1>7

\* What the Wayland thread finds at the head of its queue.
LEMMA HeadJob ==
    ASSUME TypeOK, QueueInv, NEW kind \in Kinds, Working(kind)
    PROVE  /\ Head(jobs).by \in Calls
           /\ Queued(kind, Head(jobs).by)
           /\ jobs' \in Seq(Job) /\ Unique'
           /\ \A k \in Kinds, d \in Calls :
                Queued(k, d)' <=> Queued(k, d) /\ ~(k = kind /\ d = Head(jobs).by)
<1> DEFINE head == Head(jobs)
<1>1. /\ jobs' \in Seq(Job) /\ Unique' /\ head \in Job
      /\ \A k \in Kinds, d \in Calls :
           Queued(k, d)' <=> Queued(k, d) /\ head # [kind |-> k, by |-> d]
      /\ \A k \in Kinds, d \in Calls : head = [kind |-> k, by |-> d] => Queued(k, d)
  BY Taken DEF TypeOK, QueueInv, Working
<1>2. head.kind = kind
  BY DEF Working
<1> HIDE DEF head
<1>3. head.by \in Calls /\ head = [kind |-> kind, by |-> head.by]
  BY <1>1, <1>2 DEF Job, Kinds
<1>4. PICK e \in Calls : e = head.by
  BY <1>3
<1>5. \A k \in Kinds, d \in Calls : head = [kind |-> k, by |-> d] <=> k = kind /\ d = e
  BY <1>3, <1>4
<1>6. Queued(kind, e) /\ \A k \in Kinds, d \in Calls :
                Queued(k, d)' <=> Queued(k, d) /\ ~(k = kind /\ d = e)
  BY <1>1, <1>5
<1> QED BY <1>1, <1>4, <1>6 DEF head

\* DoStartCapture keeps the inductive invariant.
LEMMA DoStartCaptureKeeps == ASSUME IInv, DoStartCapture PROVE IInv'
<1> USE DEF IInv, DoStartCapture
<1>0. Working("start") /\ "start" \in Kinds
  BY DEF Kinds
<1>1. PICK c \in Calls : c = Head(jobs).by
  BY <1>0, HeadJob
<1>2. /\ Queued("start", c)
      /\ jobs' \in Seq(Job) /\ Unique'
      /\ \A k \in Kinds, d \in Calls : Queued(k, d)' <=> Queued(k, d) /\ ~(k = "start" /\ d = c)
  BY <1>0, <1>1, HeadJob
<1>3. /\ UNCHANGED <<wayland, session, call, of, quit, node, thread, shot>>
      /\ \/ capture = None /\ capture' = c /\ size' = [size EXCEPT ![c] = "ok"]
         \/ size' = [size EXCEPT ![c] = "err"] /\ UNCHANGED capture
  BY <1>1 DEF Working, taskVars, MayCapture
<1>4. call[c] = "sizing" /\ size[c] = "none"
  BY <1>2 DEF QueueInv
<1> HIDE DEF DoStartCapture
<1>5. TypeOK'
  BY <1>2, <1>3 DEF TypeOK
<1>6. QueueInv'
  BY <1>2, <1>3 DEF QueueInv, TypeOK, Kinds
<1>7. ThreadInv'
  BY <1>3 DEF ThreadInv, ThreadsOwned, CastOf
<1>8. OwnInv'
  <2>1. \A d \in Calls : CastOf(d)' = CastOf(d) /\ (Queued("stop", d)' <=> Queued("stop", d))
    BY <1>2, <1>3 DEF CastOf, Kinds
  <2>2. \A d \in Calls \ {c} : Granted(d)' <=> Granted(d)
    BY <1>3 DEF Granted, TypeOK
  <2>3. \A t, u \in Sessions : HasCast(t)' /\ session'[t] = session'[u] => t = u
    BY <1>3 DEF OwnInv, HasCast
  <2>4. ~Granted(c)
    BY <1>4 DEF Granted
  <2>5. CASE capture = None /\ capture' = c /\ size' = [size EXCEPT ![c] = "ok"]
    <3>1. \A d \in Calls : ~Holds(d)
      BY <2>5, CallNames DEF OwnInv
    <3>2. Granted(c)'
      BY <2>5, <1>3, <1>4 DEF Granted, TypeOK
    <3>3. \A d \in Calls : Holds(d)' <=> capture' = d
      BY <2>1, <2>2, <2>5, <3>1, <3>2 DEF Holds
    <3>4. \A d \in Calls : /\ ~(Granted(d) /\ CastOf(d) # {})'
                           /\ Queued("stop", d)' => (~Granted(d) /\ CastOf(d) = {})'
      BY <2>1, <2>2, <3>1 DEF Holds
    <3> QED BY <2>3, <3>3, <3>4 DEF OwnInv
  <2>6. CASE size' = [size EXCEPT ![c] = "err"] /\ UNCHANGED capture
    <3>1. ~Granted(c)'
      BY <2>6, <1>3, <1>4 DEF Granted, TypeOK
    <3>2. \A d \in Calls : Granted(d)' <=> Granted(d)
      BY <2>2, <2>4, <3>1
    <3> QED BY <2>1, <2>6, <3>2, <1>3, OwnKept
  <2> QED BY <1>3, <2>5, <2>6
<1> QED BY <1>5, <1>6, <1>7, <1>8

\* DoCaptureFrame keeps the inductive invariant.
LEMMA DoCaptureFrameKeeps == ASSUME IInv, DoCaptureFrame PROVE IInv'
<1> USE DEF IInv, DoCaptureFrame
<1>0. Working("frame") /\ "frame" \in Kinds
  BY DEF Kinds
<1>1. PICK c \in Calls : c = Head(jobs).by
  BY <1>0, HeadJob
<1>2. /\ Queued("frame", c)
      /\ jobs' \in Seq(Job) /\ Unique'
      /\ \A k \in Kinds, d \in Calls : Queued(k, d)' <=> Queued(k, d) /\ ~(k = "frame" /\ d = c)
  BY <1>0, <1>1, HeadJob
<1>3. /\ UNCHANGED <<wayland, session, call, of, quit, node, size, capture, shot>>
      /\ thread' = [thread EXCEPT ![c] = "loop"]
  BY <1>1 DEF Working, taskVars
<1>4. thread[c] = "asking"
  BY <1>2 DEF QueueInv
<1>5. TypeOK'
  BY <1>2, <1>3 DEF TypeOK
<1>6. QueueInv'
  BY <1>2, <1>3 DEF QueueInv, TypeOK, Kinds
<1>7. ThreadInv'
  BY <1>3, <1>4 DEF ThreadInv, ThreadsOwned, CastOf, TypeOK
<1>8. \A d \in Calls : (Granted(d)' <=> Granted(d)) /\ (Queued("stop", d)' <=> Queued("stop", d))
  BY <1>2, <1>3 DEF Granted, Kinds
<1>9. OwnInv'
  BY <1>3, <1>8, OwnKept
<1> QED BY <1>5, <1>6, <1>7, <1>9

\* DoStopCapture keeps the inductive invariant.
LEMMA DoStopCaptureKeeps == ASSUME IInv, DoStopCapture PROVE IInv'
<1> USE DEF IInv, DoStopCapture
<1>0. Working("stop") /\ "stop" \in Kinds
  BY DEF Kinds
<1>1. PICK c \in Calls : c = Head(jobs).by
  BY <1>0, HeadJob
<1>2. /\ Queued("stop", c)
      /\ jobs' \in Seq(Job) /\ Unique'
      /\ \A k \in Kinds, d \in Calls : Queued(k, d)' <=> Queued(k, d) /\ ~(k = "stop" /\ d = c)
  BY <1>0, <1>1, HeadJob
<1>3. /\ UNCHANGED <<wayland, session, call, of, quit, node, size, thread, shot>>
      /\ capture' = None
  BY DEF Working, taskVars
<1>4. ~Granted(c) /\ CastOf(c) = {} /\ \A d \in Calls \ {c} : ~Holds(d)
  BY <1>2 DEF OwnInv, Holds
<1>5. TypeOK'
  BY <1>2, <1>3 DEF TypeOK
<1>6. QueueInv'
  BY <1>2, <1>3 DEF QueueInv, TypeOK, Kinds
<1>7. ThreadInv'
  BY <1>3 DEF ThreadInv, ThreadsOwned, CastOf
<1>8. \A d \in Calls : /\ Granted(d)' <=> Granted(d)
                       /\ CastOf(d)' = CastOf(d)
                       /\ Queued("stop", d)' <=> Queued("stop", d) /\ d # c
  BY <1>2, <1>3 DEF Granted, CastOf, Kinds
<1>9. \A d \in Calls : ~Holds(d)'
  BY <1>4, <1>8 DEF Holds
<1>10. \A d \in Calls : /\ ~(Granted(d) /\ CastOf(d) # {})'
                        /\ Queued("stop", d)' => (~Granted(d) /\ CastOf(d) = {})'
  BY <1>4, <1>8 DEF OwnInv
<1>11. \A t, u \in Sessions : HasCast(t)' /\ session'[t] = session'[u] => t = u
  BY <1>3 DEF OwnInv, HasCast
<1>12. OwnInv'
  BY <1>3, <1>9, <1>10, <1>11, CallNames DEF OwnInv
<1> QED BY <1>5, <1>6, <1>7, <1>12

\* DoScreenshot keeps the inductive invariant.
LEMMA DoScreenshotKeeps == ASSUME IInv, DoScreenshot PROVE IInv'
<1> USE DEF IInv, DoScreenshot, Working, taskVars
<1>1. /\ jobs' \in Seq(Job) /\ Unique'
      /\ \A k \in Kinds, d \in Calls :
           Queued(k, d)' <=> Queued(k, d) /\ Head(jobs) # [kind |-> k, by |-> d]
  BY Taken DEF TypeOK, QueueInv
<1>2. \A k \in Kinds, d \in Calls : Queued(k, d)' <=> Queued(k, d)
  <2>1. \A k \in Kinds, d \in Calls : [kind |-> k, by |-> d].kind # "shot"
    BY DEF Kinds
  <2>2. Head(jobs).kind = "shot"
    OBVIOUS
  <2>3. \A k \in Kinds, d \in Calls : Head(jobs) # [kind |-> k, by |-> d]
    BY <2>1, <2>2
  <2> QED BY <1>1, <2>3
<1>3. TypeOK'
  BY <1>1 DEF TypeOK
<1>4. QueueInv'
  BY <1>1, <1>2 DEF QueueInv, Kinds
<1>5. \A d \in Calls : (Granted(d)' <=> Granted(d)) /\ (Queued("stop", d)' <=> Queued("stop", d))
  BY <1>2 DEF Granted, Kinds
<1>6. OwnInv'
  BY <1>5, OwnKept
<1>7. ThreadInv'
  BY DEF ThreadInv, ThreadsOwned, CastOf
<1> QED BY <1>3, <1>4, <1>6, <1>7

-----------------------------------------------------------------------------
(* Every step.                                                             *)

\* The inductive invariant holds at the start.
LEMMA InitIInv == ASSUME Init PROVE IInv
<1>1. TypeOK
  <2>1. jobs \in Seq(Job)
    BY DEF Init
  <2>2. wayland \in {"up", "down"} /\ session \in [Sessions -> {"none", "open"} \cup Calls]
    BY DEF Init
  <2>3. call \in [Calls -> {"idle", "sizing", "pairing"}] /\ of \in [Calls -> Sessions]
    BY DEF Init
  <2>4. size \in [Calls -> {"none", "ok", "err"}] /\ quit \in [Calls -> BOOLEAN]
    BY DEF Init
  <2>5. /\ node \in [Calls -> {"none", "id", "err", "dropped"}]
        /\ thread \in [Calls -> {"gone", "setup", "loop", "asking"}]
    BY DEF Init
  <2>6. capture \in Calls \cup {None} /\ shot \in BOOLEAN
    BY DEF Init
  <2> QED BY <2>1, <2>2, <2>3, <2>4, <2>5, <2>6 DEF TypeOK
<1>2. \A k \in Kinds, c \in Calls : ~Queued(k, c)
  BY DEF Init, Queued
<1>3. \A c \in Calls : CastOf(c) = {} /\ ~Granted(c)
  BY CallNames DEF Init, CastOf, Granted
<1>4. QueueInv
  BY <1>2 DEF Init, QueueInv, Unique, Kinds
<1>5. OwnInv
  BY <1>2, <1>3, CallNames DEF Init, OwnInv, Holds, HasCast, Kinds
<1>6. ThreadInv
  BY DEF Init, ThreadInv, ThreadsOwned
<1> QED BY <1>1, <1>4, <1>5, <1>6 DEF IInv

\* A step that changes nothing keeps it.
LEMMA StutterKeeps == ASSUME IInv, UNCHANGED vars PROVE IInv'
<1> USE DEF IInv, vars, taskVars, threadVars
<1>1. TypeOK'
  BY DEF TypeOK
<1>2. QueueInv'
  BY DEF QueueInv, Unique, Queued
<1>3. \A d \in Calls : (Granted(d)' <=> Granted(d)) /\ (Queued("stop", d)' <=> Queued("stop", d))
  BY DEF Granted, Queued
<1>4. OwnInv'
  BY <1>3, OwnKept
<1>5. ThreadInv'
  BY DEF ThreadInv, ThreadsOwned, CastOf
<1> QED BY <1>1, <1>2, <1>4, <1>5

\* Every step keeps it.
LEMMA StepIInv == ASSUME IInv, [Next]_vars PROVE IInv'
<1>1. ASSUME Frontend PROVE IInv'
  BY <1>1, CreateSessionKeeps, CloseKeeps, StartKeeps, ScreenshotKeeps DEF Frontend
<1>2. ASSUME WaylandThread PROVE IInv'
  BY <1>2, DoStartCaptureKeeps, DoCaptureFrameKeeps, DoStopCaptureKeeps, DoScreenshotKeeps
     DEF WaylandThread
<1>3. ASSUME NEW c \in Calls, Task(c) PROVE IInv'
  BY <1>3, SizedKeeps, PairedKeeps, GiveUpKeeps DEF Task
<1>4. ASSUME NEW c \in Calls, PwThread(c) PROVE IInv'
  BY <1>4, ThreadStepKeeps, ProcessKeeps DEF PwThread
<1>5. CASE UNCHANGED vars
  BY <1>5, StutterKeeps
<1> QED BY <1>1, <1>2, <1>3, <1>4, <1>5 DEF Next

\* A cast in the session table leaves it only when its session closes.
KeptNow == \A s \in Sessions : HasCast(s) /\ session'[s] # session[s] => session'[s] = "none"

\* A step drops no cast that is still wanted.
LEMMA StepKeepsCasts == ASSUME IInv, Next PROVE KeptNow
<1>1. ASSUME NEW s \in Sessions, CreateSession(s) PROVE KeptNow
  BY <1>1, CallNames DEF CreateSession, KeptNow, HasCast, IInv, TypeOK
<1>2. ASSUME NEW s \in Sessions, Close(s) PROVE KeptNow
  BY <1>2 DEF Close, KeptNow, IInv, TypeOK
<1>3. ASSUME NEW c \in Calls, Paired(c) PROVE KeptNow
  <2>1. capture = c /\ CastOf(c) = {}
    BY <1>3 DEF Paired, IInv, OwnInv, Holds, Granted
  <2>2. session[of[c]] \notin Calls
    <3>1. ASSUME session[of[c]] \in Calls PROVE FALSE
      <4>1. of[c] \in CastOf(session[of[c]])
        BY DEF CastOf, IInv, TypeOK
      <4>2. capture = session[of[c]]
        BY <3>1, <4>1 DEF IInv, OwnInv, Holds
      <4> QED BY <4>1, <4>2, <2>1
    <3> QED BY <3>1
  <2>3. session' = session \/ session' = [session EXCEPT ![of[c]] = c]
    BY <1>3 DEF Paired
  <2> QED BY <2>2, <2>3 DEF KeptNow, HasCast, IInv, TypeOK
<1>4. ASSUME UNCHANGED session PROVE KeptNow
  BY <1>4 DEF KeptNow
<1>5. ASSUME Frontend PROVE KeptNow
  BY <1>1, <1>2, <1>4, <1>5 DEF Frontend, Start, Screenshot, taskVars
<1>6. ASSUME WaylandThread PROVE KeptNow
  BY <1>4, <1>6 DEF WaylandThread, DoStartCapture, DoCaptureFrame, DoStopCapture, DoScreenshot,
                    Working, taskVars
<1>7. ASSUME NEW c \in Calls, Task(c) PROVE KeptNow
  BY <1>3, <1>4, <1>7 DEF Task, Sized, GiveUp
<1>8. ASSUME NEW c \in Calls, PwThread(c) PROVE KeptNow
  BY <1>4, <1>8 DEF PwThread, SetUp, StateChanged, Process, Quit, taskVars
<1> QED BY <1>5, <1>6, <1>7, <1>8 DEF Next

-----------------------------------------------------------------------------
(* The theorems.                                                           *)

\* The inductive invariant: no job queued twice, the queue in step with its
\* waiters, one holder of the capture session and of each thread.
THEOREM Inductive == Spec => []IInv
<1>1. Init => IInv
  BY InitIInv
<1>2. IInv /\ [Next]_vars => IInv'
  BY StepIInv
<1> QED BY <1>1, <1>2, PTL DEF Spec

\* For any sessions and Starts, the capture session has exactly one that answers
\* for it and one StopCapture at most on its way, and every PipeWire thread one
\* that can end it (screencast.rs, wayland.rs, pipewire_stream.rs).
THEOREM CastsStayOwned == Spec => []CastsAreOwned
<1>1. IInv => OneHolder
  <2> SUFFICES ASSUME IInv PROVE OneHolder
    OBVIOUS
  <2>1. ASSUME NEW i \in DOMAIN jobs, NEW j \in DOMAIN jobs,
               jobs[i].kind = "stop", jobs[j].kind = "stop"
        PROVE  i = j
    <3>1. jobs[i] \in Job /\ jobs[j] \in Job
      BY DEF IInv, TypeOK
    <3>2. PICK c \in Calls : jobs[i] = [kind |-> "stop", by |-> c]
      BY <2>1, <3>1 DEF Job
    <3>3. PICK d \in Calls : jobs[j] = [kind |-> "stop", by |-> d]
      BY <2>1, <3>1 DEF Job
    <3>4. Queued("stop", c) /\ Queued("stop", d)
      BY <3>2, <3>3 DEF Queued
    <3>5. c = d
      BY <3>4 DEF IInv, OwnInv, Holds
    <3> QED BY <2>1, <3>2, <3>3, <3>5 DEF IInv, QueueInv, Unique
  <2> QED BY <2>1 DEF OneHolder, IInv, OwnInv
<1>2. IInv => CastsAreOwned
  BY <1>1 DEF IInv, ThreadInv, CastsAreOwned
<1> QED BY <1>2, Inductive, PTL

\* A session that has a cast keeps it until it closes, however many Starts for
\* it overlap: no cast is replaced and left to stream on (screencast.rs).
THEOREM CastsStayKept == Spec => CastsAreKept
<1>1. IInv /\ [Next]_vars => [KeptNow]_vars
  BY StepKeepsCasts
<1> QED BY <1>1, Inductive, PTL DEF Spec, CastsAreKept, KeptNow

-----------------------------------------------------------------------------
(* The inductive invariant of AuthorityTags.                               *)

\* Is identifier i announced, or closed, by an event of the queue es?
Arrives(es, i) == \E n \in DOMAIN es : es[n].kind = "done" /\ es[n].of.id = i
Leaves(es, i)  == \E n \in DOMAIN es : es[n].kind = "closed" /\ es[n].id = i

\* Who an event is about.
IdOf(e) == IF e.kind = "done" THEN e.of.id ELSE e.id

\* A queue tells each thing once, and announces before it closes.
InOrder(es) ==
    /\ \A m, n \in DOMAIN es :
          IdOf(es[m]) = IdOf(es[n]) /\ es[m].kind = es[n].kind => m = n
    /\ \A m, n \in DOMAIN es :
          IdOf(es[m]) = IdOf(es[n]) /\ es[m].kind = "done" /\ es[n].kind = "closed" => m < n

\* What is announced is neither known nor asked about yet.
IsNews(es, ids, targets) == \A i \in ids \cup targets : ~Arrives(es, i)

\* Once the queue is read, the handles live are what is known.
Balances(es, ids, live) ==
    /\ \A h \in live : (h.id \in ids \/ Arrives(es, h.id)) /\ ~Leaves(es, h.id)
    /\ \A i \in ids : ~Leaves(es, i) => \E h \in live : h.id = i
    /\ \A n \in DOMAIN es : es[n].kind = "done" /\ ~Leaves(es, es[n].of.id) => es[n].of \in live

\* The helper's entry of a handle that is live has its app id.
KnowsApps(info, live) == \A h \in live : h.id \in DOMAIN info => info[h.id].app = h.app

\* No two handles have the same identifier.
Apart(live) == \A g, h \in live : g.id = h.id => g = h

\* What the events es, the toplevels info the helper knows and the targets it
\* asked about are to each other and to the handles live.
Feed(es, info, targets, live) ==
    InOrder(es) /\ IsNews(es, DOMAIN info, targets) /\ Balances(es, DOMAIN info, live)
      /\ KnowsApps(info, live) /\ Apart(live)

\* The handles of the bare Main Windows, and whom the helper asked about.
Live    == {handle[w] : w \in Mains}
Targets == {requests[n].target : n \in DOMAIN requests}

\* Every request was made by a rule, for the app ids its windows were announced with.
ByRule(rs, live) ==
    \A k \in DOMAIN rs : \E n \in DOMAIN Rules : \A h \in live :
       /\ h.id = rs[k].target => h.app = Rules[n].target
       /\ h.id = rs[k].main => h.app = Rules[n].main

\* A window has a handle of its own, announced under its app id or before it had one.
HandlesInv ==
    /\ \A v, w \in Mains : handle[v].id = handle[w].id => v = w
    /\ \A w \in Mains : handle[w].app \in {app[w], NoApp}

\* Nothing is on the way to or from a helper that does not run.
FeedInv ==
    /\ helper # "running" => events = <<>> /\ known = <<>> /\ requests = <<>>
    /\ helper = "running" => Feed(events, known, Targets, Live)
    /\ IsFiniteSet(DOMAIN known)

AskInv == NothingWaits /\ AskedOnce /\ ByRule(requests, Live)

TagsInv == TagsTypeOK /\ HandlesInv /\ FeedInv /\ AskInv
-----------------------------------------------------------------------------
(* Queues of events.                                                       *)

\* What an event is.
LEMMA EventKinds ==
    ASSUME NEW e \in Events
    PROVE  \/ e.kind = "done" /\ e.of \in Handles /\ e.of.id \in Ids /\ e = Done(e.of)
           \/ e.kind = "closed" /\ e.id \in Ids
BY DEF Events, Handles, Done

\* Adding an event to a queue.
LEMMA Added ==
    ASSUME NEW es \in Seq(Events), NEW e \in Events
    PROVE  LET more == Append(es, e) IN
           /\ more \in Seq(Events) /\ Len(es) \in Nat
           /\ DOMAIN es = 1..Len(es) /\ DOMAIN more = 1..(Len(es) + 1)
           /\ \A n \in 1..Len(es) : more[n] = es[n]
           /\ more[Len(es) + 1] = e
           /\ \A i : Arrives(more, i) <=> Arrives(es, i) \/ (e.kind = "done" /\ e.of.id = i)
           /\ \A i : Leaves(more, i) <=> Leaves(es, i) \/ (e.kind = "closed" /\ e.id = i)
<1> DEFINE more == Append(es, e)
<1>1. /\ more \in Seq(Events) /\ Len(es) \in Nat
      /\ DOMAIN es = 1..Len(es) /\ DOMAIN more = 1..(Len(es) + 1)
      /\ \A n \in 1..Len(es) : more[n] = es[n]
      /\ more[Len(es) + 1] = e
  OBVIOUS
<1> HIDE DEF more
<1>2. /\ 1..(Len(es) + 1) = 1..Len(es) \cup {Len(es) + 1}
  BY <1>1
<1>3. ASSUME NEW i
      PROVE  /\ Arrives(more, i) <=> Arrives(es, i) \/ (e.kind = "done" /\ e.of.id = i)
             /\ Leaves(more, i) <=> Leaves(es, i) \/ (e.kind = "closed" /\ e.id = i)
  BY <1>1, <1>2, Zenon DEF Arrives, Leaves
<1> QED BY <1>1, <1>3 DEF more

\* Taking an event from a queue.
LEMMA TookOne ==
    ASSUME NEW es \in Seq(Events), es # <<>>
    PROVE  /\ Tail(es) \in Seq(Events) /\ Len(es) \in Nat \ {0} /\ Head(es) \in Events
           /\ DOMAIN es = 1..Len(es) /\ DOMAIN Tail(es) = 1..(Len(es) - 1)
           /\ \A n \in 1..(Len(es) - 1) : n + 1 \in 1..Len(es) /\ Tail(es)[n] = es[n + 1]
           /\ \A n \in 1..Len(es) : n # 1 => n - 1 \in 1..(Len(es) - 1) /\ es[n] = Tail(es)[n - 1]
           /\ Head(es) = es[1] /\ 1 \in 1..Len(es)
           /\ \A i : Arrives(es, i) <=>
                        Arrives(Tail(es), i) \/ (Head(es).kind = "done" /\ Head(es).of.id = i)
           /\ \A i : Leaves(es, i) <=>
                        Leaves(Tail(es), i) \/ (Head(es).kind = "closed" /\ Head(es).id = i)
<1> DEFINE rest == Tail(es)
<1>1. /\ rest \in Seq(Events) /\ Len(es) \in Nat \ {0} /\ Head(es) \in Events
      /\ DOMAIN es = 1..Len(es) /\ DOMAIN rest = 1..(Len(es) - 1)
      /\ \A n \in 1..(Len(es) - 1) : n + 1 \in 1..Len(es) /\ rest[n] = es[n + 1]
      /\ Head(es) = es[1] /\ 1 \in 1..Len(es)
  OBVIOUS
<1> HIDE DEF rest
<1>2. \A n \in 1..Len(es) : n # 1 => n - 1 \in 1..(Len(es) - 1) /\ es[n] = rest[n - 1]
  BY <1>1
<1>3. ASSUME NEW i
      PROVE  /\ Arrives(es, i) <=>
                  Arrives(rest, i) \/ (Head(es).kind = "done" /\ Head(es).of.id = i)
             /\ Leaves(es, i) <=>
                  Leaves(rest, i) \/ (Head(es).kind = "closed" /\ Head(es).id = i)
  <2>1. ASSUME NEW n \in DOMAIN rest
        PROVE  \E m \in DOMAIN es : es[m] = rest[n]
    BY <1>1
  <2>2. ASSUME NEW n \in DOMAIN es, es[n] # Head(es)
        PROVE  \E m \in DOMAIN rest : rest[m] = es[n]
    <3>1. n - 1 \in DOMAIN rest /\ rest[n - 1] = es[n]
      BY <2>2, <1>1, <1>2
    <3> QED BY <3>1, Zenon
  <2>3. \E m \in DOMAIN es : es[m] = Head(es)
    BY <1>1
  <2>4. Arrives(es, i) <=> Arrives(rest, i) \/ (Head(es).kind = "done" /\ Head(es).of.id = i)
    BY <2>1, <2>2, <2>3 DEF Arrives
  <2>5. Leaves(es, i) <=> Leaves(rest, i) \/ (Head(es).kind = "closed" /\ Head(es).id = i)
    BY <2>1, <2>2, <2>3 DEF Leaves
  <2> QED BY <2>4, <2>5
<1> QED BY <1>1, <1>2, <1>3 DEF rest

\* Closing a handle that is live.
LEMMA FeedClosed ==
    ASSUME NEW es \in Seq(Events), NEW info, NEW targets, NEW live \in SUBSET Handles,
           Feed(es, info, targets, live), NEW h \in live
    PROVE  /\ Append(es, Closed(h)) \in Seq(Events)
           /\ Feed(Append(es, Closed(h)), info, targets, live \ {h})
<1> DEFINE e == Closed(h)
           more == Append(es, e)
<1>1. e \in Events /\ e.kind = "closed" /\ e.id = h.id /\ IdOf(e) = h.id
  BY DEF Closed, Events, Handles, IdOf
<1> HIDE DEF e
<1>2. /\ more \in Seq(Events) /\ Len(es) \in Nat
      /\ DOMAIN es = 1..Len(es) /\ DOMAIN more = 1..(Len(es) + 1)
      /\ \A n \in 1..Len(es) : more[n] = es[n]
      /\ more[Len(es) + 1] = e
      /\ \A i : Arrives(more, i) <=> Arrives(es, i)
      /\ \A i : Leaves(more, i) <=> Leaves(es, i) \/ h.id = i
  <2>1. more \in Seq(Events) /\ Len(es) \in Nat /\ DOMAIN es = 1..Len(es)
        /\ DOMAIN more = 1..(Len(es) + 1) /\ more[Len(es) + 1] = e
        /\ \A n \in 1..Len(es) : more[n] = es[n]
    BY Added, <1>1
  <2>2. /\ \A i : Arrives(more, i) <=> Arrives(es, i) \/ (e.kind = "done" /\ e.of.id = i)
        /\ \A i : Leaves(more, i) <=> Leaves(es, i) \/ (e.kind = "closed" /\ e.id = i)
    BY Added, <1>1
  <2> HIDE DEF more
  <2> QED BY <2>1, <2>2, <1>1
<1> HIDE DEF more
<1>3. \A n \in 1..Len(es) : ~(es[n].kind = "closed" /\ IdOf(es[n]) = h.id)
  BY <1>2 DEF Feed, Balances, Leaves, IdOf
<1>4. InOrder(more)
  <2>1. ASSUME NEW m \in DOMAIN more, NEW n \in DOMAIN more,
               IdOf(more[m]) = IdOf(more[n]), more[m].kind = more[n].kind
        PROVE  m = n
    BY <2>1, <1>1, <1>2, <1>3 DEF Feed, InOrder
  <2>2. ASSUME NEW m \in DOMAIN more, NEW n \in DOMAIN more,
               IdOf(more[m]) = IdOf(more[n]), more[m].kind = "done", more[n].kind = "closed"
        PROVE  m < n
    BY <2>2, <1>1, <1>2, <1>3 DEF Feed, InOrder
  <2> QED BY <2>1, <2>2 DEF InOrder
<1>5. IsNews(more, DOMAIN info, targets)
  BY <1>2 DEF Feed, IsNews
<1>6. Balances(more, DOMAIN info, live \ {h})
  <2>1. \A g \in live \ {h} : (g.id \in DOMAIN info \/ Arrives(more, g.id)) /\ ~Leaves(more, g.id)
    BY <1>2 DEF Feed, Balances, Apart
  <2>2. \A i \in DOMAIN info : ~Leaves(more, i) => \E g \in live \ {h} : g.id = i
    BY <1>2 DEF Feed, Balances
  <2>3. ASSUME NEW n \in DOMAIN more, more[n].kind = "done", ~Leaves(more, more[n].of.id)
        PROVE  more[n].of \in live \ {h}
    <3>1. n \in DOMAIN es /\ more[n] = es[n]
      BY <2>3, <1>1, <1>2
    <3> QED BY <3>1, <2>3, <1>2 DEF Feed, Balances
  <2> QED BY <2>1, <2>2, <2>3 DEF Balances
<1>7. KnowsApps(info, live \ {h}) /\ Apart(live \ {h})
  BY DEF Feed, KnowsApps, Apart
<1> QED BY <1>2, <1>4, <1>5, <1>6, <1>7 DEF Feed, more, e

\* Announcing a handle whose identifier nothing refers to.
LEMMA FeedDone ==
    ASSUME NEW es \in Seq(Events), NEW info, NEW targets, NEW live \in SUBSET Handles,
           Feed(es, info, targets, live), NEW h \in Handles,
           h.id \notin DOMAIN info \cup targets, \A g \in live : g.id # h.id,
           \A n \in DOMAIN es : IdOf(es[n]) # h.id
    PROVE  /\ Append(es, Done(h)) \in Seq(Events)
           /\ Feed(Append(es, Done(h)), info, targets, live \cup {h})
<1> DEFINE e == Done(h)
           more == Append(es, e)
<1>1. e \in Events /\ e.kind = "done" /\ e.of = h /\ IdOf(e) = h.id
  BY DEF Done, Events, Handles, IdOf
<1> HIDE DEF e
<1>2. /\ more \in Seq(Events) /\ Len(es) \in Nat
      /\ DOMAIN es = 1..Len(es) /\ DOMAIN more = 1..(Len(es) + 1)
      /\ \A n \in 1..Len(es) : more[n] = es[n]
      /\ more[Len(es) + 1] = e
      /\ \A i : Arrives(more, i) <=> Arrives(es, i) \/ h.id = i
      /\ \A i : Leaves(more, i) <=> Leaves(es, i)
  <2>1. more \in Seq(Events) /\ Len(es) \in Nat /\ DOMAIN es = 1..Len(es)
        /\ DOMAIN more = 1..(Len(es) + 1) /\ more[Len(es) + 1] = e
        /\ \A n \in 1..Len(es) : more[n] = es[n]
    BY Added, <1>1
  <2>2. /\ \A i : Arrives(more, i) <=> Arrives(es, i) \/ (e.kind = "done" /\ e.of.id = i)
        /\ \A i : Leaves(more, i) <=> Leaves(es, i) \/ (e.kind = "closed" /\ e.id = i)
    BY Added, <1>1
  <2> HIDE DEF more
  <2> QED BY <2>1, <2>2, <1>1
<1> HIDE DEF more
<1>3. \A n \in 1..Len(es) : IdOf(es[n]) # h.id
  BY <1>2
<1>4. InOrder(more)
  <2>1. ASSUME NEW m \in DOMAIN more, NEW n \in DOMAIN more,
               IdOf(more[m]) = IdOf(more[n]), more[m].kind = more[n].kind
        PROVE  m = n
    BY <2>1, <1>1, <1>2, <1>3 DEF Feed, InOrder
  <2>2. ASSUME NEW m \in DOMAIN more, NEW n \in DOMAIN more,
               IdOf(more[m]) = IdOf(more[n]), more[m].kind = "done", more[n].kind = "closed"
        PROVE  m < n
    BY <2>2, <1>1, <1>2, <1>3 DEF Feed, InOrder
  <2> QED BY <2>1, <2>2 DEF InOrder
<1>5. IsNews(more, DOMAIN info, targets)
  BY <1>2 DEF Feed, IsNews
<1>6. ~Leaves(es, h.id)
  BY <1>2, <1>3 DEF Leaves, IdOf
<1>7. Balances(more, DOMAIN info, live \cup {h})
  <2>1. \A g \in live \cup {h} :
           (g.id \in DOMAIN info \/ Arrives(more, g.id)) /\ ~Leaves(more, g.id)
    BY <1>2, <1>6 DEF Feed, Balances
  <2>2. \A i \in DOMAIN info : ~Leaves(more, i) => \E g \in live \cup {h} : g.id = i
    BY <1>2 DEF Feed, Balances
  <2>3. ASSUME NEW n \in DOMAIN more, more[n].kind = "done", ~Leaves(more, more[n].of.id)
        PROVE  more[n].of \in live \cup {h}
    BY <2>3, <1>1, <1>2 DEF Feed, Balances
  <2> QED BY <2>1, <2>2, <2>3 DEF Balances
<1>8. KnowsApps(info, live \cup {h}) /\ Apart(live \cup {h})
  BY DEF Feed, KnowsApps, Apart
<1> QED BY <1>2, <1>4, <1>5, <1>7, <1>8 DEF Feed, more, e

\* Reading the first event keeps the queue in order.
LEMMA RestInOrder ==
    ASSUME NEW es \in Seq(Events), es # <<>>, InOrder(es)
    PROVE  InOrder(Tail(es))
<1>1. ASSUME NEW m \in DOMAIN Tail(es), NEW n \in DOMAIN Tail(es),
             IdOf(Tail(es)[m]) = IdOf(Tail(es)[n])
      PROVE  /\ Tail(es)[m].kind = Tail(es)[n].kind => m = n
             /\ Tail(es)[m].kind = "done" /\ Tail(es)[n].kind = "closed" => m < n
  <2>1. /\ m + 1 \in DOMAIN es /\ n + 1 \in DOMAIN es /\ m \in Nat /\ n \in Nat
        /\ Tail(es)[m] = es[m + 1] /\ Tail(es)[n] = es[n + 1]
    BY TookOne
  <2>2. /\ es[m + 1].kind = es[n + 1].kind => m + 1 = n + 1
        /\ es[m + 1].kind = "done" /\ es[n + 1].kind = "closed" => m + 1 < n + 1
    BY <2>1, <1>1 DEF InOrder
  <2> QED BY <2>1, <2>2
<1> QED BY <1>1 DEF InOrder

\* Reading that a handle was announced: the helper enters it, and asks about
\* no others than it knows then.
LEMMA FeedReadDone ==
    ASSUME NEW es \in Seq(Events), NEW info, NEW targets, NEW live \in SUBSET Handles,
           Feed(es, info, targets, live), es # <<>>, Head(es).kind = "done",
           NEW info2, DOMAIN info2 = DOMAIN info \cup {Head(es).of.id},
           \A i \in DOMAIN info2 :
              info2[i].app = IF i = Head(es).of.id THEN Head(es).of.app ELSE info[i].app,
           NEW targets2, targets2 \subseteq targets \cup DOMAIN info2
    PROVE  Feed(Tail(es), info2, targets2, live)
<1> DEFINE h == Head(es).of
           rest == Tail(es)
<1>1. /\ \A i : Arrives(es, i) <=> Arrives(rest, i) \/ h.id = i
      /\ \A i : Leaves(es, i) <=> Leaves(rest, i)
  BY TookOne
<1>2. ~Arrives(rest, h.id)
  <2>1. ASSUME NEW n \in DOMAIN rest, rest[n].kind = "done", rest[n].of.id = h.id PROVE FALSE
    <3>1. n + 1 \in DOMAIN es /\ 1 \in DOMAIN es /\ n \in Nat \ {0}
          /\ es[n + 1] = rest[n] /\ es[1] = Head(es)
      BY TookOne
    <3>2. n + 1 = 1
      BY <3>1, <2>1 DEF Feed, InOrder, IdOf
    <3> QED BY <3>1, <3>2
  <2> QED BY <2>1 DEF Arrives
<1>3. IsNews(rest, DOMAIN info2, targets2)
  BY <1>1, <1>2 DEF Feed, IsNews
<1>4. ~Leaves(es, h.id) => h \in live
  BY TookOne DEF Feed, Balances
<1>5. Balances(rest, DOMAIN info2, live)
  <2>1. \A g \in live : (g.id \in DOMAIN info2 \/ Arrives(rest, g.id)) /\ ~Leaves(rest, g.id)
    BY <1>1 DEF Feed, Balances
  <2>2. \A i \in DOMAIN info2 : ~Leaves(rest, i) => \E g \in live : g.id = i
    BY <1>1, <1>4 DEF Feed, Balances
  <2>3. ASSUME NEW n \in DOMAIN rest, rest[n].kind = "done", ~Leaves(rest, rest[n].of.id)
        PROVE  rest[n].of \in live
    <3>1. n + 1 \in DOMAIN es /\ es[n + 1] = rest[n]
      BY TookOne
    <3> QED BY <3>1, <2>3, <1>1 DEF Feed, Balances
  <2> QED BY <2>1, <2>2, <2>3 DEF Balances
<1>6. KnowsApps(info2, live)
  <2> SUFFICES ASSUME NEW g \in live, g.id \in DOMAIN info2 PROVE info2[g.id].app = g.app
    BY DEF KnowsApps
  <2>1. CASE g.id = h.id
    <3>1. h = g
      BY <2>1, <1>4 DEF Feed, Balances, Apart
    <3> QED BY <2>1, <3>1
  <2>2. CASE g.id # h.id
    BY <2>2 DEF Feed, KnowsApps
  <2> QED BY <2>1, <2>2
<1> QED BY <1>3, <1>5, <1>6, RestInOrder DEF Feed

\* Reading that a handle was closed: the helper forgets it.
LEMMA FeedReadClosed ==
    ASSUME NEW es \in Seq(Events), NEW info, NEW targets, NEW live \in SUBSET Handles,
           Feed(es, info, targets, live), es # <<>>, Head(es).kind = "closed",
           NEW info2, DOMAIN info2 = DOMAIN info \ {Head(es).id},
           \A i \in DOMAIN info2 : info2[i].app = info[i].app
    PROVE  Feed(Tail(es), info2, targets, live)
<1> DEFINE id == Head(es).id
           rest == Tail(es)
<1>1. /\ \A i : Arrives(es, i) <=> Arrives(rest, i)
      /\ \A i : Leaves(es, i) <=> Leaves(rest, i) \/ id = i
  BY TookOne
<1>2. ~Arrives(rest, id)
  <2>1. ASSUME NEW n \in DOMAIN rest, rest[n].kind = "done", rest[n].of.id = id PROVE FALSE
    <3>1. n + 1 \in DOMAIN es /\ 1 \in DOMAIN es /\ n \in Nat \ {0}
          /\ es[n + 1] = rest[n] /\ es[1] = Head(es)
      BY TookOne
    <3>2. n + 1 < 1
      BY <3>1, <2>1 DEF Feed, InOrder, IdOf
    <3> QED BY <3>1, <3>2
  <2> QED BY <2>1 DEF Arrives
<1>3. IsNews(rest, DOMAIN info2, targets)
  BY <1>1 DEF Feed, IsNews
<1>4. Balances(rest, DOMAIN info2, live)
  <2>1. \A g \in live : (g.id \in DOMAIN info2 \/ Arrives(rest, g.id)) /\ ~Leaves(rest, g.id)
    BY <1>1 DEF Feed, Balances
  <2>2. \A i \in DOMAIN info2 : ~Leaves(rest, i) => \E g \in live : g.id = i
    BY <1>1 DEF Feed, Balances
  <2>3. ASSUME NEW n \in DOMAIN rest, rest[n].kind = "done", ~Leaves(rest, rest[n].of.id)
        PROVE  rest[n].of \in live
    <3>1. n + 1 \in DOMAIN es /\ es[n + 1] = rest[n]
      BY TookOne
    <3>2. rest[n].of.id # id
      BY <1>2, <2>3 DEF Arrives
    <3> QED BY <3>1, <3>2, <2>3, <1>1 DEF Feed, Balances
  <2> QED BY <2>1, <2>2, <2>3 DEF Balances
<1>5. KnowsApps(info2, live)
  BY DEF Feed, KnowsApps
<1> QED BY <1>3, <1>4, <1>5, RestInOrder DEF Feed

\* A nonempty set of indexes has a least one.
LEMMA LeastIndex ==
    ASSUME NEW m \in Nat, NEW T \in SUBSET (1..m), T # {}
    PROVE  \E n \in T : \A o \in T : n <= o
<1> DEFINE U == {1..k : k \in T}
           R == StrictSubsetOrdering(1..m)
<1>1. IsWellFoundedOn(R, FiniteSubsetsOf(1..m))
  BY FS_Interval, FS_StrictSubsetOrderingWellFounded
<1>2. U \subseteq FiniteSubsetsOf(1..m) /\ U # {}
  <2> SUFFICES ASSUME NEW k \in T PROVE 1..k \in FiniteSubsetsOf(1..m)
    OBVIOUS
  <2>1. IsFiniteSet(1..k)
    BY FS_Interval
  <2> QED BY <2>1 DEF FiniteSubsetsOf
<1>3. PICK x \in U : \A y \in U : <<y, x>> \notin R
  <2> HIDE DEF U, R
  <2> QED BY <1>1, <1>2, WFMin
<1>4. PICK n \in T : x = 1..n
  OBVIOUS
<1>5. ASSUME NEW o \in T, o < n PROVE FALSE
  <2>1. 1..o \subseteq 1..n /\ 1..o # 1..n /\ 1..o \subseteq 1..m /\ x \subseteq 1..m
    BY <1>4, <1>5
  <2>2. <<1..o, x>> \in R
    BY <2>1, <1>4 DEF StrictSubsetOrdering
  <2> QED BY <2>2, <1>3
<1> QED BY <1>5

\* What an enumeration of a finite set is.
LEMMA Enumeration ==
    ASSUME NEW S, IsFiniteSet(S), NEW order \in SetToSeqs(S)
    PROVE  /\ order \in Seq(S) /\ DOMAIN order = 1..Len(order) /\ Len(order) \in Nat
           /\ \A m, n \in DOMAIN order : order[m] = order[n] => m = n
           /\ \A x \in S : \E n \in DOMAIN order : order[n] = x
<1> DEFINE D == 1..Cardinality(S)
<1>1. Cardinality(S) \in Nat
  BY FS_CardinalityType
<1>2. order \in [D -> S] /\ \A i, j \in D : i # j => order[i] # order[j]
  BY DEF SetToSeqs
<1>3. order \in Injection(D, S)
  BY <1>2 DEF Injection, IsInjective
<1>4. Cardinality(D) = Cardinality(S)
  BY <1>1, FS_Interval
<1>5. order \in Surjection(D, S)
  <2> HIDE DEF D
  <2> QED BY <1>3, <1>4, FS_Injection
<1>6. order \in Seq(S) /\ Len(order) = Cardinality(S) /\ DOMAIN order = D
  BY <1>1, <1>2
<1> QED BY <1>1, <1>2, <1>5, <1>6 DEF Surjection

-----------------------------------------------------------------------------
(* The compositor's steps.                                                 *)

\* The bare Main Windows are those with a handle, and there are finitely many.
LEMMA MainsHaveHandles ==
    ASSUME TagsTypeOK
    PROVE  /\ \A w \in Windows : w \in Mains <=> handle[w] # Nothing
           /\ \A w \in Mains : handle[w] \in Handles /\ handle[w].id \in Ids
           /\ Live \in SUBSET Handles
           /\ IsFiniteSet(Mains)
<1>1. \A w \in Windows : w \in Mains <=> handle[w] # Nothing
  BY DEF TagsTypeOK, Mains
<1>2. \A w \in Mains : handle[w] \in Handles
  BY <1>1 DEF TagsTypeOK, Mains
<1>3. \A h \in Handles : h.id \in Ids
  BY DEF Handles
<1>4. IsFiniteSet(Mains)
  BY WindowsAssumption, FS_Subset DEF Mains
<1> QED BY <1>1, <1>2, <1>3, <1>4 DEF Live

\* An identifier that is not in use is nowhere.
LEMMA Unused ==
    ASSUME NEW i \in Ids \ InUse
    PROVE  /\ i \notin DOMAIN known \cup Targets
           /\ \A w \in Mains : handle[w].id # i
           /\ \A g \in Live : g.id # i
           /\ \A n \in DOMAIN events : IdOf(events[n]) # i
           /\ \A n \in DOMAIN requests : requests[n].target # i /\ requests[n].main # i
BY DEF InUse, Targets, Announced, Live, IdOf

\* What is minted.
LEMMA Minted ==
    ASSUME TagsTypeOK, MayMint, NEW w \in Windows
    PROVE  Mint(w) \in Handles /\ Mint(w).id \in Ids \ InUse /\ Mint(w).app = app[w]
<1>1. FreshId \in Ids \ InUse
  BY DEF MayMint, FreshId
<1> QED BY <1>1 DEF Mint, Handles, TagsTypeOK

\* The announcement of a handle, if there is one.
NewsOf(h) == IF h = Nothing THEN <<>> ELSE <<Done(h)>>

\* A window's handle is set anew.
LEMMA HandleSet ==
    ASSUME TagsTypeOK, HandlesInv, NEW w \in Windows, NEW h \in Handles \cup {Nothing},
           h # Nothing => h.id \in Ids \ InUse /\ h.app = app[w],
           handle' = [handle EXCEPT ![w] = h], UNCHANGED app,
           \A v \in Windows : handle'[v] # Nothing <=> place'[v] = "main"
    PROVE  /\ HandlesInv'
           /\ Live' = (Live \ {handle[w]}) \cup (IF h = Nothing THEN {} ELSE {h})
<1>1. /\ \A v \in Windows : v \in Mains <=> handle[v] # Nothing
      /\ \A v \in Windows : v \in Mains' <=> handle'[v] # Nothing
  BY MainsHaveHandles DEF Mains
<1>2. \A v \in Windows : handle'[v] = IF v = w THEN h ELSE handle[v]
  BY DEF TagsTypeOK
<1>3. h # Nothing => \A v \in Mains : handle[v].id # h.id
  BY Unused
<1>4. Mains \subseteq Windows /\ Mains' \subseteq Windows
  BY DEF Mains
<1>5. HandlesInv'
  <2>1. \A v, u \in Mains' : handle'[v].id = handle'[u].id => v = u
    BY <1>1, <1>2, <1>3, <1>4 DEF HandlesInv
  <2>2. \A v \in Mains' : handle'[v].app \in {app'[v], NoApp}
    BY <1>1, <1>2, <1>4 DEF HandlesInv
  <2> QED BY <2>1, <2>2 DEF HandlesInv
<1>6. \A v \in Mains : v # w => handle[v] # handle[w]
  BY <1>1, <1>4 DEF HandlesInv
<1>7. Live' = (Live \ {handle[w]}) \cup (IF h = Nothing THEN {} ELSE {h})
  BY <1>1, <1>2, <1>4, <1>6 DEF Live
<1> QED BY <1>5, <1>7

\* The helper is told of both.
LEMMA BothTold ==
    ASSUME TagsTypeOK, HandlesInv, FeedInv, NEW w \in Windows, NEW h \in Handles \cup {Nothing},
           h # Nothing => h.id \in Ids \ InUse,
           Live' = (Live \ {handle[w]}) \cup (IF h = Nothing THEN {} ELSE {h}),
           Announce(ClosedOf(w) \o NewsOf(h)), UNCHANGED <<helper, known>>,
           Targets' \subseteq Targets, requests = <<>> => requests' = <<>>
    PROVE  events' \in Seq(Events) /\ FeedInv'
<1>1. Live \in SUBSET Handles /\ events \in Seq(Events)
  BY MainsHaveHandles DEF TagsTypeOK
<1>2. CASE helper # "running"
  BY <1>1, <1>2 DEF FeedInv, Announce
<1>3. CASE helper = "running"
  <2> DEFINE mid == events \o ClosedOf(w)
             left == Live \ {handle[w]}
  <2>1. mid \in Seq(Events) /\ Feed(mid, known, Targets, left)
    <3>1. CASE handle[w] = Nothing
      <4>1. mid = events /\ left = Live
        BY <3>1, <1>1, HandleAssumption DEF ClosedOf
      <4> QED BY <4>1, <1>1, <1>3 DEF FeedInv
    <3>2. CASE handle[w] # Nothing
      <4>1. handle[w] \in Live
        BY <3>2, MainsHaveHandles DEF Live
      <4>2. Closed(handle[w]) \in Events
        BY <4>1, <1>1 DEF Closed, Events, Handles
      <4>3. mid = Append(events, Closed(handle[w]))
        BY <3>2, <4>2, <1>1 DEF ClosedOf
      <4>4. Feed(events, known, Targets, Live)
        BY <1>3 DEF FeedInv
      <4>5. /\ Append(events, Closed(handle[w])) \in Seq(Events)
            /\ Feed(Append(events, Closed(handle[w])), known, Targets, Live \ {handle[w]})
        BY <4>1, <4>4, <1>1, FeedClosed
      <4> QED BY <4>3, <4>5
    <3> QED BY <3>1, <3>2
  <2>2. ASSUME h # Nothing
        PROVE  \A n \in DOMAIN mid : IdOf(mid[n]) # h.id
    <3>1. \A n \in DOMAIN events : IdOf(events[n]) # h.id
      BY <2>2, Unused
    <3>2. CASE handle[w] = Nothing
      <4>1. mid = events
        BY <3>2, <1>1 DEF ClosedOf
      <4> QED BY <4>1, <3>1
    <3>3. CASE handle[w] # Nothing
      <4>1. handle[w].id # h.id /\ IdOf(Closed(handle[w])) = handle[w].id
        BY <3>3, <2>2, Unused, MainsHaveHandles DEF Closed, IdOf
      <4>2. Closed(handle[w]) \in Events
        BY <3>3, MainsHaveHandles DEF Closed, Events
      <4>3. mid = Append(events, Closed(handle[w]))
        BY <3>3, <4>2, <1>1 DEF ClosedOf
      <4> QED BY <4>1, <4>2, <4>3, <3>1, <1>1
    <3> QED BY <3>2, <3>3
  <2>3. events' \in Seq(Events) /\ Feed(events', known, Targets, Live')
    <3>1. CASE h = Nothing
      <4>1. Live' = left
        BY <3>1
      <4>2. events' = mid
        <5>1. ClosedOf(w) \in Seq(Events)
          <6>1. handle[w] # Nothing => Closed(handle[w]) \in Events
            BY MainsHaveHandles DEF Closed, Events
          <6> QED BY <6>1 DEF ClosedOf
        <5>2. ClosedOf(w) \o <<>> = ClosedOf(w)
          BY <5>1
        <5> QED BY <3>1, <5>2, <1>3 DEF Announce, NewsOf
      <4> HIDE DEF mid, left
      <4> QED BY <4>1, <4>2, <2>1
    <3>2. CASE h # Nothing
      <4>1. Live' = left \cup {h} /\ h \in Handles
        BY <3>2
      <4>2. Done(h) \in Events
        BY <4>1 DEF Done, Events
      <4>3. events' = Append(mid, Done(h))
        BY <3>2, <4>2, <2>1, <1>1, <1>3 DEF Announce, NewsOf, ClosedOf
      <4>4. h.id \notin DOMAIN known \cup Targets /\ \A g \in left : g.id # h.id
        BY <3>2, Unused
      <4>5. left \in SUBSET Handles
        BY <1>1
      <4> HIDE DEF mid, left
      <4> QED BY <4>1, <4>3, <4>4, <4>5, <2>1, <2>2, <3>2, FeedDone
    <3> QED BY <3>1, <3>2
  <2>4. Feed(events', known', Targets', Live')
    BY <2>3 DEF Feed, IsNews
  <2> QED BY <2>3, <2>4, <1>3 DEF FeedInv
<1> QED BY <1>2, <1>3

\* What a helper was asked, and what it took from it.
Served == requests' = requests \/ (requests # <<>> /\ requests' = Tail(requests))

\* The requests left are some of those there were, in the same order.
LEMMA ServedKeeps ==
    ASSUME requests \in Seq(Requests), Served
    PROVE  /\ requests' \in Seq(Requests) /\ Targets' \subseteq Targets
           /\ requests = <<>> => requests' = <<>>
           /\ \E d \in {0, 1} : \A n \in DOMAIN requests' :
                 n + d \in DOMAIN requests /\ requests'[n] = requests[n + d]
<1>1. PICK d \in {0, 1} : \A n \in DOMAIN requests' :
         n + d \in DOMAIN requests /\ requests'[n] = requests[n + d]
  <2>1. CASE requests' = requests
    BY <2>1
  <2>2. CASE requests # <<>> /\ requests' = Tail(requests)
    BY <2>2
  <2> QED BY <2>1, <2>2 DEF Served
<1>2. Targets' \subseteq Targets
  BY <1>1 DEF Targets
<1>3. requests' \in Seq(Requests) /\ (requests = <<>> => requests' = <<>>)
  BY DEF Served
<1> QED BY <1>1, <1>2, <1>3

\* What was asked stays right when a handle is set anew.
LEMMA StillAsked ==
    ASSUME TagsTypeOK, AskInv, NEW w \in Windows, NEW h \in Handles \cup {Nothing},
           h # Nothing => h.id \in Ids \ InUse,
           Live' = (Live \ {handle[w]}) \cup (IF h = Nothing THEN {} ELSE {h}),
           UNCHANGED known, Served
    PROVE  AskInv'
<1>1. PICK d \in {0, 1} : \A n \in DOMAIN requests' :
         n + d \in DOMAIN requests /\ requests'[n] = requests[n + d]
  BY ServedKeeps DEF TagsTypeOK
<1>2. requests' \in Seq(Requests)
  BY ServedKeeps DEF TagsTypeOK
<1>3. AskedOnce'
  <2>1. ASSUME NEW m \in DOMAIN requests', NEW n \in DOMAIN requests',
               requests'[m].target = requests'[n].target
        PROVE  m = n
    <3>1. m \in Nat /\ n \in Nat
      BY <1>2
    <3>2. m + d = n + d
      BY <2>1, <1>1 DEF AskInv, AskedOnce
    <3> QED BY <3>1, <3>2
  <2>2. \A n \in DOMAIN requests' :
           requests'[n].target \in DOMAIN known => known[requests'[n].target].tagged
    BY <1>1 DEF AskInv, AskedOnce
  <2> QED BY <2>1, <2>2 DEF AskedOnce
<1>4. ASSUME NEW k \in DOMAIN requests'
      PROVE  \E n \in DOMAIN Rules : \A g \in Live' :
                /\ g.id = requests'[k].target => g.app = Rules[n].target
                /\ g.id = requests'[k].main => g.app = Rules[n].main
  <2>1. k + d \in DOMAIN requests /\ requests'[k] = requests[k + d]
    BY <1>1
  <2>2. PICK n \in DOMAIN Rules : \A g \in Live :
                /\ g.id = requests[k + d].target => g.app = Rules[n].target
                /\ g.id = requests[k + d].main => g.app = Rules[n].main
    BY <2>1 DEF AskInv, ByRule
  <2>3. h # Nothing => h.id # requests[k + d].target /\ h.id # requests[k + d].main
    BY <2>1, Unused
  <2>4. \A g \in Live' :
                /\ g.id = requests'[k].target => g.app = Rules[n].target
                /\ g.id = requests'[k].main => g.app = Rules[n].main
    BY <2>1, <2>2, <2>3
  <2> QED BY <2>4
<1>5. NothingWaits'
  BY DEF AskInv, NothingWaits, Matching, MainsFor
<1> QED BY <1>3, <1>4, <1>5 DEF AskInv, ByRule

\* A step of the compositor that sets the handle of w to h.
LEMMA HandleStep ==
    ASSUME TagsInv, NEW w \in Windows, NEW h \in Handles \cup {Nothing},
           h # Nothing => h.id \in Ids \ InUse /\ h.app = app[w],
           handle' = [handle EXCEPT ![w] = h],
           place' \in [Windows -> {"unmapped", "main", "gone"} \cup Windows],
           \A v \in Windows : handle'[v] # Nothing <=> place'[v] = "main",
           Announce(ClosedOf(w) \o NewsOf(h)), UNCHANGED <<app, helper, known>>, Served
    PROVE  TagsInv'
<1> USE DEF TagsInv
<1>1. requests' \in Seq(Requests) /\ Targets' \subseteq Targets /\ (requests = <<>> => requests' = <<>>)
  BY ServedKeeps DEF TagsTypeOK
<1>2. handle' \in [Windows -> Handles \cup {Nothing}]
  BY DEF TagsTypeOK
<1>3. Live' = (Live \ {handle[w]}) \cup (IF h = Nothing THEN {} ELSE {h}) /\ HandlesInv'
  BY HandleSet
<1>4. events' \in Seq(Events) /\ FeedInv'
  BY <1>1, <1>3, BothTold
<1>5. TagsTypeOK'
  BY <1>1, <1>2, <1>4 DEF TagsTypeOK
<1>6. AskInv'
  BY <1>3, StillAsked
<1> QED BY <1>3, <1>4, <1>5, <1>6

\* Map keeps the invariant.
LEMMA MapKeeps == ASSUME TagsInv, NEW w \in Windows, Map(w) PROVE TagsInv'
<1>1. Mint(w) \in Handles /\ Mint(w).id \in Ids \ InUse /\ Mint(w).app = app[w]
  BY Minted DEF TagsInv, Map
<1>2. handle[w] = Nothing /\ Mint(w) # Nothing
  BY <1>1, HandleAssumption DEF TagsInv, TagsTypeOK, Map
<1>3. ClosedOf(w) \o NewsOf(Mint(w)) = <<Done(Mint(w))>>
  BY <1>2 DEF ClosedOf, NewsOf
<1>4. Announce(ClosedOf(w) \o NewsOf(Mint(w)))
  BY <1>3 DEF Map
<1>5. place' \in [Windows -> {"unmapped", "main", "gone"} \cup Windows]
  BY DEF Map, TagsInv, TagsTypeOK
<1>6. \A v \in Windows : handle'[v] # Nothing <=> place'[v] = "main"
  BY <1>2 DEF Map, TagsInv, TagsTypeOK
<1> QED BY <1>1, <1>4, <1>5, <1>6, HandleStep DEF Map, Served

\* SetAppId keeps the invariant: only a window without an app id gets one.
LEMMA SetAppIdKeeps == ASSUME TagsInv, NEW w \in Windows, SetAppId(w) PROVE TagsInv'
<1> USE DEF SetAppId
<1>1. TagsTypeOK'
  BY DEF TagsInv, TagsTypeOK
<1>2. Mains' = Mains /\ Live' = Live /\ Targets' = Targets
  BY DEF Mains, Live, Targets
<1>3. HandlesInv'
  BY <1>2 DEF TagsInv, TagsTypeOK, HandlesInv, Mains
<1>4. FeedInv'
  BY <1>2 DEF TagsInv, FeedInv
<1>5. AskInv'
  BY <1>2 DEF TagsInv, AskInv, NothingWaits, AskedOnce, Matching, MainsFor
<1> QED BY <1>1, <1>3, <1>4, <1>5 DEF TagsInv

\* The places left when w goes, or is put below the bare Main Window m.
LEMMA PlacesLeft ==
    ASSUME TagsTypeOK, NEW w \in Windows, NEW p \in {"gone"} \cup Windows,
           place' = [Forget(w) EXCEPT ![w] = p], handle' = [handle EXCEPT ![w] = Nothing]
    PROVE  /\ place' \in [Windows -> {"unmapped", "main", "gone"} \cup Windows]
           /\ \A v \in Windows : handle'[v] # Nothing <=> place'[v] = "main"
<1>1. p # "main" /\ w # "main"
  BY WindowsAssumption
<1>2. \A v \in Windows : place'[v] =
         IF v = w THEN p ELSE IF place[v] = w THEN "gone" ELSE place[v]
  BY DEF Forget, ChildrenOf
<1>3. place' \in [Windows -> {"unmapped", "main", "gone"} \cup Windows]
  BY DEF Forget, TagsTypeOK
<1> QED BY <1>1, <1>2, <1>3 DEF TagsTypeOK

\* Saying nothing of no handle.
LEMMA NoNews == ASSUME TagsTypeOK, NEW w \in Windows PROVE ClosedOf(w) \o NewsOf(Nothing) = ClosedOf(w)
<1>1. handle[w] # Nothing => Closed(handle[w]) \in Events
  BY MainsHaveHandles DEF Closed, Events
<1>2. ClosedOf(w) \in Seq(Events)
  BY <1>1 DEF ClosedOf
<1> QED BY <1>2 DEF NewsOf

\* ToplevelDestroyed keeps the invariant.
LEMMA DestroyedKeeps == ASSUME TagsInv, NEW w \in Windows, ToplevelDestroyed(w) PROVE TagsInv'
<1>1. Announce(ClosedOf(w) \o NewsOf(Nothing))
  BY NoNews DEF ToplevelDestroyed, TagsInv
<1>2. /\ place' \in [Windows -> {"unmapped", "main", "gone"} \cup Windows]
      /\ \A v \in Windows : handle'[v] # Nothing <=> place'[v] = "main"
  BY PlacesLeft DEF ToplevelDestroyed, TagsInv
<1> QED BY <1>1, <1>2, HandleStep DEF ToplevelDestroyed, Served

\* Retag keeps the invariant, whoever asked for it.
LEMMA RetagKeeps ==
    ASSUME TagsInv, NEW w \in Windows, NEW m, Retag(w, m), UNCHANGED <<app, helper, known>>, Served
    PROVE  TagsInv'
<1>1. CASE m \in Windows /\ MayNest(w, m)
  <2>1. /\ place' = [Forget(w) EXCEPT ![w] = m]
        /\ handle' = [handle EXCEPT ![w] = Nothing]
        /\ Announce(ClosedOf(w))
    BY <1>1 DEF Retag
  <2>2. Announce(ClosedOf(w) \o NewsOf(Nothing))
    BY <2>1, NoNews DEF TagsInv
  <2>3. /\ place' \in [Windows -> {"unmapped", "main", "gone"} \cup Windows]
        /\ \A v \in Windows : handle'[v] # Nothing <=> place'[v] = "main"
    BY <1>1, <2>1, PlacesLeft DEF TagsInv
  <2> QED BY <2>1, <2>2, <2>3, HandleStep
<1>2. CASE ~(m \in Windows /\ MayNest(w, m))
  <2>1. /\ MayMint
        /\ place' = [place EXCEPT ![w] = "main"]
        /\ handle' = [handle EXCEPT ![w] = Mint(w)]
        /\ Announce(ClosedOf(w) \o <<Done(Mint(w))>>)
    BY <1>2 DEF Retag
  <2>2. Mint(w) \in Handles /\ Mint(w).id \in Ids \ InUse /\ Mint(w).app = app[w]
    BY <2>1, Minted DEF TagsInv
  <2>3. Mint(w) # Nothing
    BY <2>2, HandleAssumption
  <2>4. Announce(ClosedOf(w) \o NewsOf(Mint(w)))
    BY <2>1, <2>3 DEF NewsOf
  <2>5. /\ place' \in [Windows -> {"unmapped", "main", "gone"} \cup Windows]
        /\ \A v \in Windows : handle'[v] # Nothing <=> place'[v] = "main"
    BY <2>1, <2>3 DEF TagsInv, TagsTypeOK
  <2> QED BY <2>1, <2>2, <2>4, <2>5, HandleStep
<1> QED BY <1>1, <1>2

\* WindowRole keeps the invariant.
LEMMA WindowRoleKeeps ==
    ASSUME TagsInv, NEW w \in Windows, NEW m \in Windows \cup {Nothing}, WindowRole(w, m)
    PROVE  TagsInv'
BY RetagKeeps DEF WindowRole, Served

\* The windows a request is about, when it resolves.
LEMMA Resolved ==
    ASSUME NEW i, Resolves(i)
    PROVE  WindowOf(i) \in Mains /\ handle[WindowOf(i)].id = i
BY DEF Resolves, WindowOf, Announced

\* TakeRequest keeps the invariant.
LEMMA TakeRequestKeeps == ASSUME TagsInv, TakeRequest PROVE TagsInv'
<1> DEFINE r == Head(requests)
<1>1. CASE Resolves(r.target) /\ Resolves(r.main)
  <2>1. /\ Retag(WindowOf(r.target), WindowOf(r.main))
        /\ requests # <<>> /\ requests' = Tail(requests)
        /\ UNCHANGED <<app, helper, known>>
    BY <1>1 DEF TakeRequest
  <2>2. WindowOf(r.target) \in Windows
    BY <1>1, Resolved DEF Mains
  <2> QED BY <2>1, <2>2, RetagKeeps DEF Served
<1>2. CASE ~(Resolves(r.target) /\ Resolves(r.main))
  <2>1. /\ helper' = "refused" /\ events' = <<>> /\ requests' = <<>> /\ known' = <<>>
        /\ UNCHANGED <<place, handle, app>>
    BY <1>2 DEF TakeRequest
  <2>2. DOMAIN known' = {}
    BY <2>1
  <2>3. Mains' = Mains
    BY <2>1 DEF Mains
  <2>4. TagsTypeOK'
    BY <2>1, <2>2 DEF TagsInv, TagsTypeOK
  <2>5. HandlesInv'
    BY <2>1, <2>3 DEF TagsInv, HandlesInv
  <2>6. FeedInv'
    BY <2>1, <2>2, FS_EmptySet DEF FeedInv
  <2>7. AskInv'
    BY <2>1, <2>2 DEF AskInv, NothingWaits, AskedOnce, ByRule
  <2> QED BY <2>4, <2>5, <2>6, <2>7 DEF TagsInv
<1> QED BY <1>1, <1>2

-----------------------------------------------------------------------------
(* The helper's steps.                                                     *)

\* Connect keeps the invariant: the list is announced as it is.
LEMMA ConnectKeeps == ASSUME TagsInv, Connect PROVE TagsInv'
<1>1. PICK order \in SetToSeqs(Mains) :
         events' = [n \in DOMAIN order |-> Done(handle[order[n]])]
  BY DEF Connect
<1>2. /\ order \in Seq(Mains) /\ DOMAIN order = 1..Len(order) /\ Len(order) \in Nat
      /\ \A m, n \in DOMAIN order : order[m] = order[n] => m = n
      /\ \A w \in Mains : \E n \in DOMAIN order : order[n] = w
  BY Enumeration, MainsHaveHandles DEF TagsInv
<1>3. ASSUME NEW n \in DOMAIN events'
      PROVE  /\ events'[n] \in Events /\ n \in DOMAIN order /\ order[n] \in Mains
             /\ events'[n].kind = "done" /\ events'[n].of = handle[order[n]]
             /\ events'[n].of \in Live /\ IdOf(events'[n]) = handle[order[n]].id
  <2>1. n \in DOMAIN order /\ events'[n] = Done(handle[order[n]])
    BY <1>1
  <2>2. order[n] \in Mains
    BY <2>1, <1>2
  <2>3. handle[order[n]] \in Handles /\ handle[order[n]] \in Live
    BY <2>2, MainsHaveHandles DEF Live, TagsInv
  <2> QED BY <2>1, <2>2, <2>3 DEF Done, IdOf, Events
<1>4. events' \in Seq(Events)
  <2>1. DOMAIN events' = 1..Len(order)
    BY <1>1, <1>2
  <2>2. events' = [n \in 1..Len(order) |-> Done(handle[order[n]])]
    BY <1>1, <1>2
  <2>3. events' \in [1..Len(order) -> Events]
    BY <2>1, <2>2, <1>3
  <2> QED BY <2>3, <1>2
<1>5. helper = "starting" /\ known = <<>> /\ requests = <<>> /\ DOMAIN known = {} /\ Targets = {}
  BY DEF Connect, TagsInv, FeedInv, Targets
<1>6. Mains' = Mains /\ Live' = Live /\ Targets' = Targets
  BY DEF Connect, Mains, Live, Targets, clientVars
<1>7. Feed(events', known, Targets, Live)
  <2>1. ASSUME NEW m \in DOMAIN events', NEW n \in DOMAIN events',
               IdOf(events'[m]) = IdOf(events'[n])
        PROVE  m = n
    <3>1. order[m] = order[n]
      BY <1>3, <2>1 DEF TagsInv, HandlesInv
    <3> QED BY <3>1, <1>2, <1>3
  <2>2. InOrder(events')
    BY <2>1, <1>3 DEF InOrder
  <2>3. IsNews(events', DOMAIN known, Targets)
    BY <1>5 DEF IsNews
  <2>4. \A i : ~Leaves(events', i)
    BY <1>3 DEF Leaves
  <2>5. ASSUME NEW h \in Live PROVE Arrives(events', h.id)
    <3>1. PICK w \in Mains : h = handle[w]
      BY DEF Live
    <3>2. PICK n \in DOMAIN order : order[n] = w
      BY <1>2
    <3>3. n \in DOMAIN events' /\ events'[n].kind = "done" /\ events'[n].of = h
      BY <3>1, <3>2, <1>1 DEF Done
    <3> QED BY <3>3 DEF Arrives
  <2>6. Balances(events', DOMAIN known, Live)
    BY <2>4, <2>5, <1>3, <1>5 DEF Balances
  <2>7. KnowsApps(known, Live)
    BY <1>5 DEF KnowsApps
  <2>8. Apart(Live)
    BY DEF Apart, Live, TagsInv, HandlesInv
  <2> QED BY <2>2, <2>3, <2>6, <2>7, <2>8 DEF Feed
<1>8. FeedInv'
  BY <1>6, <1>7 DEF FeedInv, Connect, TagsInv
<1>9. TagsTypeOK'
  BY <1>4 DEF TagsInv, TagsTypeOK, Connect
<1>10. HandlesInv' /\ AskInv'
  BY <1>6 DEF TagsInv, HandlesInv, AskInv, NothingWaits, AskedOnce, Connect, Matching, MainsFor
<1> QED BY <1>8, <1>9, <1>10 DEF TagsInv

\* The entries of the helper.
Infos == [app : {AppOf[w] : w \in Windows} \cup {NoApp}, tagged : BOOLEAN]

\* The rule that try_tag takes, and a main it picks.
LEMMA RuleTaken ==
    ASSUME NEW t, NEW i \in DOMAIN t, Matching(t, i) # {}, NEW j \in MainChoices(t, i)
    PROVE  /\ j \in DOMAIN t \ {i}
           /\ \E n \in DOMAIN Rules : Rules[n].target = t[i].app /\ Rules[n].main = t[j].app
<1>1. DOMAIN Rules = 1..Len(Rules) /\ Len(Rules) \in Nat
  BY RulesAssumption
<1>2. Matching(t, i) \in SUBSET (1..Len(Rules))
  BY <1>1 DEF Matching
<1>3. \E n \in Matching(t, i) : \A o \in Matching(t, i) : n <= o
  BY <1>1, <1>2, LeastIndex
<1> DEFINE first == CHOOSE n \in Matching(t, i) : \A o \in Matching(t, i) : n <= o
<1>4. first \in Matching(t, i)
  BY <1>3
<1>5. j \in MainsFor(t, Rules[first], i)
  BY DEF MainChoices
<1> HIDE DEF first
<1> QED BY <1>4, <1>5 DEF Matching, MainsFor

\* Sequence c is a followed by b.
Continues(c, a, b) ==
    /\ Len(a) \in Nat /\ DOMAIN a = 1..Len(a) /\ DOMAIN c = 1..(Len(a) + Len(b))
    /\ \A n \in 1..Len(a) : c[n] = a[n]
    /\ \A n \in DOMAIN c : n \notin 1..Len(a) =>
          n - Len(a) \in 1..Len(b) /\ c[n] = b[n - Len(a)]

\* What is in two sequences one after the other.
LEMMA Joined ==
    ASSUME NEW S, NEW a \in Seq(S), NEW b \in Seq(S)
    PROVE  a \o b \in Seq(S) /\ Continues(a \o b, a, b)
BY DEF Continues

\* try_tag_all: nobody is left waiting, and nobody is asked about twice.
LEMMA AskedAll ==
    ASSUME NEW t, DOMAIN t \subseteq Ids, IsFiniteSet(DOMAIN t), \A i \in DOMAIN t : t[i] \in Infos,
           requests \in Seq(Requests),
           \A m, n \in DOMAIN requests : requests[m].target = requests[n].target => m = n,
           \A n \in DOMAIN requests :
              requests[n].target \in DOMAIN t => t[requests[n].target].tagged,
           NEW live, ByRule(requests, live), KnowsApps(t, live), TryTagAll(t)
    PROVE  /\ requests' \in Seq(Requests) /\ Targets' \subseteq Targets \cup DOMAIN t
           /\ DOMAIN known' = DOMAIN t
           /\ \A i \in DOMAIN t : known'[i] \in Infos /\ known'[i].app = t[i].app
           /\ AskedOnce' /\ NothingWaits' /\ ByRule(requests', live)
<1> DEFINE now == Taggable(t)
<1>1. now \subseteq DOMAIN t /\ \A i \in now : ~t[i].tagged /\ Matching(t, i) # {}
  BY DEF Taggable
<1>2. PICK order \in SetToSeqs(now), main \in [now -> DOMAIN t] :
         /\ \A i \in now : main[i] \in MainChoices(t, i)
         /\ requests' = requests \o
               [n \in DOMAIN order |-> [target |-> order[n], main |-> main[order[n]]]]
         /\ known' = [i \in DOMAIN t |-> [t[i] EXCEPT !.tagged = @ \/ i \in now]]
  BY DEF TryTagAll
<1> HIDE DEF now
<1>3. IsFiniteSet(now)
  BY <1>1, FS_Subset
<1>4. /\ order \in Seq(now) /\ DOMAIN order = 1..Len(order) /\ Len(order) \in Nat
      /\ \A m, n \in DOMAIN order : order[m] = order[n] => m = n
  BY <1>3, Enumeration
<1> DEFINE asked == [n \in DOMAIN order |-> [target |-> order[n], main |-> main[order[n]]]]
<1>5. \A n \in 1..Len(order) : order[n] \in now /\ main[order[n]] \in DOMAIN t
  BY <1>2, <1>4
<1>6. /\ asked \in Seq(Requests) /\ Len(asked) = Len(order) /\ DOMAIN asked = 1..Len(order)
      /\ \A n \in 1..Len(order) : asked[n].target = order[n] /\ asked[n].main = main[order[n]]
  <2>1. \A n \in 1..Len(order) : [target |-> order[n], main |-> main[order[n]]] \in Requests
    BY <1>1, <1>5 DEF Requests
  <2>2. asked \in [1..Len(order) -> Requests]
    BY <2>1, <1>4
  <2> QED BY <2>2, <1>4
<1>7. requests' = requests \o asked
  BY <1>2
<1> HIDE DEF asked
<1>8. /\ requests' \in Seq(Requests) /\ Len(requests) \in Nat /\ DOMAIN requests = 1..Len(requests)
      /\ DOMAIN requests' = 1..(Len(requests) + Len(order))
      /\ \A n \in 1..Len(requests) : requests'[n] = requests[n]
      /\ \A n \in DOMAIN requests' : n \notin 1..Len(requests) =>
            n - Len(requests) \in 1..Len(order) /\ requests'[n] = asked[n - Len(requests)]
  <2>1. requests' \in Seq(Requests) /\ Continues(requests', requests, asked)
    BY <1>6, <1>7, Joined
  <2> QED BY <2>1, <1>6 DEF Continues
<1>9. ASSUME NEW i \in DOMAIN t
      PROVE  /\ known'[i] \in Infos /\ known'[i].app = t[i].app
             /\ known'[i].tagged <=> t[i].tagged \/ i \in now
  <2>1. known'[i] = [t[i] EXCEPT !.tagged = @ \/ i \in now] /\ t[i] \in Infos
    BY <1>2
  <2>2. known'[i] = [app |-> t[i].app, tagged |-> (t[i].tagged \/ i \in now)]
    BY <2>1 DEF Infos
  <2> QED BY <2>1, <2>2 DEF Infos
<1>10. DOMAIN known' = DOMAIN t
  BY <1>2
<1>11. Targets' \subseteq Targets \cup DOMAIN t
  <2> SUFFICES ASSUME NEW n \in DOMAIN requests'
               PROVE  requests'[n].target \in Targets \cup DOMAIN t
    BY DEF Targets
  <2>1. CASE n \in 1..Len(requests)
    BY <2>1, <1>8 DEF Targets
  <2>2. CASE n \notin 1..Len(requests)
    BY <2>2, <1>8, <1>6, <1>5, <1>1
  <2> QED BY <2>1, <2>2
<1>12. AskedOnce'
  <2>1. \A n \in 1..Len(requests) : requests[n].target \notin now
    BY <1>1, <1>8
  <2>2. ASSUME NEW m \in DOMAIN requests', NEW n \in DOMAIN requests',
               requests'[m].target = requests'[n].target
        PROVE  m = n
    <3>1. CASE m \in 1..Len(requests) /\ n \in 1..Len(requests)
      BY <3>1, <2>2, <1>8
    <3>2. CASE m \in 1..Len(requests) /\ n \notin 1..Len(requests)
      BY <3>2, <2>1, <2>2, <1>5, <1>6, <1>8
    <3>3. CASE m \notin 1..Len(requests) /\ n \in 1..Len(requests)
      BY <3>3, <2>1, <2>2, <1>5, <1>6, <1>8
    <3>4. CASE m \notin 1..Len(requests) /\ n \notin 1..Len(requests)
      <4>1. m - Len(requests) = n - Len(requests)
        BY <3>4, <2>2, <1>4, <1>6, <1>8
      <4> QED BY <4>1, <1>8
    <3> QED BY <3>1, <3>2, <3>3, <3>4
  <2>3. ASSUME NEW n \in DOMAIN requests', requests'[n].target \in DOMAIN known'
        PROVE  known'[requests'[n].target].tagged
    <3>1. CASE n \in 1..Len(requests)
      BY <3>1, <2>3, <1>8, <1>9, <1>10
    <3>2. CASE n \notin 1..Len(requests)
      <4>1. requests'[n].target \in now
        BY <3>2, <1>5, <1>6, <1>8
      <4> QED BY <4>1, <2>3, <1>9, <1>10
    <3> QED BY <3>1, <3>2
  <2> QED BY <2>2, <2>3 DEF AskedOnce
<1>13. NothingWaits'
  <2> SUFFICES ASSUME NEW i \in DOMAIN t, ~known'[i].tagged PROVE Matching(known', i) = {}
    BY <1>10 DEF NothingWaits
  <2>1. ~t[i].tagged /\ i \notin now
    BY <1>9
  <2>2. Matching(t, i) = {}
    BY <2>1 DEF now, Taggable
  <2>3. Matching(known', i) = Matching(t, i)
    BY <1>9, <1>10 DEF Matching, MainsFor
  <2> QED BY <2>2, <2>3
<1>14. ASSUME NEW k \in DOMAIN requests'
       PROVE  \E n \in DOMAIN Rules : \A h \in live :
                /\ h.id = requests'[k].target => h.app = Rules[n].target
                /\ h.id = requests'[k].main => h.app = Rules[n].main
  <2>1. CASE k \in 1..Len(requests)
    BY <2>1, <1>8 DEF ByRule
  <2>2. CASE k \notin 1..Len(requests)
    <3> DEFINE i == requests'[k].target
               j == requests'[k].main
    <3>1. i \in now /\ j = main[i]
      BY <2>2, <1>5, <1>6, <1>8
    <3>2. i \in DOMAIN t /\ Matching(t, i) # {} /\ j \in MainChoices(t, i)
      BY <3>1, <1>1, <1>2
    <3> HIDE DEF i, j
    <3>3. /\ j \in DOMAIN t
          /\ \E n \in DOMAIN Rules : Rules[n].target = t[i].app /\ Rules[n].main = t[j].app
      BY <3>2, RuleTaken
    <3>4. \E n \in DOMAIN Rules : \A h \in live :
             (h.id = i => h.app = Rules[n].target) /\ (h.id = j => h.app = Rules[n].main)
      BY <3>2, <3>3 DEF KnowsApps
    <3> QED BY <3>4 DEF i, j
  <2> QED BY <2>1, <2>2
<1> QED BY <1>8, <1>9, <1>10, <1>11, <1>12, <1>13, <1>14 DEF ByRule

\* TakeEvent keeps the invariant.
LEMMA TakeEventKeeps == ASSUME TagsInv, TakeEvent PROVE TagsInv'
<1> DEFINE e == Head(events)
<1>1. /\ helper = "running" /\ events # <<>> /\ events' = Tail(events)
      /\ UNCHANGED <<helper, place, app, handle>>
  BY DEF TakeEvent, clientVars
<1>2. /\ events \in Seq(Events) /\ events' \in Seq(Events) /\ e \in Events
      /\ requests \in Seq(Requests) /\ Live \in SUBSET Handles
  BY <1>1, TookOne, MainsHaveHandles DEF TagsInv, TagsTypeOK
<1>3. Mains' = Mains /\ Live' = Live
  BY <1>1 DEF Mains, Live
<1>4. HandlesInv'
  BY <1>1, <1>3 DEF TagsInv, HandlesInv
<1>5. /\ Feed(events, known, Targets, Live) /\ IsFiniteSet(DOMAIN known)
      /\ DOMAIN known \subseteq Ids /\ \A i \in DOMAIN known : known[i] \in Infos
  BY <1>1 DEF TagsInv, FeedInv, TagsTypeOK, Infos
<1>6. CASE e.kind = "done"
  <2> DEFINE t == [i \in DOMAIN known \cup {e.of.id} |->
                     IF i = e.of.id THEN [app |-> e.of.app, tagged |-> FALSE] ELSE known[i]]
  <2>1. TryTagAll(t)
    BY <1>6 DEF TakeEvent
  <2>2. e.of \in Handles /\ e.of.id \in Ids
    BY <1>2, <1>6, EventKinds
  <2>3. /\ DOMAIN t = DOMAIN known \cup {e.of.id}
        /\ t[e.of.id].app = e.of.app
        /\ \A i \in DOMAIN t : i # e.of.id => t[i] = known[i]
    OBVIOUS
  <2>4. DOMAIN t \subseteq Ids /\ IsFiniteSet(DOMAIN t)
    BY <2>2, <2>3, <1>5, FS_AddElement
  <2>5. \A i \in DOMAIN t : t[i] \in Infos
    BY <2>2, <1>5 DEF Infos, Handles
  <2> HIDE DEF t
  <2>6. e.of.id \notin Targets
    <3>1. Arrives(events, e.of.id)
      BY <1>1, <1>2, <1>6, TookOne
    <3> QED BY <3>1, <1>5 DEF Feed, IsNews
  <2>7. \A n \in DOMAIN requests : requests[n].target \in DOMAIN t => t[requests[n].target].tagged
    BY <2>3, <2>6 DEF Targets, TagsInv, AskInv, AskedOnce
  <2>8. \A m, n \in DOMAIN requests : requests[m].target = requests[n].target => m = n
    BY DEF TagsInv, AskInv, AskedOnce
  <2>9. KnowsApps(t, Live)
    <3> SUFFICES ASSUME NEW g \in Live, g.id \in DOMAIN t PROVE t[g.id].app = g.app
      BY DEF KnowsApps
    <3>1. CASE g.id = e.of.id
      <4>1. ~Leaves(events, e.of.id)
        BY <3>1, <1>5 DEF Feed, Balances
      <4>2. e.of \in Live
        BY <4>1, <1>1, <1>2, <1>5, <1>6, TookOne DEF Feed, Balances
      <4>3. e.of = g
        BY <4>2, <3>1, <1>5 DEF Feed, Apart
      <4> QED BY <4>3, <2>3
    <3>2. CASE g.id # e.of.id
      BY <3>2, <2>3, <1>5 DEF Feed, KnowsApps
    <3> QED BY <3>1, <3>2
  <2>10. ByRule(requests, Live)
    BY DEF TagsInv, AskInv
  <2>11. /\ requests' \in Seq(Requests) /\ Targets' \subseteq Targets \cup DOMAIN t
         /\ DOMAIN known' = DOMAIN t
         /\ \A i \in DOMAIN t : known'[i] \in Infos /\ known'[i].app = t[i].app
         /\ AskedOnce' /\ NothingWaits' /\ ByRule(requests', Live)
    BY <2>1, <2>4, <2>5, <2>7, <2>8, <2>9, <2>10, <1>2, AskedAll
  <2>12. \A i \in DOMAIN known' :
            known'[i].app = IF i = e.of.id THEN e.of.app ELSE known[i].app
    BY <2>3, <2>11
  <2>13. Feed(events', known', Targets', Live')
    <3>1. DOMAIN known' = DOMAIN known \cup {Head(events).of.id}
          /\ Targets' \subseteq Targets \cup DOMAIN known'
      BY <2>3, <2>11
    <3> QED BY <3>1, <2>12, <1>1, <1>2, <1>3, <1>5, <1>6, FeedReadDone
  <2>14. FeedInv'
    BY <2>4, <2>11, <2>13, <1>1 DEF FeedInv
  <2>15. TagsTypeOK'
    BY <2>4, <2>11, <1>1, <1>2 DEF TagsInv, TagsTypeOK, Infos
  <2> QED BY <2>11, <2>14, <2>15, <1>3, <1>4 DEF TagsInv, AskInv
<1>7. CASE e.kind = "closed"
  <2>1. known' = Without(e.id) /\ requests' = requests
    BY <1>7 DEF TakeEvent
  <2>2. /\ DOMAIN known' = DOMAIN known \ {e.id}
        /\ \A i \in DOMAIN known' : known'[i] = known[i]
    BY <2>1 DEF Without
  <2>3. Targets' = Targets
    BY <2>1 DEF Targets
  <2>4. Feed(events', known', Targets', Live')
    <3>1. \A i \in DOMAIN known' : known'[i].app = known[i].app
      BY <2>2
    <3> QED BY <3>1, <2>2, <2>3, <1>1, <1>2, <1>3, <1>5, <1>7, FeedReadClosed
  <2>5. FeedInv'
    BY <2>2, <2>4, <1>1, <1>5, FS_RemoveElement DEF FeedInv
  <2>6. TagsTypeOK'
    BY <2>1, <2>2, <1>1, <1>2 DEF TagsInv, TagsTypeOK
  <2>7. NothingWaits' /\ AskedOnce'
    BY <2>1, <2>2 DEF TagsInv, AskInv, NothingWaits, AskedOnce, Matching, MainsFor
  <2>8. ByRule(requests', Live')
    BY <2>1, <1>3 DEF TagsInv, AskInv
  <2> QED BY <2>5, <2>6, <2>7, <2>8, <1>4 DEF TagsInv, AskInv
<1> QED BY <1>2, <1>6, <1>7, EventKinds

-----------------------------------------------------------------------------
(* Theorems about the authority helper.                                    *)

\* AuthorityTags' strengthened invariant is inductive.
THEOREM TagsInductive == TagsSpec => []TagsInv
<1>1. TagsInit => TagsInv
  <2> SUFFICES ASSUME TagsInit PROVE TagsInv
    OBVIOUS
  <2> USE DEF TagsInit
  <2>1. Mains = {} /\ DOMAIN known = {} /\ DOMAIN requests = {}
    BY DEF Mains
  <2>2. TagsTypeOK
    BY <2>1 DEF TagsTypeOK
  <2>3. HandlesInv
    BY <2>1 DEF HandlesInv
  <2>4. FeedInv
    BY <2>1, FS_EmptySet DEF FeedInv
  <2>5. AskInv
    BY <2>1 DEF AskInv, NothingWaits, AskedOnce, ByRule
  <2> QED BY <2>2, <2>3, <2>4, <2>5 DEF TagsInv
<1>2. TagsInv /\ [TagsNext]_tagsVars => TagsInv'
  <2> SUFFICES ASSUME TagsInv, [TagsNext]_tagsVars PROVE TagsInv'
    OBVIOUS
  <2>1. CASE Clients
    BY <2>1, MapKeeps, SetAppIdKeeps, DestroyedKeeps, WindowRoleKeeps DEF Clients
  <2>2. CASE Connect
    BY <2>2, ConnectKeeps
  <2>3. CASE TakeRequest
    BY <2>3, TakeRequestKeeps
  <2>4. CASE TakeEvent
    BY <2>4, TakeEventKeeps
  <2>5. CASE UNCHANGED tagsVars
    BY <2>5 DEF tagsVars, TagsInv, TagsTypeOK, HandlesInv, FeedInv, AskInv, Mains, Live,
                Targets, NothingWaits, AskedOnce, Matching, MainsFor
  <2> QED BY <2>1, <2>2, <2>3, <2>4, <2>5 DEF TagsNext
<1> QED BY <1>1, <1>2, PTL DEF TagsSpec

\* A helper that runs knows the bare Main Windows as soon as it has read what
\* is on the way, lets no toplevel wait that a rule finds a main, and asks once
\* (mudhuts-authority-helper/src/main.rs, try_tag_all).
THEOREM HelperCatchesUp == TagsSpec => []CaughtUp
<1>1. TagsInv => CaughtUp
  <2> SUFFICES ASSUME TagsInv PROVE CaughtUp
    OBVIOUS
  <2>1. KnowledgeCatchesUp
    <3> SUFFICES ASSUME helper = "running" PROVE KnowledgeCatchesUp
      BY DEF KnowledgeCatchesUp
    <3> DEFINE arriving == {events[n].of.id : n \in {k \in DOMAIN events : events[k].kind = "done"}}
               leaving  == {events[n].id : n \in {k \in DOMAIN events : events[k].kind = "closed"}}
    <3>1. \A i : (i \in arriving <=> Arrives(events, i)) /\ (i \in leaving <=> Leaves(events, i))
      BY DEF Arrives, Leaves
    <3>2. Announced = {h.id : h \in Live}
      BY DEF Announced, Live
    <3>3. Balances(events, DOMAIN known, Live)
      BY DEF TagsInv, FeedInv, Feed
    <3> HIDE DEF arriving, leaving
    <3>4. ASSUME NEW i \in (DOMAIN known \cup arriving) \ leaving PROVE i \in Announced
      <4>1. CASE i \in DOMAIN known
        BY <4>1, <3>1, <3>2, <3>3 DEF Balances
      <4>2. CASE i \in arriving
        BY <4>2, <3>1, <3>2, <3>3 DEF Balances, Arrives
      <4> QED BY <4>1, <4>2
    <3>5. Announced \subseteq (DOMAIN known \cup arriving) \ leaving
      BY <3>1, <3>2, <3>3 DEF Balances
    <3>6. (DOMAIN known \cup arriving) \ leaving = Announced
      BY <3>4, <3>5
    <3> QED BY <3>6 DEF KnowledgeCatchesUp, arriving, leaving
  <2> QED BY <2>1 DEF CaughtUp, TagsInv, AskInv
<1> QED BY <1>1, TagsInductive, PTL

\* A rule is a pair of app ids.
LEMMA RuleRecords == \A n \in DOMAIN Rules : Rules[n] \in [target : STRING, main : STRING]
<1>1. ASSUME NEW S, NEW s \in Seq(S) PROVE \A n \in DOMAIN s : s[n] \in S
  OBVIOUS
<1> QED BY <1>1, RulesAssumption, Zenon

\* What a step that serves a request does to places, as TaggedByRule says it.
TaggedNow ==
    \A w, m \in Windows :
       place'[w] # place[w] /\ place'[w] = m /\ requests' # requests =>
          /\ \E n \in DOMAIN Rules :
                Rules[n] = [target |-> handle[w].app, main |-> handle[m].app]
          /\ handle[w].app \in {app[w], NoApp} /\ handle[m].app \in {app[m], NoApp}

\* Whatever became of a request's windows while it was on its way, a rule pairs
\* what they were announced as.
LEMMA TakenByRule == ASSUME TagsInv, TakeRequest PROVE TaggedNow
<1> SUFFICES ASSUME NEW w \in Windows, NEW m \in Windows, place'[w] # place[w], place'[w] = m
             PROVE  /\ \E n \in DOMAIN Rules :
                          Rules[n] = [target |-> handle[w].app, main |-> handle[m].app]
                    /\ handle[w].app \in {app[w], NoApp} /\ handle[m].app \in {app[m], NoApp}
  BY DEF TaggedNow
<1> DEFINE r == Head(requests)
           t == WindowOf(r.target)
           u == WindowOf(r.main)
<1>1. Resolves(r.target) /\ Resolves(r.main) /\ Retag(t, u) /\ requests # <<>>
  BY DEF TakeRequest
<1>2. t \in Mains /\ handle[t].id = r.target /\ u \in Mains /\ handle[u].id = r.main
  BY <1>1, Resolved
<1> HIDE DEF t, u
<1>3. m # "main" /\ m # "gone" /\ Mains \subseteq Windows
  BY WindowsAssumption DEF Mains
<1>4. CASE u \in Windows /\ MayNest(t, u)
  <2>1. place' = [Forget(t) EXCEPT ![t] = u]
    BY <1>1, <1>4 DEF Retag
  <2>2. w = t /\ m = u
    BY <2>1, <1>3 DEF Forget
  <2>3. 1 \in DOMAIN requests /\ r = requests[1]
    BY <1>1 DEF TagsInv, TagsTypeOK
  <2>4. PICK n \in DOMAIN Rules : \A h \in Live :
              /\ h.id = r.target => h.app = Rules[n].target
              /\ h.id = r.main => h.app = Rules[n].main
    BY <2>3 DEF TagsInv, AskInv, ByRule
  <2>5. handle[t].app = Rules[n].target /\ handle[u].app = Rules[n].main
    BY <2>4, <1>2 DEF Live
  <2>6. Rules[n] \in [target : STRING, main : STRING]
    BY RuleRecords
  <2>7. Rules[n] = [target |-> handle[w].app, main |-> handle[m].app]
    BY <2>2, <2>5, <2>6
  <2> QED BY <2>2, <2>7, <1>2 DEF TagsInv, HandlesInv
<1>5. CASE ~(u \in Windows /\ MayNest(t, u))
  <2>1. place' = [place EXCEPT ![t] = "main"]
    BY <1>1, <1>5 DEF Retag
  <2> QED BY <2>1, <1>3 DEF TagsInv, TagsTypeOK
<1> QED BY <1>4, <1>5

\* The helper's requests put only such windows below one another as were
\* announced under the app ids of a rule (handlers/shell.rs, the authority's
\* SetFloating and SetAlert; main.rs, try_tag).
THEOREM RulesAreObeyed == TagsSpec => TaggedByRule
<1>1. TagsInv /\ [TagsNext]_tagsVars => [TaggedNow]_tagsVars
  <2> SUFFICES ASSUME TagsInv, TagsNext PROVE TaggedNow
    OBVIOUS
  <2>1. CASE TakeRequest
    BY <2>1, TakenByRule
  <2>2. CASE ~TakeRequest
    <3>1. requests' = requests \/ place' = place
      BY <2>2 DEF TagsNext, Clients, Map, SetAppId, ToplevelDestroyed, WindowRole, Connect,
                  TakeEvent, clientVars
    <3> QED BY <3>1 DEF TaggedNow
  <2> QED BY <2>1, <2>2
<1> QED BY <1>1, TagsInductive, PTL DEF TagsSpec, TaggedByRule, TaggedNow
=============================================================================
