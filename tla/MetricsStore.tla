---------------------------- MODULE MetricsStore ----------------------------
(***************************************************************************)
(* The rolling metrics history (internal/metrics) and its two writers: the *)
(* background Sampler, which stamps a whole tick with one time and then    *)
(* asks the backend for one instance after the other, and the series       *)
(* handler of the HTTP server, which stamps its sample after the backend   *)
(* has answered, appends it and then reads the series back.  Every Append  *)
(* also advances the lazy eviction of keys nothing samples any more.       *)
(*                                                                         *)
(* A sample is its time stamp and, for the properties only, the instance   *)
(* it was taken from.  An instance is a scope (remote and project) and a   *)
(* name; the sampler works in DefaultScope only.                           *)
(***************************************************************************)
EXTENDS Integers, Sequences

CONSTANTS
  Scopes,        \* remote/project pairs
  Names,         \* instance names, the same in every scope
  DefaultScope,  \* the scope of the sampler's context
  Viewers,       \* concurrent requests for a series
  Limit,         \* samples retained per key
  MinGap,        \* shortest interval between two retained samples
  MaxAge,        \* age at which an idle key is evicted
  SweepEvery,    \* sweepEvery
  MaxDelay,      \* longest time a stamped sample takes to reach Append
  MaxClock       \* bound of the model: last clock value

ASSUME StoreAssumption ==
  /\ Names # {}
  /\ DefaultScope \in Scopes
  /\ Limit \in Nat \ {0}
  /\ MinGap \in Nat
  /\ MaxAge \in Nat \ {0}
  /\ SweepEvery \in Nat \ {0}
  /\ MaxDelay \in Nat
  /\ MaxDelay + MinGap <= MaxAge
  /\ MaxClock \in Nat

Instances == Scopes \X Names

VARIABLES
  clock,      \* the wall clock
  running,    \* instances whose status is Running
  series,     \* Store.series; an absent key is the empty sequence
  lastSweep,  \* Store.lastSweep
  newest,     \* ghost: the latest time stamp any Append was given
  sampler,    \* the sampler's tick: its time and the instances still to ask
  viewer      \* per request, where it is

vars == <<clock, running, series, lastSweep, newest, sampler, viewer>>

Sample == [time : Nat]

Request == [pc : {"idle", "append", "series", "reply"}, scope : Scopes,
            name : Names, time : Nat, reply : Seq(Sample)]

\* The time stamp of the newest sample of a non-empty history.
Latest(buf) == buf[Len(buf)].time

-----------------------------------------------------------------------------
(* Plausible bugs, substituted for the definitions below by the mutants.   *)

NoGap(buf, t) == buf # <<>> /\ t < Latest(buf)
ExpiredByOldest(buf, now) == buf # <<>> /\ now - buf[1].time > MaxAge
NoTrim(buf) == buf
SweepDueEarly(now) == now > MaxAge + SweepEvery + lastSweep

-----------------------------------------------------------------------------
(* The store: one critical section per call.                               *)

Key(scope, name) == <<scope, name>>

\* The sample does not advance at least MinGap past the newest one.
TooClose(buf, t) == buf # <<>> /\ t <= Latest(buf) + MinGap

Expired(buf, now) == buf # <<>> /\ now - Latest(buf) > MaxAge

SweepDue(now) == now - lastSweep >= SweepEvery

\* What sweep(now) leaves of the history of key k.
Swept(k, now) ==
  IF SweepDue(now) /\ Expired(series[k], now) THEN <<>> ELSE series[k]

\* The newest Limit samples.
Trim(buf) ==
  IF Len(buf) > Limit THEN SubSeq(buf, Len(buf) - Limit + 1, Len(buf)) ELSE buf

Appended(buf, s) == IF TooClose(buf, s.time) THEN buf ELSE Trim(Append(buf, s))

StoreAppend(key, s) ==
  /\ series' = [k \in Instances |->
       IF k = key THEN Appended(Swept(k, s.time), s) ELSE Swept(k, s.time)]
  /\ lastSweep' = IF SweepDue(s.time) THEN s.time ELSE lastSweep
  /\ newest' = IF s.time > newest THEN s.time ELSE newest

-----------------------------------------------------------------------------
NoTick == [on |-> FALSE, time |-> 0, todo |-> {}]
NoCall == [pc |-> "idle", scope |-> DefaultScope, name |-> CHOOSE n \in Names : TRUE,
           time |-> 0, reply |-> <<>>]

Init ==
  /\ clock = SweepEvery
  /\ running \in SUBSET Instances
  /\ series = [k \in Instances |-> <<>>]
  /\ lastSweep = 0
  /\ newest = 0
  /\ sampler = NoTick
  /\ viewer = [v \in Viewers |-> NoCall]

\* A stamped sample reaches the store within MaxDelay.
Tick ==
  /\ clock < MaxClock
  /\ sampler.on => clock - sampler.time < MaxDelay
  /\ \A v \in Viewers : viewer[v].pc # "idle" => clock - viewer[v].time < MaxDelay
  /\ clock' = clock + 1
  /\ UNCHANGED <<running, series, lastSweep, newest, sampler, viewer>>

\* An instance starts, stops or is deleted, at any time.
Toggle(i) ==
  /\ running' = IF i \in running THEN running \ {i} ELSE running \cup {i}
  /\ UNCHANGED <<clock, series, lastSweep, newest, sampler, viewer>>

(* Sampler *)

\* sampleOnce: list, then stamp the tick; a failed list skips the tick and
\* changes nothing.
SampleOnce ==
  /\ ~sampler.on
  /\ sampler' = [on |-> TRUE, time |-> clock,
                 todo |-> {i \in running : i[1] = DefaultScope}]
  /\ UNCHANGED <<clock, running, series, lastSweep, newest, viewer>>

\* sampleInstance, for an instance that still answers.
SampleInstance(i) ==
  /\ sampler.on
  /\ i \in sampler.todo
  /\ i \in running
  /\ StoreAppend(Key(DefaultScope, i[2]), [time |-> sampler.time])
  /\ sampler' = [sampler EXCEPT !.todo = @ \ {i}]
  /\ UNCHANGED <<clock, running, viewer>>

\* The backend fails or panics: this instance is skipped, the tick goes on.
SkipInstance(i) ==
  /\ sampler.on
  /\ i \in sampler.todo
  /\ sampler' = [sampler EXCEPT !.todo = @ \ {i}]
  /\ UNCHANGED <<clock, running, series, lastSweep, newest, viewer>>

EndTick ==
  /\ sampler.on
  /\ sampler.todo = {}
  /\ sampler' = NoTick
  /\ UNCHANGED <<clock, running, series, lastSweep, newest, viewer>>

(* metricsSeries *)

\* The backend has answered and the sample is stamped.
ViewerStamp(v, i) ==
  /\ viewer[v].pc = "idle"
  /\ i \in running
  /\ viewer' = [viewer EXCEPT ![v] =
       [pc |-> "append", scope |-> i[1], name |-> i[2], time |-> clock, reply |-> <<>>]]
  /\ UNCHANGED <<clock, running, series, lastSweep, newest, sampler>>

ViewerAppend(v) ==
  LET c == viewer[v] IN
  /\ c.pc = "append"
  /\ StoreAppend(Key(c.scope, c.name), [time |-> c.time])
  /\ viewer' = [viewer EXCEPT ![v] = [@ EXCEPT !.pc = "series"]]
  /\ UNCHANGED <<clock, running, sampler>>

ViewerSeries(v) ==
  LET c == viewer[v] IN
  /\ c.pc = "series"
  /\ viewer' = [viewer EXCEPT ![v] =
       [@ EXCEPT !.pc = "reply", !.reply = series[Key(c.scope, c.name)]]]
  /\ UNCHANGED <<clock, running, series, lastSweep, newest, sampler>>

ViewerReply(v) ==
  /\ viewer[v].pc = "reply"
  /\ viewer' = [viewer EXCEPT ![v] = NoCall]
  /\ UNCHANGED <<clock, running, series, lastSweep, newest, sampler>>

Next ==
  \/ Tick
  \/ \E i \in Instances : Toggle(i)
  \/ SampleOnce
  \/ \E i \in Instances : SampleInstance(i) \/ SkipInstance(i)
  \/ EndTick
  \/ \E v \in Viewers, i \in Instances : ViewerStamp(v, i)
  \/ \E v \in Viewers : ViewerAppend(v) \/ ViewerSeries(v) \/ ViewerReply(v)

Spec == Init /\ [][Next]_vars

-----------------------------------------------------------------------------
(* Properties                                                              *)

\* Type invariant; the ring never holds more than Limit samples.
TypeOK ==
  /\ clock \in Nat
  /\ running \in SUBSET Instances
  /\ series \in [Instances -> Seq(Sample)]
  /\ \A k \in Instances : Len(series[k]) <= Limit
  /\ lastSweep \in Nat
  /\ newest \in Nat
  /\ sampler \in [on : BOOLEAN, time : Nat, todo : SUBSET Instances]
  /\ viewer \in [Viewers -> Request]

\* However the sampler and the viewers interleave, n + 1 consecutive samples
\* of a key span more than n minimum gaps: polling the same instance twice
\* cannot halve the window the chart shows (NewStore).
Spaced(buf) ==
  \A i, j \in 1 .. Len(buf) :
    i <= j => buf[j].time - buf[i].time >= (j - i) * (MinGap + 1)

WindowNotHalved ==
  \A k \in Instances : Spaced(series[k])

\* A key nothing samples any more is dropped: no history ends more than
\* MaxAge and one sweep period before the newest stamp the store has seen,
\* so deleted or renamed instances do not leave their buffers behind.
NoStaleKey ==
  \A k \in Instances :
    series[k] # <<>> =>
      newest - Latest(series[k]) < MaxAge + SweepEvery

\* The reply of the series handler contains a sample no more than MinGap
\* older than the request's own: whatever other writers and sweeps do between
\* its Append and its Series, a viewer is never shown an empty or stale chart.
ReplyIsFresh ==
  \A v \in Viewers :
    viewer[v].pc = "reply" =>
      /\ viewer[v].reply # <<>>
      /\ Latest(viewer[v].reply) >= viewer[v].time - MinGap
=============================================================================
