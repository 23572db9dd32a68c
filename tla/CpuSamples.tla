----------------------------- MODULE CpuSamples -----------------------------
(***************************************************************************)
(* The CPU-percentage cache of the Incus driver (incus/metrics.go).        *)
(*                                                                         *)
(* Every Metrics call reads an instance's cumulative CPU time from the     *)
(* daemon with no lock held, and afterwards turns it into a percentage     *)
(* against the previous sample of the same key, under cpuMu.  Several      *)
(* pollers (background sampler, live panel, chart poll) do this at once,   *)
(* while DeleteInstance removes the instance and leaves a tombstone, and   *)
(* the same name may be created again: a reading can be recorded long      *)
(* after the instance it describes has gone.                               *)
(*                                                                         *)
(* Data abstraction.  A reading of cumulative CPU time is represented by   *)
(* the incarnation of the instance it was read from; a percentage by the   *)
(* length of the interval it was computed over (the clamp of a negative    *)
(* delta to 0% is arithmetic on the reading and is left out).  Each call   *)
(* of time.Now() reads a clock that advances, so that calls on both sides  *)
(* of a round trip to the daemon are strictly ordered.                     *)
(***************************************************************************)
EXTENDS Integers

CONSTANTS
  Keys,         \* remote/project/name keys (cpuSampleKey)
  Readers,      \* goroutines calling Metrics
  Floor,        \* cpuSampleFloor
  TTL,          \* cpuSampleTTL
  MaxLockWait,  \* how long a goroutine may wait for cpuMu
  MaxClock,     \* bound of the model: last clock value
  MaxInc        \* bound of the model: incarnations of one name

ASSUME CpuAssumption ==
  /\ Keys # {}
  /\ Floor \in Nat \ {0}
  /\ TTL \in Nat \ {0}
  /\ MaxLockWait \in Nat \ {0}
  /\ MaxLockWait <= TTL
  /\ MaxClock \in Nat
  /\ MaxInc \in Nat

VARIABLES
  clock,      \* the wall clock
  inst,       \* the daemon: per key, the latest incarnation and whether it lives
  samples,    \* cpuSamples: per key an absent, live or tombstone entry
  lastSweep,  \* cpuLastSweep
  reader,     \* per goroutine, where its Metrics call is
  deleter,    \* per key, where the DeleteInstance call is
  cleared     \* ghost: per key, last incarnation cleared and when

vars == <<clock, inst, samples, lastSweep, reader, deleter, cleared>>

\* An entry that holds a percentage says so, and no other does: a caller told to
\* reuse a percentage gets one, and one that was measured is not withheld.
Entry == {e \in [kind : {"absent", "live", "tomb"}, inc : Nat, at : Int,
                 measured : BOOLEAN, window : Int, clearedAt : Nat] :
            e.measured <=> e.window # 0}

Answer == [ok : BOOLEAN, window : Int]

Call == [pc : {"idle", "reading", "read", "locking"}, key : Keys,
         readStart : Nat, inc : Nat, now : Nat, answer : Answer]

Absent == [kind |-> "absent", inc |-> 0, at |-> 0,
           measured |-> FALSE, window |-> 0, clearedAt |-> 0]

\* A bare reading: no percentage has been computed from it yet.
Baseline(i, now) == [kind |-> "live", inc |-> i, at |-> now,
                     measured |-> FALSE, window |-> 0, clearedAt |-> 0]

\* A plausible bug: the new sample is not marked as one with a percentage.
MeasurementUnmarked(i, now, elapsed) == [Baseline(i, now) EXCEPT !.window = elapsed]

Measurement(i, now, elapsed) ==
  [kind |-> "live", inc |-> i, at |-> now,
   measured |-> TRUE, window |-> elapsed, clearedAt |-> 0]

Unknown == [ok |-> FALSE, window |-> 0]

-----------------------------------------------------------------------------
(* Plausible bugs, substituted for the definitions below by the mutants.   *)

TombstoneNoAge(now) == [Absent EXCEPT !.kind = "tomb", !.clearedAt = now]
ReuseAlwaysKnown(prev) == [ok |-> TRUE, window |-> prev.window]

-----------------------------------------------------------------------------
(* The map under cpuMu.                                                    *)

Tombstone(now) == [kind |-> "tomb", inc |-> 0, at |-> now,
                   measured |-> FALSE, window |-> 0, clearedAt |-> now]

\* readStart.Before(prev.clearedAt): the state was read from before the clear.
IsStale(r, prev) == reader[r].readStart < prev.clearedAt

\* Another poller sampled this key a moment ago (or after our time.Now()).
TooSoon(elapsed) == elapsed < Floor

Reused(prev) == [ok |-> prev.measured, window |-> prev.window]

\* The samples that outlive a sweep at time now.
Swept(now) ==
  [k \in Keys |-> IF now - samples[k].at > TTL THEN Absent ELSE samples[k]]

SweepDue(now) == now - lastSweep > TTL

-----------------------------------------------------------------------------
Idle == [pc |-> "idle", key |-> CHOOSE k \in Keys : TRUE, readStart |-> 0,
         inc |-> 0, now |-> 0, answer |-> Unknown]

Init ==
  /\ clock = 0
  /\ inst = [k \in Keys |-> [inc |-> 1, alive |-> TRUE]]
  /\ samples = [k \in Keys |-> Absent]
  /\ lastSweep = -(TTL + 1)   \* the zero time.Time: the first call sweeps
  /\ reader = [r \in Readers |-> Idle]
  /\ deleter = [k \in Keys |-> "idle"]
  /\ cleared = [k \in Keys |-> [inc |-> 0, at |-> 0]]

\* Time moves; nobody waits for the mutex longer than MaxLockWait.
Advance ==
  /\ clock < MaxClock
  /\ \A r \in Readers :
       reader[r].pc = "locking" => clock - reader[r].now < MaxLockWait
  /\ clock' = clock + 1

Tick ==
  /\ Advance
  /\ UNCHANGED <<inst, samples, lastSweep, reader, deleter, cleared>>

(* Metrics *)

StartRead(r, k) ==
  /\ reader[r].pc = "idle"
  /\ Advance
  /\ reader' = [reader EXCEPT ![r] =
       [Idle EXCEPT !.pc = "reading", !.key = k, !.readStart = clock']]
  /\ UNCHANGED <<inst, samples, lastSweep, deleter, cleared>>

\* GetInstanceState answers with the state of the incarnation alive now.
ReadState(r) ==
  LET i == inst[reader[r].key] IN
  /\ reader[r].pc = "reading"
  /\ i.alive
  /\ reader' = [reader EXCEPT ![r] = [@ EXCEPT !.pc = "read", !.inc = i.inc]]
  /\ UNCHANGED <<clock, inst, samples, lastSweep, deleter, cleared>>

ReadNotFound(r) ==
  /\ reader[r].pc = "reading"
  /\ ~inst[reader[r].key].alive
  /\ reader' = [reader EXCEPT ![r] = Idle]
  /\ UNCHANGED <<clock, inst, samples, lastSweep, deleter, cleared>>

\* cpuPercent: now is read before the mutex is taken.
EnterCpuPercent(r) ==
  /\ reader[r].pc = "read"
  /\ Advance
  /\ reader' = [reader EXCEPT ![r] = [@ EXCEPT !.pc = "locking", !.now = clock']]
  /\ UNCHANGED <<inst, samples, lastSweep, deleter, cleared>>

\* What cpuPercent finds under the mutex once the sweep has run.
Kept(now) == IF SweepDue(now) THEN Swept(now) ELSE samples

Finish(r, answer) == reader' = [reader EXCEPT ![r] = [Idle EXCEPT !.answer = answer]]

Sweep(now) == lastSweep' = IF SweepDue(now) THEN now ELSE lastSweep

DiscardStale(r) ==
  LET now == reader[r].now  k == reader[r].key  prev == Kept(now)[k] IN
  /\ prev.kind = "tomb"
  /\ IsStale(r, prev)
  /\ samples' = Kept(now)
  /\ Finish(r, Unknown)

\* The first reading of a key, or the first one after its tombstone.
Seed(r) ==
  LET now == reader[r].now  k == reader[r].key  prev == Kept(now)[k] IN
  /\ \/ prev.kind = "absent"
     \/ prev.kind = "tomb" /\ ~IsStale(r, prev)
  /\ samples' = [Kept(now) EXCEPT ![k] = Baseline(reader[r].inc, now)]
  /\ Finish(r, Unknown)

ReusePercent(r) ==
  LET now == reader[r].now  k == reader[r].key  prev == Kept(now)[k] IN
  /\ prev.kind = "live"
  /\ TooSoon(now - prev.at)
  /\ samples' = Kept(now)
  /\ Finish(r, Reused(prev))

Measure(r) ==
  LET now == reader[r].now  k == reader[r].key  prev == Kept(now)[k] IN
  /\ prev.kind = "live"
  /\ ~TooSoon(now - prev.at)
  /\ samples' = [Kept(now) EXCEPT ![k] = Measurement(reader[r].inc, now, now - prev.at)]
  /\ Finish(r, [ok |-> TRUE, window |-> now - prev.at])

CpuPercent(r) ==
  /\ reader[r].pc = "locking"
  /\ Sweep(reader[r].now)
  /\ DiscardStale(r) \/ Seed(r) \/ ReusePercent(r) \/ Measure(r)
  /\ UNCHANGED <<clock, inst, deleter, cleared>>

(* DeleteInstance and the life of a name on the daemon *)

SubmitDelete(k) ==
  /\ deleter[k] = "idle"
  /\ inst[k].alive
  /\ deleter' = [deleter EXCEPT ![k] = "waiting"]
  /\ UNCHANGED <<clock, inst, samples, lastSweep, reader, cleared>>

\* The daemon completes the operation, waited for or not.
DaemonDelete(k) ==
  /\ deleter[k] \in {"waiting", "abandoned"}
  /\ inst[k].alive
  /\ inst' = [inst EXCEPT ![k].alive = FALSE]
  /\ deleter' = [deleter EXCEPT ![k] = IF @ = "waiting" THEN "deleted" ELSE "idle"]
  /\ UNCHANGED <<clock, samples, lastSweep, reader, cleared>>

\* WaitContext fails because the request's context ended: DeleteInstance
\* returns its error and never reaches clearCPUSample.
AbandonDelete(k) ==
  /\ deleter[k] \in {"waiting", "deleted"}
  /\ deleter' = [deleter EXCEPT ![k] = IF inst[k].alive THEN "abandoned" ELSE "idle"]
  /\ UNCHANGED <<clock, inst, samples, lastSweep, reader, cleared>>

\* The last incarnation of k known to be gone.
LastDead(k) == IF inst[k].alive THEN inst[k].inc - 1 ELSE inst[k].inc

ClearCPUSample(k) ==
  /\ deleter[k] = "deleted"
  /\ Advance
  /\ samples' = [samples EXCEPT ![k] = Tombstone(clock')]
  /\ deleter' = [deleter EXCEPT ![k] = "idle"]
  /\ cleared' = [cleared EXCEPT ![k] = [inc |-> LastDead(k), at |-> clock']]
  /\ UNCHANGED <<inst, lastSweep, reader>>

\* The name is created again, here or by another client of the daemon.
Recreate(k) ==
  /\ ~inst[k].alive
  /\ inst[k].inc < MaxInc
  /\ inst' = [inst EXCEPT ![k] = [inc |-> @.inc + 1, alive |-> TRUE]]
  /\ UNCHANGED <<clock, samples, lastSweep, reader, deleter, cleared>>

ReaderStep(r) ==
  \/ \E k \in Keys : StartRead(r, k)
  \/ ReadState(r)
  \/ ReadNotFound(r)
  \/ EnterCpuPercent(r)
  \/ CpuPercent(r)

KeyStep(k) ==
  \/ SubmitDelete(k)
  \/ DaemonDelete(k)
  \/ AbandonDelete(k)
  \/ ClearCPUSample(k)
  \/ Recreate(k)

Next ==
  \/ Tick
  \/ \E r \in Readers : ReaderStep(r)
  \/ \E k \in Keys : KeyStep(k)

Spec == Init /\ [][Next]_vars

-----------------------------------------------------------------------------
(* Properties                                                              *)

\* Type invariant.
TypeOK ==
  /\ clock \in Nat
  /\ inst \in [Keys -> [inc : Nat, alive : BOOLEAN]]
  /\ samples \in [Keys -> Entry]
  /\ lastSweep \in Int
  /\ reader \in [Readers -> Call]
  /\ deleter \in [Keys -> {"idle", "waiting", "abandoned", "deleted"}]
  /\ cleared \in [Keys -> [inc : Int, at : Nat]]

\* A percentage handed to a caller was measured over a real interval: at
\* least the floor, so that two pollers milliseconds apart never produce a
\* spike or a fake 0% (the floor in cpuPercent), and at most twice the TTL,
\* because the lazy sweep keeps no sample older than that (cpuSampleTTL).
AnswersAreMeasured ==
  \A r \in Readers :
    reader[r].answer.ok => reader[r].answer.window \in Floor .. 2 * TTL

\* A tombstone guards its key: within the TTL of a clear, the only thing that
\* replaces it is a reading of an instance created after the cleared one.  A
\* Metrics call that was in flight across the deletion neither seeds a baseline
\* over it nor removes it, however late its reading is recorded.
TombstoneGuards ==
  [][\A k \in Keys :
       samples[k].kind = "tomb" /\ samples'[k].kind # "tomb"
         => \/ samples'[k].kind = "live" /\ samples'[k].inc > cleared[k].inc
            \/ clock - samples[k].clearedAt > TTL]_vars

\* The comment on clearCPUSample: a concurrent Metrics call that read the
\* deleted instance's state cannot re-seed a stale baseline.
NoStaleBaseline ==
  \A k \in Keys :
    samples[k].kind = "live" => samples[k].inc > cleared[k].inc
=============================================================================
