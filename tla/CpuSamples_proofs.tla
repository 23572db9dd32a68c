-------------------------- MODULE CpuSamples_proofs --------------------------
(***************************************************************************)
(* Proofs about CpuSamples.  IInv strengthens the checked properties with  *)
(* what makes them inductive: a sample is never older than TTL at the last *)
(* sweep, a goroutine's reading of the clock is never staler than          *)
(* MaxLockWait when it is used, and a Metrics call that began after a      *)
(* clear can only have read an instance created after the cleared one.     *)
(***************************************************************************)
EXTENDS CpuSamples, TLAPS

\* Clock readings lie in the past, and a goroutine at the mutex read the
\* clock at most MaxLockWait ago.
ClockInv ==
  /\ lastSweep <= clock
  /\ \A k \in Keys : samples[k].at <= clock
  /\ \A r \in Readers :
       /\ reader[r].readStart <= clock
       /\ reader[r].now <= clock
       /\ reader[r].pc = "locking" => clock - reader[r].now <= MaxLockWait

\* The lazy sweep bounds the age of what it left behind.
AgeInv ==
  \A k \in Keys : samples[k].kind # "absent" => samples[k].at >= lastSweep - TTL

\* A percentage kept for reuse was itself measured over a legal interval.
WindowInv ==
  \A k \in Keys : samples[k].measured => samples[k].window \in Floor .. 2 * TTL

\* A tombstone is the trace of the latest clear of its key.
TombInv ==
  \A k \in Keys : samples[k].kind = "tomb" =>
    /\ samples[k].clearedAt = cleared[k].at
    /\ samples[k].at = cleared[k].at

\* The incarnation alive is younger than every cleared one.
LifeInv ==
  \A k \in Keys :
    /\ inst[k].inc >= 1
    /\ cleared[k].inc <= inst[k].inc
    /\ inst[k].alive => cleared[k].inc < inst[k].inc

\* A reading begun at or after the latest clear is of a later incarnation.
ReadInv ==
  \A r \in Readers :
    LET k == reader[r].key IN
    reader[r].pc \in {"read", "locking"} /\ reader[r].readStart >= cleared[k].at
      => reader[r].inc > cleared[k].inc

IInv ==
  /\ TypeOK
  /\ AnswersAreMeasured
  /\ ClockInv
  /\ AgeInv
  /\ WindowInv
  /\ TombInv
  /\ LifeInv
  /\ ReadInv

-----------------------------------------------------------------------------
\* What cpuPercent finds after the sweep is the old sample or nothing, and
\* nothing only if the sample was older than TTL.
LEMMA KeptEntry ==
  ASSUME TypeOK, NEW now \in Nat, NEW k \in Keys
  PROVE  /\ Kept(now) \in [Keys -> Entry]
         /\ \/ Kept(now)[k] = samples[k]
            \/ Kept(now)[k] = Absent /\ SweepDue(now) /\ now - samples[k].at > TTL
         /\ SweepDue(now) /\ Kept(now)[k].kind # "absent" => now - Kept(now)[k].at <= TTL
<1>1. Absent \in Entry
  BY DEF Absent, Entry
<1>2. Swept(now) \in [Keys -> Entry]
  BY <1>1 DEF Swept, TypeOK
<1>3. Kept(now) \in [Keys -> Entry]
  BY <1>2 DEF Kept, TypeOK
<1>4. Swept(now)[k] = IF now - samples[k].at > TTL THEN Absent ELSE samples[k]
  BY DEF Swept
<1>5. samples[k] \in Entry /\ samples[k].at \in Int
  BY DEF TypeOK, Entry
<1>6. now - samples[k].at \in Int /\ TTL \in Int
  BY <1>5, CpuAssumption
<1>7. CASE SweepDue(now)
  <2>1. Kept(now)[k] = IF now - samples[k].at > TTL THEN Absent ELSE samples[k]
    BY <1>4, <1>7 DEF Kept
  <2>2. Absent.kind = "absent"
    BY DEF Absent
  <2>. QED
    BY <1>3, <1>6, <1>7, <2>1, <2>2
<1>8. CASE ~SweepDue(now)
  BY <1>3, <1>8 DEF Kept
<1>. QED
  BY <1>7, <1>8

\* A finished call leaves its goroutine idle, with its answer.
LEMMA IdleType ==
  ASSUME NEW a \in Answer
  PROVE  [Idle EXCEPT !.answer = a] \in Call
<1>1. (CHOOSE k \in Keys : TRUE) \in Keys
  BY CpuAssumption
<1>. QED
  BY <1>1 DEF Idle, Unknown, Answer, Call

\* Every outcome of cpuPercent is well typed.
LEMMA CpuPercentType ==
  ASSUME TypeOK, NEW r \in Readers, CpuPercent(r)
  PROVE  TypeOK'
<1> DEFINE now == reader[r].now
           k == reader[r].key
<1>1. now \in Nat /\ k \in Keys /\ reader[r].inc \in Nat
  BY DEF TypeOK, Call
<1>2. Kept(now) \in [Keys -> Entry]
  BY <1>1, KeptEntry
<1>3. Kept(now)[k] \in Entry
  BY <1>1, <1>2
<1>4. now - Kept(now)[k].at \in Int
  BY <1>1, <1>3 DEF Entry
<1>5. lastSweep' \in Int
  BY <1>1 DEF CpuPercent, Sweep, TypeOK
<1>6. samples' \in [Keys -> Entry] /\ \E a \in Answer : Finish(r, a)
  <2>0. Unknown \in Answer
    BY DEF Unknown, Answer
  <2>1. CASE DiscardStale(r)
    <3>1. samples' = Kept(now) /\ Finish(r, Unknown)
      BY <2>1 DEF DiscardStale
    <3>. QED
      BY <2>0, <3>1, <1>2
  <2>2. CASE Seed(r)
    <3>1. Baseline(reader[r].inc, now) \in Entry
      BY <1>1 DEF Baseline, Entry
    <3>2. /\ samples' = [Kept(now) EXCEPT ![k] = Baseline(reader[r].inc, now)]
          /\ Finish(r, Unknown)
      BY <2>2 DEF Seed
    <3>. QED
      BY <2>0, <3>1, <3>2, <1>2
  <2>3. CASE ReusePercent(r)
    <3>1. Reused(Kept(now)[k]) \in Answer
      BY <1>3 DEF Reused, Answer, Entry
    <3>2. samples' = Kept(now) /\ Finish(r, Reused(Kept(now)[k]))
      BY <2>3 DEF ReusePercent
    <3>. QED
      BY <3>1, <3>2, <1>2
  <2>4. CASE Measure(r)
    <3> DEFINE w == now - Kept(now)[k].at
    <3>1. Measurement(reader[r].inc, now, w) \in Entry
      <4>1. w # 0
        BY <1>4, <2>4, CpuAssumption DEF Measure, TooSoon
      <4>. QED
        BY <1>1, <1>4, <4>1 DEF Measurement, Entry
    <3>2. [ok |-> TRUE, window |-> w] \in Answer
      BY <1>4 DEF Answer
    <3>3. /\ samples' = [Kept(now) EXCEPT ![k] = Measurement(reader[r].inc, now, w)]
          /\ Finish(r, [ok |-> TRUE, window |-> w])
      BY <2>4 DEF Measure
    <3>4. samples' \in [Keys -> Entry]
      <4> HIDE DEF w
      <4>. QED BY <3>1, <3>3, <1>2
    <3>. QED
      BY <3>2, <3>3, <3>4
  <2>. QED
    BY <2>1, <2>2, <2>3, <2>4 DEF CpuPercent
<1>7. reader' \in [Readers -> Call]
  BY <1>6, IdleType DEF Finish, TypeOK
<1>. QED
  BY <1>5, <1>6, <1>7 DEF CpuPercent, TypeOK

\* The initial state is well typed.
LEMMA InitType == Init => TypeOK
<1>1. (CHOOSE k \in Keys : TRUE) \in Keys
  BY CpuAssumption
<1>. QED
  <2>1. Idle \in Call
    BY <1>1 DEF Idle, Unknown, Answer, Call
  <2>2. Absent \in Entry
    BY DEF Absent, Entry
  <2>3. -(TTL + 1) \in Int
    BY CpuAssumption
  <2>. QED
    BY <2>1, <2>2, <2>3 DEF Init, TypeOK

\* Every step keeps the types.
LEMMA NextType == TypeOK /\ [Next]_vars => TypeOK'
<1> SUFFICES ASSUME TypeOK, [Next]_vars
             PROVE  TypeOK'
  OBVIOUS
<1>1. CASE Tick
  BY <1>1 DEF Tick, Advance, TypeOK
<1>2. ASSUME NEW r \in Readers, NEW k \in Keys, StartRead(r, k)
      PROVE  TypeOK'
  <2>1. clock' \in Nat
    BY <1>2 DEF StartRead, Advance, TypeOK
  <2>2. [Idle EXCEPT !.pc = "reading", !.key = k, !.readStart = clock'] \in Call
    <3>1. ASSUME NEW t \in Nat
          PROVE  [Idle EXCEPT !.pc = "reading", !.key = k, !.readStart = t] \in Call
      <4>1. Unknown \in Answer
        BY DEF Unknown, Answer
      <4>2. [Idle EXCEPT !.answer = Unknown] = Idle
        BY DEF Idle
      <4>3. Idle \in Call
        BY <4>1, <4>2, IdleType
      <4>. QED
        BY <4>3 DEF Call
    <3>. QED
      BY <2>1, <3>1
  <2>. QED
    BY <1>2, <2>1, <2>2 DEF StartRead, TypeOK
<1>3. ASSUME NEW r \in Readers, ReadState(r)
      PROVE  TypeOK'
  <2> DEFINE c == [reader[r] EXCEPT !.pc = "read", !.inc = inst[reader[r].key].inc]
  <2>1. reader[r].key \in Keys
    BY DEF TypeOK, Call
  <2>2. inst[reader[r].key].inc \in Nat
    BY <2>1 DEF TypeOK
  <2>3. c \in Call
    BY <2>2 DEF TypeOK, Call
  <2>. QED
    BY <1>3, <2>3 DEF ReadState, TypeOK
<1>4. ASSUME NEW r \in Readers, ReadNotFound(r)
      PROVE  TypeOK'
  <2>1. Unknown \in Answer
    BY DEF Unknown, Answer
  <2>2. [Idle EXCEPT !.answer = Unknown] = Idle
    BY DEF Idle
  <2>. QED
    BY <1>4, <2>1, <2>2, IdleType DEF ReadNotFound, TypeOK
<1>5. ASSUME NEW r \in Readers, EnterCpuPercent(r)
      PROVE  TypeOK'
  <2>1. clock' \in Nat
    BY <1>5 DEF EnterCpuPercent, Advance, TypeOK
  <2>2. [reader[r] EXCEPT !.pc = "locking", !.now = clock'] \in Call
    BY <2>1 DEF TypeOK, Call
  <2>. QED
    BY <1>5, <2>1, <2>2 DEF EnterCpuPercent, TypeOK
<1>6. ASSUME NEW r \in Readers, CpuPercent(r)
      PROVE  TypeOK'
  BY <1>6, CpuPercentType
<1>7. ASSUME NEW k \in Keys, SubmitDelete(k)
      PROVE  TypeOK'
  BY <1>7 DEF SubmitDelete, TypeOK
<1>8. ASSUME NEW k \in Keys, DaemonDelete(k)
      PROVE  TypeOK'
  BY <1>8 DEF DaemonDelete, TypeOK
<1>9. ASSUME NEW k \in Keys, AbandonDelete(k)
      PROVE  TypeOK'
  BY <1>9 DEF AbandonDelete, TypeOK
<1>10. ASSUME NEW k \in Keys, ClearCPUSample(k)
       PROVE  TypeOK'
  <2>1. clock' \in Nat
    BY <1>10 DEF ClearCPUSample, Advance, TypeOK
  <2>2. Tombstone(clock') \in Entry
    BY <2>1 DEF Tombstone, Entry
  <2>3. LastDead(k) \in Int
    BY DEF LastDead, TypeOK
  <2>. QED
    BY <1>10, <2>1, <2>2, <2>3 DEF ClearCPUSample, TypeOK
<1>11. ASSUME NEW k \in Keys, Recreate(k)
       PROVE  TypeOK'
  BY <1>11 DEF Recreate, TypeOK
<1>12. CASE UNCHANGED vars
  BY <1>12 DEF vars, TypeOK
<1>. QED
  BY <1>1, <1>2, <1>3, <1>4, <1>5, <1>6, <1>7, <1>8, <1>9, <1>10, <1>11, <1>12
     DEF Next, ReaderStep, KeyStep

\* Type correctness.
THEOREM TypeCorrect == Spec => []TypeOK
<1>. QED
  BY InitType, NextType, PTL DEF Spec

-----------------------------------------------------------------------------
\* The four outcomes of cpuPercent, as what becomes of the samples and what
\* the caller is told.
LEMMA Recorded ==
  ASSUME TypeOK, NEW r \in Readers, CpuPercent(r)
  PROVE  LET now == reader[r].now
             k == reader[r].key
             prev == Kept(now)[k]
         IN  /\ \A j \in Keys \ {k} : samples'[j] = Kept(now)[j]
             /\ \A q \in Readers \ {r} : reader'[q] = reader[q]
             /\ reader'[r].pc = "idle" /\ reader'[r].now = 0 /\ reader'[r].readStart = 0
             /\ \/ samples'[k] = prev /\ reader'[r].answer = Unknown
                \/ samples'[k] = prev /\ prev.kind = "live" /\ reader'[r].answer = Reused(prev)
                \/ /\ samples'[k] = Baseline(reader[r].inc, now)
                   /\ prev.kind = "absent" \/ (prev.kind = "tomb" /\ ~IsStale(r, prev))
                   /\ reader'[r].answer = Unknown
                \/ /\ samples'[k] = Measurement(reader[r].inc, now, now - prev.at)
                   /\ prev.kind = "live"
                   /\ ~TooSoon(now - prev.at)
                   /\ reader'[r].answer = [ok |-> TRUE, window |-> now - prev.at]
<1> DEFINE now == reader[r].now
           k == reader[r].key
           prev == Kept(now)[k]
<1>1. now \in Nat /\ k \in Keys
  BY DEF TypeOK, Call
<1>2. Kept(now) \in [Keys -> Entry]
  BY <1>1, KeptEntry
<1>3. ASSUME NEW a, Finish(r, a)
      PROVE  /\ \A q \in Readers \ {r} : reader'[q] = reader[q]
             /\ reader'[r].pc = "idle" /\ reader'[r].now = 0 /\ reader'[r].readStart = 0
             /\ reader'[r].answer = a
  BY <1>3 DEF Finish, TypeOK, Idle
<1>4. CASE DiscardStale(r)
  BY <1>1, <1>2, <1>3, <1>4 DEF DiscardStale
<1>5. CASE Seed(r)
  <2> DEFINE b == Baseline(reader[r].inc, now)
  <2>1. samples' = [Kept(now) EXCEPT ![k] = b] /\ Finish(r, Unknown)
    BY <1>5 DEF Seed
  <2>2. samples'[k] = b /\ \A j \in Keys \ {k} : samples'[j] = Kept(now)[j]
    <3> HIDE DEF b
    <3>. QED BY <1>1, <1>2, <2>1
  <2>3. prev.kind = "absent" \/ (prev.kind = "tomb" /\ ~IsStale(r, prev))
    BY <1>5 DEF Seed
  <2>4. /\ \A q \in Readers \ {r} : reader'[q] = reader[q]
        /\ reader'[r].pc = "idle" /\ reader'[r].now = 0 /\ reader'[r].readStart = 0
        /\ reader'[r].answer = Unknown
    BY <2>1, <1>3
  <2>. QED
    BY <2>2, <2>3, <2>4
<1>6. CASE ReusePercent(r)
  BY <1>1, <1>2, <1>3, <1>6 DEF ReusePercent
<1>7. CASE Measure(r)
  <2> DEFINE m == Measurement(reader[r].inc, now, now - prev.at)
             a == [ok |-> TRUE, window |-> now - prev.at]
  <2>1. samples' = [Kept(now) EXCEPT ![k] = m] /\ Finish(r, a)
    BY <1>7 DEF Measure
  <2>2. samples'[k] = m /\ \A j \in Keys \ {k} : samples'[j] = Kept(now)[j]
    <3> HIDE DEF m
    <3>. QED BY <1>1, <1>2, <2>1
  <2>3. prev.kind = "live" /\ ~TooSoon(now - prev.at)
    BY <1>7 DEF Measure
  <2>4. /\ \A q \in Readers \ {r} : reader'[q] = reader[q]
        /\ reader'[r].pc = "idle" /\ reader'[r].now = 0 /\ reader'[r].readStart = 0
        /\ reader'[r].answer = a
    BY <2>1, <1>3
  <2>. QED
    BY <2>2, <2>3, <2>4
<1>. QED
  BY <1>4, <1>5, <1>6, <1>7 DEF CpuPercent

-----------------------------------------------------------------------------
\* The initial state satisfies the invariant.
LEMMA InitInv == Init => IInv
<1> SUFFICES ASSUME Init
             PROVE  IInv
  OBVIOUS
<1>1. TypeOK
  BY InitType
<1>2. \A r \in Readers : /\ reader[r].answer = Unknown
                         /\ reader[r].pc = "idle"
                         /\ reader[r].now = 0
                         /\ reader[r].readStart = 0
  BY DEF Init, Idle
<1>3. AnswersAreMeasured
  BY <1>2 DEF AnswersAreMeasured, Unknown
<1>4. lastSweep = -(TTL + 1) /\ clock = 0
  BY DEF Init
<1>5. ClockInv
  <2>1. \A k \in Keys : samples[k].at = 0
    BY DEF Init, Absent
  <2>. QED
    BY <1>2, <1>4, <2>1, CpuAssumption DEF ClockInv
<1>6. AgeInv /\ WindowInv /\ TombInv
  <2>1. \A k \in Keys : samples[k].kind = "absent" /\ samples[k].measured = FALSE
    BY DEF Init, Absent
  <2>. QED
    BY <2>1 DEF AgeInv, WindowInv, TombInv
<1>7. LifeInv
  <2>1. \A k \in Keys : inst[k].inc = 1 /\ cleared[k].inc = 0
    BY DEF Init
  <2> SUFFICES ASSUME NEW k \in Keys
               PROVE  /\ inst[k].inc >= 1
                      /\ cleared[k].inc <= inst[k].inc
                      /\ inst[k].alive => cleared[k].inc < inst[k].inc
    BY DEF LifeInv
  <2>. QED
    BY <2>1
<1>8. ReadInv
  BY <1>2 DEF ReadInv
<1>. QED
  BY <1>1, <1>3, <1>5, <1>6, <1>7, <1>8 DEF IInv

\* Recording a reading keeps the ages, windows and tombstones right.
LEMMA CpuPercentInv ==
  ASSUME IInv, TypeOK', NEW r \in Readers, CpuPercent(r)
  PROVE  IInv'
<1> DEFINE now == reader[r].now
           k == reader[r].key
           prev == Kept(now)[k]
<1>1. now \in Nat /\ k \in Keys /\ lastSweep \in Int /\ clock \in Nat /\ TTL \in Nat
      /\ reader[r].inc \in Nat /\ reader[r].readStart \in Nat
  BY CpuAssumption DEF IInv, TypeOK, Call
<1>2. /\ now <= clock
      /\ clock - now <= MaxLockWait
      /\ lastSweep <= clock
      /\ MaxLockWait <= TTL
      /\ MaxLockWait \in Nat
  BY CpuAssumption DEF IInv, ClockInv, CpuPercent
<1>3. UNCHANGED <<clock, inst, deleter, cleared>>
  BY DEF CpuPercent
<1>4. \/ SweepDue(now) /\ lastSweep' = now /\ now - lastSweep > TTL
      \/ ~SweepDue(now) /\ lastSweep' = lastSweep /\ now - lastSweep <= TTL
  BY <1>1 DEF CpuPercent, Sweep, SweepDue
<1>5. /\ lastSweep' \in Int
      /\ lastSweep' <= clock
      /\ now >= lastSweep' - TTL
  BY <1>1, <1>2, <1>4
<1>6. \A j \in Keys : samples[j] \in Entry /\ samples[j].at \in Int /\ Kept(now)[j] \in Entry
  <2>1. \A j \in Keys : samples[j] \in Entry
    BY DEF IInv, TypeOK
  <2>2. Kept(now) \in [Keys -> Entry]
    BY <1>1, KeptEntry DEF IInv
  <2>. QED
    BY <2>1, <2>2 DEF Entry
\* what the sweep leaves behind satisfies the invariants for lastSweep'
<1>7. ASSUME NEW j \in Keys
      PROVE  LET e == Kept(now)[j] IN
             /\ e.at <= clock
             /\ e.kind # "absent" => e = samples[j] /\ e.at >= lastSweep' - TTL
             /\ e.kind # "absent" => now - e.at <= 2 * TTL
             /\ e.measured => e.window \in Floor .. 2 * TTL
             /\ e.kind = "tomb" => e.clearedAt = cleared[j].at /\ e.at = cleared[j].at
  <2>1. \/ Kept(now)[j] = samples[j]
        \/ Kept(now)[j] = Absent
    BY <1>1, KeptEntry DEF IInv
  <2>2. SweepDue(now) /\ Kept(now)[j].kind # "absent" => now - Kept(now)[j].at <= TTL
    BY <1>1, KeptEntry DEF IInv
  <2>3. CASE Kept(now)[j] = Absent
    BY <2>3, <1>1 DEF Absent
  <2>4. CASE Kept(now)[j] = samples[j]
    <3>1. /\ samples[j].at <= clock
          /\ samples[j].kind # "absent" => samples[j].at >= lastSweep - TTL
      BY DEF IInv, ClockInv, AgeInv
    <3>2. samples[j].kind # "absent" => samples[j].at >= lastSweep' - TTL
      BY <1>1, <1>4, <1>6, <2>2, <2>4, <3>1
    <3>3. samples[j].kind # "absent" => now - samples[j].at <= 2 * TTL
      BY <1>1, <1>4, <1>6, <2>2, <2>4, <3>1
    <3>4. samples[j].measured => samples[j].window \in Floor .. 2 * TTL
      BY DEF IInv, WindowInv
    <3>5. samples[j].kind = "tomb" => /\ samples[j].clearedAt = cleared[j].at
                                      /\ samples[j].at = cleared[j].at
      BY DEF IInv, TombInv
    <3>. QED
      BY <2>4, <3>1, <3>2, <3>3, <3>4, <3>5
  <2>. QED
    BY <2>1, <2>3, <2>4
<1>8. /\ \A j \in Keys \ {k} : samples'[j] = Kept(now)[j]
      /\ \A q \in Readers \ {r} : reader'[q] = reader[q]
      /\ reader'[r].pc = "idle" /\ reader'[r].now = 0 /\ reader'[r].readStart = 0
      /\ \/ samples'[k] = prev /\ reader'[r].answer = Unknown
         \/ samples'[k] = prev /\ prev.kind = "live" /\ reader'[r].answer = Reused(prev)
         \/ samples'[k] = Baseline(reader[r].inc, now) /\ reader'[r].answer = Unknown
         \/ /\ samples'[k] = Measurement(reader[r].inc, now, now - prev.at)
            /\ prev.kind = "live"
            /\ ~TooSoon(now - prev.at)
            /\ reader'[r].answer = [ok |-> TRUE, window |-> now - prev.at]
  BY Recorded DEF IInv
<1>9. prev.kind = "live" /\ ~TooSoon(now - prev.at)
        => now - prev.at \in Floor .. 2 * TTL
  <2>1. prev.at \in Int /\ Floor \in Nat
    BY <1>1, <1>6, CpuAssumption DEF Entry
  <2>2. prev.kind # "absent" => now - prev.at <= 2 * TTL
    BY <1>1, <1>7
  <2>. QED
    BY <1>1, <2>1, <2>2 DEF TooSoon
<1>10. AnswersAreMeasured'
  <2> SUFFICES ASSUME NEW q \in Readers, reader'[q].answer.ok
               PROVE  reader'[q].answer.window \in Floor .. 2 * TTL
    BY DEF AnswersAreMeasured
  <2>1. CASE q # r
    BY <2>1, <1>8 DEF IInv, AnswersAreMeasured
  <2>2. CASE q = r
    <3>1. prev.measured => prev.window \in Floor .. 2 * TTL
      BY <1>1, <1>7
    <3>. QED
      BY <2>2, <3>1, <1>8, <1>9 DEF Unknown, Reused
  <2>. QED
    BY <2>1, <2>2
<1>11. ASSUME NEW j \in Keys
       PROVE  LET e == samples'[j] IN
              /\ e.at <= clock
              /\ e.kind # "absent" => e.at >= lastSweep' - TTL
              /\ e.measured => e.window \in Floor .. 2 * TTL
              /\ e.kind = "tomb" => e.clearedAt = cleared[j].at /\ e.at = cleared[j].at
  <2>1. CASE samples'[j] = Kept(now)[j]
    BY <2>1, <1>7
  <2>2. CASE samples'[j] = Baseline(reader[r].inc, now)
    BY <2>2, <1>2, <1>5 DEF Baseline
  <2>3. CASE /\ samples'[j] = Measurement(reader[r].inc, now, now - prev.at)
             /\ prev.kind = "live" /\ ~TooSoon(now - prev.at)
    BY <2>3, <1>2, <1>5, <1>9 DEF Measurement
  <2>. QED
    BY <2>1, <2>2, <2>3, <1>8
<1>12. AgeInv' /\ WindowInv' /\ TombInv'
  BY <1>3, <1>11 DEF AgeInv, WindowInv, TombInv
<1>13. ClockInv'
  <2>1. \A q \in Readers : /\ reader'[q].readStart <= clock
                           /\ reader'[q].now <= clock
                           /\ reader'[q].pc = "locking" => clock - reader'[q].now <= MaxLockWait
    BY <1>1, <1>8 DEF IInv, ClockInv
  <2>. QED
    BY <1>3, <1>5, <1>11, <2>1 DEF ClockInv
<1>14. LifeInv'
  BY <1>3 DEF IInv, LifeInv
<1>15. ReadInv'
  BY <1>3, <1>8 DEF IInv, ReadInv
<1>. QED
  BY <1>10, <1>12, <1>13, <1>14, <1>15 DEF IInv

\* ReadState copies the incarnation alive now: younger than every cleared one.
LEMMA ReadStateInv ==
  ASSUME IInv, TypeOK', NEW r \in Readers, ReadState(r)
  PROVE  IInv'
<1> DEFINE k == reader[r].key
<1>1. k \in Keys
  BY DEF IInv, TypeOK, Call
<1>2. /\ \A q \in Readers \ {r} : reader'[q] = reader[q]
      /\ reader'[r].pc = "read" /\ reader'[r].inc = inst[k].inc
      /\ reader'[r].key = k /\ reader'[r].readStart = reader[r].readStart
      /\ reader'[r].now = reader[r].now /\ reader'[r].answer = reader[r].answer
  BY DEF ReadState, IInv, TypeOK, Call
<1>3. UNCHANGED <<clock, inst, samples, lastSweep, deleter, cleared>>
  BY DEF ReadState
<1>4. inst[k].inc > cleared[k].inc
  BY <1>1 DEF ReadState, IInv, TypeOK, LifeInv
<1>5. ReadInv'
  BY <1>2, <1>3, <1>4 DEF IInv, ReadInv
<1>6. AnswersAreMeasured'
  BY <1>2 DEF IInv, AnswersAreMeasured
<1>7. ClockInv'
  BY <1>2, <1>3 DEF IInv, ClockInv
<1>. QED
  BY <1>3, <1>5, <1>6, <1>7 DEF IInv, AgeInv, WindowInv, TombInv, LifeInv

\* The clear outdates every reading begun before it.
LEMMA ClearInv ==
  ASSUME IInv, TypeOK', NEW k \in Keys, ClearCPUSample(k)
  PROVE  IInv'
<1>1. clock \in Nat /\ clock' = clock + 1 /\ lastSweep \in Int /\ TTL \in Nat
  BY CpuAssumption DEF ClearCPUSample, Advance, IInv, TypeOK
<1>2. /\ \A j \in Keys \ {k} : samples'[j] = samples[j] /\ cleared'[j] = cleared[j]
      /\ samples'[k] = Tombstone(clock')
      /\ cleared'[k] = [inc |-> LastDead(k), at |-> clock']
      /\ UNCHANGED <<inst, lastSweep, reader>>
  BY DEF ClearCPUSample, IInv, TypeOK
<1>3. AgeInv' /\ WindowInv' /\ TombInv'
  <2>1. lastSweep <= clock
    BY DEF IInv, ClockInv
  <2>. QED
    BY <1>1, <1>2, <2>1 DEF IInv, AgeInv, WindowInv, TombInv, Tombstone
<1>4. ClockInv'
  <2>1. \A j \in Keys : samples'[j].at <= clock'
    <3>1. \A j \in Keys : samples[j].at \in Int /\ samples[j].at <= clock
      BY DEF IInv, ClockInv, TypeOK, Entry
    <3>2. samples'[k].at = clock'
      BY <1>2 DEF Tombstone
    <3>. QED
      BY <1>1, <1>2, <3>1, <3>2
  <2>2. \A r \in Readers : reader[r].readStart \in Nat /\ reader[r].now \in Nat
    BY DEF IInv, TypeOK, Call
  <2>3. \A r \in Readers : reader[r].pc = "locking" => clock - reader[r].now < MaxLockWait
    BY DEF ClearCPUSample, Advance
  <2>. QED
    BY <1>1, <1>2, <2>1, <2>2, <2>3, CpuAssumption DEF IInv, ClockInv
<1>5. LifeInv'
  <2>1. inst[k].inc \in Nat
    BY DEF IInv, TypeOK
  <2>. QED
    BY <1>2, <2>1 DEF IInv, LifeInv, LastDead
<1>6. ReadInv'
  <2>1. \A r \in Readers : reader[r].readStart <= clock /\ reader[r].readStart \in Nat
    BY DEF IInv, ClockInv, TypeOK, Call
  <2>2. \A r \in Readers : reader[r].key = k => ~(reader[r].readStart >= cleared'[k].at)
    BY <1>1, <1>2, <2>1
  <2>3. \A r \in Readers : reader[r].key \in Keys
    BY DEF IInv, TypeOK, Call
  <2>. QED
    BY <1>2, <2>2, <2>3 DEF IInv, ReadInv
<1>7. AnswersAreMeasured'
  BY <1>2 DEF IInv, AnswersAreMeasured
<1>. QED
  BY <1>3, <1>4, <1>5, <1>6, <1>7 DEF IInv

\* IInv is inductive.
LEMMA NextInv == IInv /\ [Next]_vars => IInv'
<1> SUFFICES ASSUME IInv, [Next]_vars
             PROVE  IInv'
  OBVIOUS
<1>0. TypeOK'
  BY NextType DEF IInv
<1>1. CASE Tick
  <2>1. clock' = clock + 1 /\ clock \in Nat
    BY <1>1 DEF Tick, Advance, IInv, TypeOK
  <2>2. /\ \A k \in Keys : samples[k].at \in Int
        /\ \A r \in Readers : reader[r].readStart \in Nat /\ reader[r].now \in Nat
        /\ lastSweep \in Int
    BY DEF IInv, TypeOK, Entry, Call
  <2>3. ClockInv'
    BY <1>1, <2>1, <2>2, CpuAssumption DEF Tick, Advance, IInv, ClockInv
  <2>. QED
    BY <1>0, <1>1, <2>3
       DEF Tick, IInv, AnswersAreMeasured, AgeInv, WindowInv, TombInv, LifeInv, ReadInv
<1>2. ASSUME NEW r \in Readers, NEW k \in Keys, StartRead(r, k)
      PROVE  IInv'
  <2>1. clock' = clock + 1 /\ clock \in Nat
    BY <1>2 DEF StartRead, Advance, IInv, TypeOK
  <2>2. /\ \A q \in Readers \ {r} : reader'[q] = reader[q]
        /\ reader'[r].pc = "reading" /\ reader'[r].readStart = clock'
        /\ reader'[r].now = 0 /\ reader'[r].answer = Unknown
    BY <1>2 DEF StartRead, Idle, IInv, TypeOK
  <2>3. /\ \A j \in Keys : samples[j].at \in Int
        /\ \A q \in Readers : reader[q].readStart \in Nat /\ reader[q].now \in Nat
        /\ lastSweep \in Int
    BY DEF IInv, TypeOK, Entry, Call
  <2>4. UNCHANGED <<inst, samples, lastSweep, deleter, cleared>>
    BY <1>2 DEF StartRead
  <2>5. ClockInv'
    <3>1. \A q \in Readers \ {r} : reader'[q].pc = "locking" => clock' - reader'[q].now <= MaxLockWait
      BY <1>2, <2>1, <2>2, <2>3, CpuAssumption DEF StartRead, Advance
    <3>. QED
      BY <2>1, <2>2, <2>3, <2>4, <3>1 DEF IInv, ClockInv
  <2>6. AnswersAreMeasured' /\ ReadInv'
    BY <2>2, <2>4 DEF IInv, AnswersAreMeasured, ReadInv, Unknown
  <2>. QED
    BY <1>0, <2>4, <2>5, <2>6 DEF IInv, AgeInv, WindowInv, TombInv, LifeInv
<1>3. ASSUME NEW r \in Readers, ReadState(r)
      PROVE  IInv'
  BY <1>0, <1>3, ReadStateInv
<1>4. ASSUME NEW r \in Readers, ReadNotFound(r)
      PROVE  IInv'
  <2>1. /\ \A q \in Readers \ {r} : reader'[q] = reader[q]
        /\ reader'[r].pc = "idle" /\ reader'[r].readStart = 0
        /\ reader'[r].now = 0 /\ reader'[r].answer = Unknown
    BY <1>4 DEF ReadNotFound, Idle, IInv, TypeOK
  <2>2. UNCHANGED <<clock, inst, samples, lastSweep, deleter, cleared>>
    BY <1>4 DEF ReadNotFound
  <2>3. ClockInv'
    <3>1. clock \in Nat
      BY DEF IInv, TypeOK
    <3>. QED
      BY <2>1, <2>2, <3>1 DEF IInv, ClockInv
  <2>4. AnswersAreMeasured' /\ ReadInv'
    BY <2>1, <2>2 DEF IInv, AnswersAreMeasured, ReadInv, Unknown
  <2>. QED
    BY <1>0, <2>2, <2>3, <2>4 DEF IInv, AgeInv, WindowInv, TombInv, LifeInv
<1>5. ASSUME NEW r \in Readers, EnterCpuPercent(r)
      PROVE  IInv'
  <2>1. clock' = clock + 1 /\ clock \in Nat
    BY <1>5 DEF EnterCpuPercent, Advance, IInv, TypeOK
  <2>2. /\ \A q \in Readers \ {r} : reader'[q] = reader[q]
        /\ reader'[r].now = clock' /\ reader'[r].readStart = reader[r].readStart
        /\ reader'[r].inc = reader[r].inc /\ reader'[r].key = reader[r].key
        /\ reader'[r].answer = reader[r].answer
        /\ reader[r].pc = "read"
    BY <1>5 DEF EnterCpuPercent, IInv, TypeOK, Call
  <2>3. /\ \A j \in Keys : samples[j].at \in Int
        /\ \A q \in Readers : reader[q].readStart \in Nat /\ reader[q].now \in Nat
        /\ lastSweep \in Int
    BY DEF IInv, TypeOK, Entry, Call
  <2>4. UNCHANGED <<inst, samples, lastSweep, deleter, cleared>>
    BY <1>5 DEF EnterCpuPercent
  <2>5. ClockInv'
    <3>1. \A q \in Readers \ {r} : reader'[q].pc = "locking" => clock' - reader'[q].now <= MaxLockWait
      BY <1>5, <2>1, <2>2, <2>3, CpuAssumption DEF EnterCpuPercent, Advance
    <3>. QED
      BY <2>1, <2>2, <2>3, <2>4, <3>1, CpuAssumption DEF IInv, ClockInv
  <2>6. AnswersAreMeasured'
    BY <2>2 DEF IInv, AnswersAreMeasured
  <2>7. ReadInv'
    BY <2>2, <2>4 DEF IInv, ReadInv
  <2>. QED
    BY <1>0, <2>4, <2>5, <2>6, <2>7 DEF IInv, AgeInv, WindowInv, TombInv, LifeInv
<1>6. ASSUME NEW r \in Readers, CpuPercent(r)
      PROVE  IInv'
  BY <1>0, <1>6, CpuPercentInv
<1>7. ASSUME NEW k \in Keys, SubmitDelete(k) \/ AbandonDelete(k)
      PROVE  IInv'
  <2>1. UNCHANGED <<clock, inst, samples, lastSweep, reader, cleared>>
    BY <1>7 DEF SubmitDelete, AbandonDelete
  <2>. QED
    BY <1>0, <2>1
       DEF IInv, AnswersAreMeasured, ClockInv, AgeInv, WindowInv, TombInv, LifeInv, ReadInv
<1>8. ASSUME NEW k \in Keys, DaemonDelete(k) \/ Recreate(k)
      PROVE  IInv'
  <2>1. UNCHANGED <<clock, samples, lastSweep, reader, cleared>>
    BY <1>8 DEF DaemonDelete, Recreate
  <2>2. LifeInv'
    <3>1. \A j \in Keys : inst[j].inc \in Nat /\ cleared[j].inc \in Int
      BY DEF IInv, TypeOK
    <3>2. \A j \in Keys : inst'[j] = inst[j] \/ (inst'[j].inc = inst[j].inc /\ ~inst'[j].alive)
                          \/ inst'[j].inc = inst[j].inc + 1
      BY <1>8 DEF DaemonDelete, Recreate, IInv, TypeOK
    <3>. QED
      BY <2>1, <3>1, <3>2 DEF IInv, LifeInv
  <2>. QED
    BY <1>0, <2>1, <2>2
       DEF IInv, AnswersAreMeasured, ClockInv, AgeInv, WindowInv, TombInv, ReadInv
<1>9. ASSUME NEW k \in Keys, ClearCPUSample(k)
      PROVE  IInv'
  BY <1>0, <1>9, ClearInv
<1>10. CASE UNCHANGED vars
  BY <1>0, <1>10
     DEF vars, IInv, AnswersAreMeasured, ClockInv, AgeInv, WindowInv, TombInv, LifeInv, ReadInv
<1>. QED
  BY <1>1, <1>2, <1>3, <1>4, <1>5, <1>6, <1>7, <1>8, <1>9, <1>10 DEF Next, ReaderStep, KeyStep

\* A percentage handed out was measured over an interval between the floor
\* and twice the TTL, whatever the number of keys and pollers.
THEOREM AnswersMeasured == Spec => []AnswersAreMeasured
<1>1. IInv => AnswersAreMeasured
  BY DEF IInv
<1>. QED
  BY <1>1, InitInv, NextInv, PTL DEF Spec

\* Only a reading of a later incarnation, or the age of the tombstone, ends
\* the protection clearCPUSample gives a key.
THEOREM TombstoneProtects == Spec => TombstoneGuards
<1> DEFINE Guards ==
      \A k \in Keys :
        samples[k].kind = "tomb" /\ samples'[k].kind # "tomb"
          => \/ samples'[k].kind = "live" /\ samples'[k].inc > cleared[k].inc
             \/ clock - samples[k].clearedAt > TTL
<1>1. IInv /\ [Next]_vars => [Guards]_vars
  <2> SUFFICES ASSUME IInv, Next
               PROVE  Guards
    OBVIOUS
  <2> SUFFICES ASSUME NEW j \in Keys, samples[j].kind = "tomb", samples'[j].kind # "tomb"
               PROVE  \/ samples'[j].kind = "live" /\ samples'[j].inc > cleared[j].inc
                      \/ clock - samples[j].clearedAt > TTL
    OBVIOUS
  <2>1. CASE UNCHANGED samples
    BY <2>1
  <2>2. ASSUME NEW k \in Keys, ClearCPUSample(k)
        PROVE  FALSE
    <3>1. samples'[j] = samples[j] \/ samples'[j] = Tombstone(clock')
      BY <2>2 DEF ClearCPUSample, IInv, TypeOK
    <3>. QED
      BY <3>1 DEF Tombstone
  <2>3. ASSUME NEW r \in Readers, CpuPercent(r)
        PROVE  \/ samples'[j].kind = "live" /\ samples'[j].inc > cleared[j].inc
               \/ clock - samples[j].clearedAt > TTL
    <3> DEFINE now == reader[r].now
               k == reader[r].key
    <3>1. /\ now \in Nat /\ k \in Keys /\ now <= clock /\ clock \in Nat
          /\ samples[j].at \in Int /\ samples[j].clearedAt = samples[j].at
          /\ reader[r].pc = "locking"
      BY <2>3 DEF CpuPercent, IInv, TypeOK, Entry, Call, ClockInv, TombInv
    <3>2. CASE Kept(now)[j] # samples[j]
      <4>1. now - samples[j].at > TTL
        BY <3>1, <3>2, KeptEntry DEF IInv
      <4>. QED
        BY <3>1, <4>1, CpuAssumption
    <3>3. CASE Kept(now)[j] = samples[j]
      <4>1. j = k
        BY <2>3, <3>1, <3>3, Recorded DEF IInv
      <4>2. /\ samples'[j] = Baseline(reader[r].inc, now)
            /\ ~IsStale(r, samples[j])
        BY <2>3, <3>1, <3>3, <4>1, Recorded DEF IInv
      <4>3. reader[r].readStart >= cleared[k].at
        BY <4>1, <4>2, <3>1 DEF IsStale, IInv, TombInv, TypeOK, Call
      <4>4. reader[r].inc > cleared[k].inc
        BY <3>1, <4>3 DEF IInv, ReadInv
      <4>. QED
        BY <4>1, <4>2, <4>4 DEF Baseline
    <3>. QED
      BY <3>2, <3>3
  <2>. QED
    BY <2>1, <2>2, <2>3
       DEF Next, ReaderStep, KeyStep, Tick, StartRead, ReadState, ReadNotFound,
           EnterCpuPercent, SubmitDelete, DaemonDelete, AbandonDelete, Recreate
<1>. QED
  BY <1>1, InitInv, NextInv, PTL DEF Spec, TombstoneGuards
=============================================================================
