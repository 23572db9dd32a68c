------------------------- MODULE MetricsStore_proofs -------------------------
(***************************************************************************)
(* Proofs about MetricsStore.  The invariant follows the two clocks of the *)
(* store: how far the last sweep lags behind the newest stamp it has seen, *)
(* and how old a stamp can be when it reaches Append.                      *)
(***************************************************************************)
EXTENDS MetricsStore, SequenceTheorems, TLAPS

\* The last sweep lags behind the newest stamp by less than a period.
SweepInv ==
  /\ lastSweep <= newest
  /\ newest <= clock
  /\ newest - lastSweep < SweepEvery

\* A stamp that has not reached the store yet is at most MaxDelay old.
StampInv ==
  /\ sampler.on => sampler.time <= clock /\ clock - sampler.time <= MaxDelay
  /\ \A v \in Viewers : viewer[v].pc # "idle" =>
       viewer[v].time <= clock /\ clock - viewer[v].time <= MaxDelay

\* The sweep leaves no history older than MaxAge at the time of the sweep.
AgeInv ==
  \A k \in Instances : series[k] # <<>> => Latest(series[k]) >= lastSweep - MaxAge

\* Between a request's Append and its Series, its key stays fresh.
PendingInv ==
  \A v \in Viewers : viewer[v].pc = "series" =>
    LET k == Key(viewer[v].scope, viewer[v].name) IN
    series[k] # <<>> /\ Latest(series[k]) >= viewer[v].time - MinGap

\* The sampler only asks for instances of its own scope.
TodoInv == \A i \in sampler.todo : i[1] = DefaultScope

IInv ==
  /\ TypeOK
  /\ TodoInv
  /\ WindowNotHalved
  /\ SweepInv
  /\ StampInv
  /\ AgeInv
  /\ PendingInv
  /\ ReplyIsFresh

-----------------------------------------------------------------------------
\* Appending to a spaced history beyond the gap keeps it spaced.
LEMMA SpacedAppend ==
  ASSUME NEW buf \in Seq(Sample), Spaced(buf), NEW s \in Sample, ~TooClose(buf, s.time)
  PROVE  Spaced(Append(buf, s))
<1> DEFINE n == Len(buf)
           b == Append(buf, s)
           G == MinGap + 1
<1>1. n \in Nat /\ G \in Nat
  BY StoreAssumption
<1>2. /\ Len(b) = n + 1
      /\ \A i \in 1 .. n : b[i] = buf[i]
      /\ b[n + 1] = s
  BY AppendProperties
<1>3. s.time \in Nat /\ \A i \in 1 .. n : buf[i].time \in Nat
  <2>1. \A i \in 1 .. n : buf[i] \in Sample
    BY ElementOfSeq
  <2>. QED
    BY <2>1 DEF Sample
<1>4. ASSUME NEW i \in 1 .. n
      PROVE  s.time - buf[i].time >= (n + 1 - i) * G
  <2>1. buf # <<>> /\ n \in 1 .. n
    BY <1>1, EmptySeq
  <2>2. s.time - buf[n].time >= G
    BY <1>1, <1>3, <2>1, StoreAssumption DEF TooClose, Latest
  <2>3. buf[n].time - buf[i].time >= (n - i) * G
    BY <2>1 DEF Spaced
  <2>4. (n + 1 - i) * G = (n - i) * G + G
    BY <1>1
  <2>5. buf[n].time \in Nat /\ buf[i].time \in Nat /\ (n - i) * G \in Int
    BY <1>1, <1>3, <2>1
  <2>. HIDE DEF G
  <2>. QED
    BY <1>1, <1>3, <2>2, <2>3, <2>4, <2>5
<1>5. ASSUME NEW i \in 1 .. Len(b), NEW j \in 1 .. Len(b), i <= j
      PROVE  b[j].time - b[i].time >= (j - i) * G
  <2>1. CASE j \in 1 .. n
    <3>1. i \in 1 .. n
      BY <1>1, <1>5, <2>1
    <3>. QED
      BY <1>2, <1>5, <2>1, <3>1 DEF Spaced
  <2>2. CASE j = n + 1 /\ i \in 1 .. n
    BY <1>2, <1>4, <2>2
  <2>3. CASE j = n + 1 /\ i = n + 1
    <3>1. (j - i) * G = 0
      BY <1>1, <2>3
    <3>. QED
      BY <1>2, <1>3, <2>3, <3>1
  <2>. QED
    BY <1>1, <1>2, <1>5, <2>1, <2>2, <2>3
<1>. QED
  BY <1>5 DEF Spaced

\* Trimming keeps the newest samples, their distances and at most Limit.
LEMMA TrimProperties ==
  ASSUME NEW buf \in Seq(Sample), buf # <<>>
  PROVE  /\ Trim(buf) \in Seq(Sample)
         /\ Trim(buf) # <<>>
         /\ Len(Trim(buf)) <= Limit
         /\ Latest(Trim(buf)) = Latest(buf)
         /\ Spaced(buf) => Spaced(Trim(buf))
         /\ \A i \in 1 .. Len(Trim(buf)) : \E j \in 1 .. Len(buf) : Trim(buf)[i] = buf[j]
<1> DEFINE n == Len(buf)
           b == Trim(buf)
<1>1. n \in Nat /\ n >= 1 /\ Limit \in Nat /\ Limit >= 1
  BY StoreAssumption, EmptySeq
<1>2. CASE n <= Limit
  <2>1. b = buf
    BY <1>1, <1>2 DEF Trim
  <2>. QED
    BY <1>2, <2>1
<1>3. CASE n > Limit
  <2> DEFINE off == n - Limit
  <2>1. b = SubSeq(buf, off + 1, n)
    BY <1>3 DEF Trim
  <2>2. \A i \in off + 1 .. n : buf[i] \in Sample
    BY <1>1, <1>3, ElementOfSeq
  <2>3. /\ b \in Seq(Sample)
        /\ Len(b) = Limit
        /\ \A i \in 1 .. Limit : b[i] = buf[off + i]
    BY <1>1, <1>3, <2>1, <2>2, SubSeqProperties
  <2>4. b # <<>> /\ Latest(b) = Latest(buf)
    <3>1. Limit \in 1 .. Limit /\ off + Limit = n
      BY <1>1
    <3>2. b[Len(b)] = buf[n]
      BY <2>3, <3>1
    <3>3. b # <<>>
      BY <1>1, <2>3, EmptySeq
    <3>. QED
      BY <3>2, <3>3 DEF Latest
  <2>5. ASSUME Spaced(buf), NEW i \in 1 .. Limit, NEW j \in 1 .. Limit, i <= j
        PROVE  b[j].time - b[i].time >= (j - i) * (MinGap + 1)
    <3>1. off + i \in 1 .. n /\ off + j \in 1 .. n /\ off + i <= off + j
      BY <1>1, <1>3, <2>5
    <3>2. buf[off + j].time - buf[off + i].time >= ((off + j) - (off + i)) * (MinGap + 1)
      BY <2>5, <3>1 DEF Spaced
    <3>3. (off + j) - (off + i) = j - i
      BY <1>1
    <3>. QED
      BY <2>3, <3>2, <3>3
  <2>6. \A i \in 1 .. Limit : \E j \in 1 .. n : b[i] = buf[j]
    <3>1. \A i \in 1 .. Limit : off + i \in 1 .. n
      BY <1>1, <1>3
    <3>. QED
      BY <2>3, <3>1
  <2>. QED
    BY <1>1, <2>3, <2>4, <2>5, <2>6 DEF Spaced
<1>. QED
  BY <1>1, <1>2, <1>3

\* What Append leaves of one history.
LEMMA AppendedProperties ==
  ASSUME NEW buf \in Seq(Sample), Spaced(buf), Len(buf) <= Limit, NEW s \in Sample
  PROVE  LET b == Appended(buf, s) IN
         /\ b \in Seq(Sample) /\ b # <<>>
         /\ Spaced(b) /\ Len(b) <= Limit
         /\ Latest(b) \in Nat
         /\ b = buf \/ Latest(b) = s.time
         /\ Latest(b) >= s.time - MinGap
         /\ buf # <<>> => Latest(b) >= Latest(buf)
<1>1. s.time \in Nat /\ MinGap \in Nat /\ Len(buf) \in Nat
  BY StoreAssumption DEF Sample
<1>2. buf # <<>> => Latest(buf) \in Nat
  <2>1. buf # <<>> => Len(buf) \in 1 .. Len(buf)
    BY <1>1, EmptySeq
  <2>2. buf # <<>> => buf[Len(buf)] \in Sample
    BY <2>1, ElementOfSeq
  <2>. QED
    BY <2>2 DEF Latest, Sample
<1>3. CASE TooClose(buf, s.time)
  <2>1. Appended(buf, s) = buf
    BY <1>3 DEF Appended
  <2>2. buf # <<>> /\ s.time <= Latest(buf) + MinGap
    BY <1>3 DEF TooClose
  <2>. QED
    BY <1>1, <1>2, <2>1, <2>2
<1>4. CASE ~TooClose(buf, s.time)
  <2> DEFINE c == Append(buf, s)
  <2>1. Appended(buf, s) = Trim(c)
    BY <1>4 DEF Appended
  <2>2. /\ c \in Seq(Sample) /\ c # <<>> /\ Len(c) = Len(buf) + 1
        /\ \A i \in 1 .. Len(buf) : c[i] = buf[i]
        /\ c[Len(buf) + 1] = s
    BY AppendProperties
  <2>3. Latest(c) = s.time
    BY <2>2 DEF Latest
  <2>4. Spaced(c)
    BY <1>4, SpacedAppend
  <2>5. /\ Trim(c) \in Seq(Sample) /\ Trim(c) # <<>> /\ Len(Trim(c)) <= Limit
        /\ Latest(Trim(c)) = s.time /\ Spaced(Trim(c))
        /\ \A i \in 1 .. Len(Trim(c)) : \E j \in 1 .. Len(c) : Trim(c)[i] = c[j]
    BY <2>2, <2>3, <2>4, TrimProperties
  <2>6. buf # <<>> => s.time >= Latest(buf)
    BY <1>1, <1>2, <1>4 DEF TooClose
  <2>7. s.time >= s.time - MinGap
    BY <1>1
  <2>. QED
    BY <1>1, <2>1, <2>5, <2>6, <2>7
<1>. QED
  BY <1>3, <1>4

\* One Append, given a stamp that is at most MaxDelay old: what every history
\* satisfies afterwards.
LEMMA StoreAppendInv ==
  ASSUME IInv, NEW key \in Instances, NEW s \in Sample,
         s.time <= clock, clock - s.time <= MaxDelay,
         StoreAppend(key, s), clock' = clock
  PROVE  /\ series' \in [Instances -> Seq(Sample)]
         /\ \A k \in Instances : Len(series'[k]) <= Limit
         /\ lastSweep' \in Nat /\ newest' \in Nat
         /\ WindowNotHalved' /\ SweepInv' /\ AgeInv'
         /\ series'[key] # <<>> /\ Latest(series'[key]) >= s.time - MinGap
         /\ \A k \in Instances : \A t \in Nat :
              /\ series[k] # <<>> /\ Latest(series[k]) >= t - MinGap
              /\ clock - t <= MaxDelay
              => series'[k] # <<>> /\ Latest(series'[k]) >= t - MinGap
<1>1. /\ s.time \in Nat /\ clock \in Nat /\ lastSweep \in Nat /\ newest \in Nat
      /\ MinGap \in Nat /\ MaxAge \in Nat /\ MaxDelay \in Nat /\ SweepEvery \in Nat
      /\ MaxDelay + MinGap <= MaxAge
      /\ lastSweep <= newest /\ newest <= clock /\ newest - lastSweep < SweepEvery
  BY StoreAssumption DEF IInv, TypeOK, SweepInv, Sample
<1>2. /\ lastSweep' \in Nat /\ newest' \in Nat
      /\ lastSweep' <= newest' /\ newest' <= clock /\ newest' - lastSweep' < SweepEvery
      /\ SweepDue(s.time) => lastSweep' = s.time
      /\ ~SweepDue(s.time) => lastSweep' = lastSweep
  BY <1>1 DEF StoreAppend, SweepDue
<1>3. ASSUME NEW k \in Instances
      PROVE  LET b == Swept(k, s.time) IN
             /\ b \in Seq(Sample) /\ Len(b) <= Limit /\ Spaced(b)
             /\ b # <<>> => /\ b = series[k]
                            /\ Latest(b) \in Nat
                            /\ Latest(b) >= lastSweep' - MaxAge
             /\ b = series[k] \/ s.time - Latest(series[k]) > MaxAge
  <2>1. series[k] \in Seq(Sample) /\ Len(series[k]) <= Limit /\ Spaced(series[k])
    BY DEF IInv, TypeOK, WindowNotHalved
  <2>3. series[k] # <<>> => Latest(series[k]) \in Nat
    <3>1. series[k] # <<>> => Len(series[k]) \in 1 .. Len(series[k])
      BY <2>1, EmptySeq
    <3>2. series[k] # <<>> => series[k][Len(series[k])] \in Sample
      BY <2>1, <3>1, ElementOfSeq
    <3>. QED
      BY <3>2 DEF Latest, Sample
  <2>4. series[k] # <<>> => Latest(series[k]) >= lastSweep - MaxAge
    BY DEF IInv, AgeInv
  <2>5. CASE SweepDue(s.time) /\ Expired(series[k], s.time)
    <3>1. Swept(k, s.time) = <<>>
      BY <2>5 DEF Swept
    <3>2. <<>> \in Seq(Sample) /\ Len(<<>>) = 0
      OBVIOUS
    <3>. QED
      BY <2>5, <3>1, <3>2, StoreAssumption DEF Spaced, Expired
  <2>6. CASE ~(SweepDue(s.time) /\ Expired(series[k], s.time))
    <3>1. Swept(k, s.time) = series[k]
      BY <2>6 DEF Swept
    <3>2. series[k] # <<>> => Latest(series[k]) >= lastSweep' - MaxAge
      BY <1>1, <1>2, <2>3, <2>4, <2>6 DEF Expired
    <3>. QED
      BY <2>1, <2>3, <3>1, <3>2
  <2>. QED
    BY <2>5, <2>6
<1>4. \A k \in Instances : series'[k] = IF k = key THEN Appended(Swept(k, s.time), s)
                                        ELSE Swept(k, s.time)
  BY DEF StoreAppend
<1>5. LET b == Swept(key, s.time)  c == series'[key] IN
      /\ c \in Seq(Sample) /\ c # <<>>
      /\ Spaced(c) /\ Len(c) <= Limit
      /\ Latest(c) \in Nat
      /\ c = b \/ Latest(c) = s.time
      /\ Latest(c) >= s.time - MinGap
      /\ b # <<>> => Latest(c) >= Latest(b)
  <2> DEFINE b == Swept(key, s.time)
             c == Appended(b, s)
  <2>1. b \in Seq(Sample) /\ Len(b) <= Limit /\ Spaced(b)
    BY <1>3
  <2>2. series'[key] = c
    BY <1>4
  <2> HIDE DEF b
  <2>3. /\ c \in Seq(Sample) /\ c # <<>>
        /\ Spaced(c) /\ Len(c) <= Limit
        /\ Latest(c) \in Nat
        /\ c = b \/ Latest(c) = s.time
        /\ Latest(c) >= s.time - MinGap
        /\ b # <<>> => Latest(c) >= Latest(b)
    BY <2>1, AppendedProperties
  <2>. QED
    BY <2>2, <2>3 DEF b
<1>6. series' \in [Instances -> Seq(Sample)]
  <2>1. DOMAIN series' = Instances /\ series' = [k \in Instances |-> series'[k]]
    BY DEF StoreAppend
  <2>2. \A k \in Instances : k # key => series'[k] \in Seq(Sample)
    BY <1>3, <1>4
  <2>3. series'[key] \in Seq(Sample)
    BY <1>5
  <2>. QED
    BY <2>1, <2>2, <2>3
<1>7. /\ WindowNotHalved'
      /\ \A k \in Instances : Len(series'[k]) <= Limit
  <2>1. ASSUME NEW k \in Instances
        PROVE  /\ Spaced(series'[k])
               /\ Len(series'[k]) <= Limit
    <3>1. CASE k = key
      BY <1>5, <3>1
    <3>2. CASE k # key
      <4>1. series'[k] = Swept(k, s.time)
        BY <1>4, <3>2
      <4>. QED
        BY <1>3, <4>1
    <3>. QED
      BY <3>1, <3>2
  <2>. QED
    BY <2>1 DEF WindowNotHalved
<1>8. AgeInv'
  <2> SUFFICES ASSUME NEW k \in Instances, series'[k] # <<>>
               PROVE  Latest(series'[k]) >= lastSweep' - MaxAge
    BY DEF AgeInv
  <2>1. CASE k # key
    <3>1. series'[k] = Swept(k, s.time)
      BY <1>4, <2>1
    <3>. QED
      BY <1>3, <3>1
  <2>2. CASE k = key
    <3>. DEFINE b == Swept(key, s.time)
                c == series'[key]
    <3>1. s.time >= lastSweep' - MaxAge
      <4>1. clock >= lastSweep' /\ MaxDelay <= MaxAge
        BY <1>1, <1>2
      <4>2. s.time >= clock - MaxDelay
        BY <1>1
      <4>. QED
        BY <4>1, <4>2, <1>1, <1>2
    <3>2. b # <<>> => Latest(b) \in Nat /\ Latest(b) >= lastSweep' - MaxAge
      BY <1>3
    <3>3. /\ Latest(c) \in Nat /\ (c = b \/ Latest(c) = s.time)
          /\ c # <<>> /\ (b # <<>> => Latest(c) >= Latest(b))
      BY <1>5
    <3>. HIDE DEF b, c
    <3>4. Latest(c) >= lastSweep' - MaxAge
      BY <3>1, <3>2, <3>3
    <3>. QED
      BY <2>2, <3>4 DEF c
  <2>. QED
    BY <2>1, <2>2
<1>9. ASSUME NEW k \in Instances, NEW t \in Nat, series[k] # <<>>,
             Latest(series[k]) >= t - MinGap, clock - t <= MaxDelay
      PROVE  series'[k] # <<>> /\ Latest(series'[k]) >= t - MinGap
  <2>1. Latest(series[k]) \in Nat
    <3>1. series[k] \in Seq(Sample)
      BY DEF IInv, TypeOK
    <3>2. Len(series[k]) \in 1 .. Len(series[k])
      BY <1>9, <3>1, EmptySeq
    <3>3. series[k][Len(series[k])] \in Sample
      BY <3>1, <3>2, ElementOfSeq
    <3>. QED
      BY <3>3 DEF Latest, Sample
  <2>2. ~(s.time - Latest(series[k]) > MaxAge)
    BY <1>1, <1>9, <2>1
  <2>3. Swept(k, s.time) = series[k]
    BY <1>3, <2>2
  <2>. QED
    BY <1>1, <1>4, <1>5, <1>9, <2>1, <2>3
<1>10. SweepInv'
  BY <1>2 DEF SweepInv
<1>. QED
  BY <1>2, <1>5, <1>6, <1>7, <1>8, <1>9, <1>10

-----------------------------------------------------------------------------
\* The store starts empty and with no stamp under way.
LEMMA InitInv == Init => IInv
<1> SUFFICES ASSUME Init
             PROVE  IInv
  OBVIOUS
<1>1. (CHOOSE n \in Names : TRUE) \in Names
  BY StoreAssumption
<1>2. <<>> \in Seq(Sample) /\ Len(<<>>) = 0
  OBVIOUS
<1>3. NoCall \in Request
  BY <1>1, <1>2, StoreAssumption DEF NoCall, Request
<1>4. TypeOK
  BY <1>2, <1>3, StoreAssumption DEF Init, TypeOK, NoTick
<1>5. /\ \A v \in Viewers : viewer[v].pc = "idle"
      /\ ~sampler.on
      /\ \A k \in Instances : series[k] = <<>>
      /\ clock = SweepEvery /\ lastSweep = 0 /\ newest = 0
  BY DEF Init, NoCall, NoTick
<1>6. WindowNotHalved
  BY <1>2, <1>5, StoreAssumption DEF WindowNotHalved, Spaced
<1>7. SweepInv
  BY <1>5, StoreAssumption DEF SweepInv
<1>8. StampInv /\ AgeInv /\ PendingInv /\ ReplyIsFresh /\ TodoInv
  BY <1>5 DEF StampInv, AgeInv, PendingInv, ReplyIsFresh, TodoInv, Init, NoTick
<1>. QED
  BY <1>4, <1>6, <1>7, <1>8 DEF IInv

\* SampleInstance appends under the tick's stamp.
LEMMA SampleInstanceInv ==
  ASSUME IInv, NEW i \in Instances, SampleInstance(i)
  PROVE  IInv'
<1> DEFINE key == Key(DefaultScope, i[2])
           s == [time |-> sampler.time]
<1>1. /\ sampler.on /\ sampler.time \in Nat /\ clock \in Nat
      /\ sampler.todo \in SUBSET Instances
      /\ sampler.time <= clock /\ clock - sampler.time <= MaxDelay
  BY DEF SampleInstance, IInv, TypeOK, StampInv
<1>2. i[1] = DefaultScope /\ i = key
  BY DEF SampleInstance, IInv, TodoInv, Key, Instances
<1>3. s \in Sample /\ s.time = sampler.time
  BY <1>1, <1>2 DEF Sample
<1>4. StoreAppend(key, s) /\ UNCHANGED <<clock, running, viewer>>
  BY DEF SampleInstance
<1>5. /\ series' \in [Instances -> Seq(Sample)]
      /\ \A k \in Instances : Len(series'[k]) <= Limit
      /\ lastSweep' \in Nat /\ newest' \in Nat
      /\ WindowNotHalved' /\ SweepInv' /\ AgeInv'
      /\ \A k \in Instances : \A t \in Nat :
           /\ series[k] # <<>> /\ Latest(series[k]) >= t - MinGap
           /\ clock - t <= MaxDelay
           => series'[k] # <<>> /\ Latest(series'[k]) >= t - MinGap
  <2> HIDE DEF s, key
  <2>1. clock' = clock
    BY <1>4
  <2>2. key \in Instances
    BY <1>2
  <2>. QED
    BY <1>1, <1>3, <1>4, <2>1, <2>2, StoreAppendInv
<1>6. /\ sampler' \in [on : BOOLEAN, time : Nat, todo : SUBSET Instances]
      /\ sampler'.on = sampler.on /\ sampler'.time = sampler.time
      /\ sampler'.todo \subseteq sampler.todo
  BY DEF SampleInstance, IInv, TypeOK
<1>7. TypeOK'
  BY <1>4, <1>5, <1>6 DEF IInv, TypeOK
<1>8. StampInv' /\ TodoInv' /\ ReplyIsFresh'
  BY <1>4, <1>6 DEF IInv, StampInv, TodoInv, ReplyIsFresh
<1>9. PendingInv'
  <2> SUFFICES ASSUME NEW v \in Viewers, viewer[v].pc = "series"
               PROVE  LET k == Key(viewer[v].scope, viewer[v].name) IN
                      series'[k] # <<>> /\ Latest(series'[k]) >= viewer[v].time - MinGap
    BY <1>4 DEF PendingInv
  <2> DEFINE k == Key(viewer[v].scope, viewer[v].name)
  <2>1. k \in Instances /\ viewer[v].time \in Nat
    BY DEF IInv, TypeOK, Request, Key, Instances
  <2>2. series[k] # <<>> /\ Latest(series[k]) >= viewer[v].time - MinGap
    BY DEF IInv, PendingInv
  <2>3. clock - viewer[v].time <= MaxDelay
    BY DEF IInv, StampInv
  <2>. QED
    BY <1>5, <2>1, <2>2, <2>3
<1>. QED
  BY <1>5, <1>7, <1>8, <1>9 DEF IInv

\* A viewer appends under its own stamp and from then on expects its key fresh.
LEMMA ViewerAppendInv ==
  ASSUME IInv, NEW v \in Viewers, ViewerAppend(v)
  PROVE  IInv'
<1> DEFINE c == viewer[v]
           key == Key(c.scope, c.name)
           s == [time |-> c.time]
<1>1. /\ c \in Request /\ c.time \in Nat /\ clock \in Nat
      /\ c.scope \in Scopes /\ c.name \in Names
      /\ c.time <= clock /\ clock - c.time <= MaxDelay
  BY DEF ViewerAppend, IInv, TypeOK, Request, StampInv
<1>2. key \in Instances
  BY <1>1 DEF Key, Instances
<1>3. s \in Sample /\ s.time = c.time
  BY <1>1, <1>2 DEF Sample, Key, Instances
<1>4. StoreAppend(key, s) /\ UNCHANGED <<clock, running, sampler>>
  BY DEF ViewerAppend
<1>5. /\ series' \in [Instances -> Seq(Sample)]
      /\ \A k \in Instances : Len(series'[k]) <= Limit
      /\ lastSweep' \in Nat /\ newest' \in Nat
      /\ WindowNotHalved' /\ SweepInv' /\ AgeInv'
      /\ series'[key] # <<>> /\ Latest(series'[key]) >= c.time - MinGap
      /\ \A k \in Instances : \A t \in Nat :
           /\ series[k] # <<>> /\ Latest(series[k]) >= t - MinGap
           /\ clock - t <= MaxDelay
           => series'[k] # <<>> /\ Latest(series'[k]) >= t - MinGap
  <2> HIDE DEF s, key, c
  <2>1. clock' = clock
    BY <1>4
  <2>. QED
    BY <1>1, <1>2, <1>3, <1>4, <2>1, StoreAppendInv
<1>6. /\ \A q \in Viewers \ {v} : viewer'[q] = viewer[q]
      /\ viewer'[v] = [c EXCEPT !.pc = "series"]
      /\ viewer' \in [Viewers -> Request]
  <2>1. [c EXCEPT !.pc = "series"] \in Request
    BY <1>1 DEF Request
  <2>. QED
    BY <2>1 DEF ViewerAppend, IInv, TypeOK
<1>7. /\ viewer'[v].pc = "series" /\ viewer'[v].scope = c.scope
      /\ viewer'[v].name = c.name /\ viewer'[v].time = c.time
  BY <1>1, <1>6 DEF Request
<1>8. TypeOK'
  BY <1>4, <1>5, <1>6 DEF IInv, TypeOK
<1>9. StampInv' /\ TodoInv' /\ ReplyIsFresh'
  BY <1>1, <1>4, <1>6, <1>7 DEF IInv, StampInv, TodoInv, ReplyIsFresh
<1>10. PendingInv'
  <2> SUFFICES ASSUME NEW q \in Viewers, viewer'[q].pc = "series"
               PROVE  LET k == Key(viewer'[q].scope, viewer'[q].name) IN
                      series'[k] # <<>> /\ Latest(series'[k]) >= viewer'[q].time - MinGap
    BY DEF PendingInv
  <2>1. CASE q = v
    BY <1>5, <1>7, <2>1
  <2>2. CASE q # v
    <3> DEFINE k == Key(viewer[q].scope, viewer[q].name)
    <3>1. k \in Instances /\ viewer[q].time \in Nat
      BY DEF IInv, TypeOK, Request, Key, Instances
    <3>2. viewer'[q] = viewer[q]
      BY <1>6, <2>2
    <3>3. series[k] # <<>> /\ Latest(series[k]) >= viewer[q].time - MinGap
      BY <3>2 DEF IInv, PendingInv
    <3>4. clock - viewer[q].time <= MaxDelay
      BY <3>2 DEF IInv, StampInv
    <3>. QED
      BY <1>5, <3>1, <3>2, <3>3, <3>4
  <2>. QED
    BY <2>1, <2>2
<1>. QED
  BY <1>5, <1>8, <1>9, <1>10 DEF IInv

\* Time passes only while every stamp under way stays within MaxDelay.
LEMMA TickInv ==
  ASSUME IInv, Tick
  PROVE  IInv'
<1>1. /\ clock \in Nat /\ clock' = clock + 1 /\ newest \in Nat
      /\ UNCHANGED <<running, series, lastSweep, newest, sampler, viewer>>
      /\ sampler.on => clock - sampler.time < MaxDelay
      /\ \A v \in Viewers : viewer[v].pc # "idle" => clock - viewer[v].time < MaxDelay
  BY DEF Tick, IInv, TypeOK
<1>2. TypeOK'
  BY <1>1 DEF IInv, TypeOK
<1>3. SweepInv'
  BY <1>1 DEF IInv, SweepInv
<1>4. StampInv'
  <2>1. sampler.time \in Nat /\ \A v \in Viewers : viewer[v].time \in Nat
    BY DEF IInv, TypeOK, Request
  <2>. QED
    BY <1>1, <2>1, StoreAssumption DEF IInv, StampInv
<1>. QED
  BY <1>1, <1>2, <1>3, <1>4
     DEF IInv, TodoInv, WindowNotHalved, AgeInv, PendingInv, ReplyIsFresh

\* The sampler's own bookkeeping leaves the store and the viewers alone.
LEMMA SamplerInv ==
  ASSUME IInv, UNCHANGED <<clock, series, lastSweep, newest, viewer>>,
         running' \in SUBSET Instances,
         sampler' \in [on : BOOLEAN, time : Nat, todo : SUBSET Instances],
         \A i \in sampler'.todo : i[1] = DefaultScope,
         sampler'.on => sampler'.time <= clock /\ clock - sampler'.time <= MaxDelay
  PROVE  IInv'
<1>1. TypeOK'
  BY DEF IInv, TypeOK
<1>. QED
  BY <1>1 DEF IInv, TodoInv, WindowNotHalved, SweepInv, StampInv,
              AgeInv, PendingInv, ReplyIsFresh

\* A viewer's step that leaves the store alone: what it must establish itself.
LEMMA ViewerInv ==
  ASSUME IInv, UNCHANGED <<clock, running, series, lastSweep, newest, sampler>>,
         NEW v \in Viewers, NEW c \in Request, viewer' = [viewer EXCEPT ![v] = c],
         c.pc # "idle" => c.time <= clock /\ clock - c.time <= MaxDelay,
         c.pc # "series",
         c.pc = "reply" => c.reply # <<>> /\ Latest(c.reply) >= c.time - MinGap
  PROVE  IInv'
<1>1. viewer' \in [Viewers -> Request]
  BY DEF IInv, TypeOK
<1>2. /\ viewer'[v] = c
      /\ \A q \in Viewers \ {v} : viewer'[q] = viewer[q]
  BY DEF IInv, TypeOK
<1>3. TypeOK'
  BY <1>1 DEF IInv, TypeOK
<1>4. StampInv' /\ PendingInv' /\ ReplyIsFresh'
  BY <1>2 DEF IInv, StampInv, PendingInv, ReplyIsFresh
<1>. QED
  BY <1>3, <1>4 DEF IInv, TodoInv, WindowNotHalved, SweepInv, AgeInv

\* IInv is inductive.
LEMMA NextInv == IInv /\ [Next]_vars => IInv'
<1> SUFFICES ASSUME IInv, [Next]_vars
             PROVE  IInv'
  OBVIOUS
<1>0. /\ clock \in Nat /\ MaxDelay \in Nat /\ running \in SUBSET Instances
      /\ sampler \in [on : BOOLEAN, time : Nat, todo : SUBSET Instances]
      /\ \A i \in sampler.todo : i[1] = DefaultScope
      /\ sampler.on => sampler.time <= clock /\ clock - sampler.time <= MaxDelay
  BY StoreAssumption DEF IInv, TypeOK, TodoInv, StampInv
<1>1. CASE Tick
  BY <1>1, TickInv
<1>2. ASSUME NEW i \in Instances, Toggle(i)
      PROVE  IInv'
  <2>1. UNCHANGED <<clock, series, lastSweep, newest, sampler, viewer>>
    BY <1>2 DEF Toggle
  <2>2. running' \in SUBSET Instances
    BY <1>0, <1>2 DEF Toggle
  <2>. QED
    BY <1>0, <2>1, <2>2, SamplerInv
<1>3. CASE SampleOnce
  <2>1. /\ sampler'.on /\ sampler'.time = clock
        /\ sampler'.todo = {i \in running : i[1] = DefaultScope}
        /\ sampler' \in [on : BOOLEAN, time : Nat, todo : SUBSET Instances]
    BY <1>0, <1>3 DEF SampleOnce
  <2>2. UNCHANGED <<clock, series, lastSweep, newest, viewer>> /\ running' = running
    BY <1>3 DEF SampleOnce
  <2>. QED
    BY <1>0, <2>1, <2>2, SamplerInv
<1>4. ASSUME NEW i \in Instances, SampleInstance(i)
      PROVE  IInv'
  BY <1>4, SampleInstanceInv
<1>5. ASSUME NEW i \in Instances, SkipInstance(i)
      PROVE  IInv'
  <2>1. /\ sampler' \in [on : BOOLEAN, time : Nat, todo : SUBSET Instances]
        /\ sampler'.on = sampler.on /\ sampler'.time = sampler.time
        /\ sampler'.todo \subseteq sampler.todo
    BY <1>0, <1>5 DEF SkipInstance
  <2>2. UNCHANGED <<clock, series, lastSweep, newest, viewer>> /\ running' = running
    BY <1>5 DEF SkipInstance
  <2>. QED
    BY <1>0, <2>1, <2>2, SamplerInv
<1>6. CASE EndTick
  <2>1. sampler' \in [on : BOOLEAN, time : Nat, todo : SUBSET Instances]
        /\ ~sampler'.on /\ sampler'.todo = {}
    BY <1>6 DEF EndTick, NoTick
  <2>2. UNCHANGED <<clock, series, lastSweep, newest, viewer>> /\ running' = running
    BY <1>6 DEF EndTick
  <2>. QED
    BY <1>0, <2>1, <2>2, SamplerInv
<1>7. ASSUME NEW v \in Viewers, NEW i \in Instances, ViewerStamp(v, i)
      PROVE  IInv'
  <2> DEFINE c == [pc |-> "append", scope |-> i[1], name |-> i[2], time |-> clock, reply |-> <<>>]
  <2>1. c \in Request
    BY <1>0 DEF Request, Instances
  <2>2. c.pc = "append" /\ c.time = clock /\ viewer' = [viewer EXCEPT ![v] = c]
    BY <1>7 DEF ViewerStamp
  <2>3. UNCHANGED <<clock, running, series, lastSweep, newest, sampler>>
    BY <1>7 DEF ViewerStamp
  <2>4. c.time <= clock /\ clock - c.time <= MaxDelay
    BY <1>0
  <2>5. c.pc # "series" /\ c.pc # "reply"
    OBVIOUS
  <2> HIDE DEF c
  <2>. QED
    BY <2>1, <2>2, <2>3, <2>4, <2>5, ViewerInv
<1>8. ASSUME NEW v \in Viewers, ViewerAppend(v)
      PROVE  IInv'
  BY <1>8, ViewerAppendInv
<1>9. ASSUME NEW v \in Viewers, ViewerSeries(v)
      PROVE  IInv'
  <2> DEFINE k == Key(viewer[v].scope, viewer[v].name)
             c == [viewer[v] EXCEPT !.pc = "reply", !.reply = series[k]]
  <2>1. viewer[v] \in Request /\ k \in Instances
    BY DEF IInv, TypeOK, Request, Key, Instances
  <2>2. series[k] \in Seq(Sample)
    BY <2>1 DEF IInv, TypeOK
  <2>3. c \in Request /\ c.pc = "reply" /\ c.reply = series[k] /\ c.time = viewer[v].time
    BY <2>1, <2>2 DEF Request
  <2>4. viewer' = [viewer EXCEPT ![v] = c]
    BY <1>9 DEF ViewerSeries
  <2>5. UNCHANGED <<clock, running, series, lastSweep, newest, sampler>>
    BY <1>9 DEF ViewerSeries
  <2>6. series[k] # <<>> /\ Latest(series[k]) >= viewer[v].time - MinGap
    BY <1>9 DEF ViewerSeries, IInv, PendingInv
  <2>7. viewer[v].time <= clock /\ clock - viewer[v].time <= MaxDelay
    BY <1>9 DEF ViewerSeries, IInv, StampInv
  <2> HIDE DEF c
  <2>. QED
    BY <2>3, <2>4, <2>5, <2>6, <2>7, ViewerInv
<1>10. ASSUME NEW v \in Viewers, ViewerReply(v)
       PROVE  IInv'
  <2>1. NoCall \in Request /\ NoCall.pc = "idle"
    <3>1. (CHOOSE n \in Names : TRUE) \in Names
      BY StoreAssumption
    <3>2. <<>> \in Seq(Sample)
      OBVIOUS
    <3>. QED
      BY <3>1, <3>2, StoreAssumption DEF NoCall, Request
  <2>2. UNCHANGED <<clock, running, series, lastSweep, newest, sampler>>
        /\ viewer' = [viewer EXCEPT ![v] = NoCall]
    BY <1>10 DEF ViewerReply
  <2>. QED
    BY <2>1, <2>2, ViewerInv
<1>11. CASE UNCHANGED vars
  BY <1>11 DEF vars, IInv, TypeOK, TodoInv, WindowNotHalved, SweepInv,
               StampInv, AgeInv, PendingInv, ReplyIsFresh
<1>. QED
  BY <1>1, <1>2, <1>3, <1>4, <1>5, <1>6, <1>7, <1>8, <1>9, <1>10, <1>11 DEF Next

-----------------------------------------------------------------------------
\* Every reachable state is well typed.
THEOREM TypeCorrect == Spec => []TypeOK
<1>1. IInv => TypeOK
  BY DEF IInv
<1>. QED
  BY <1>1, InitInv, NextInv, PTL DEF Spec

\* No interleaving of sampler and viewers shortens the window a full history
\* covers below (Limit - 1) minimum gaps.
THEOREM WindowKept == Spec => []WindowNotHalved
<1>1. IInv => WindowNotHalved
  BY DEF IInv
<1>. QED
  BY <1>1, InitInv, NextInv, PTL DEF Spec

\* The store forgets keys that nothing samples any more.
THEOREM StaleKeysEvicted == Spec => []NoStaleKey
<1>1. IInv => NoStaleKey
  <2> SUFFICES ASSUME IInv, NEW k \in Instances, series[k] # <<>>
               PROVE  newest - Latest(series[k]) < MaxAge + SweepEvery
    BY DEF NoStaleKey
  <2>1. series[k] \in Seq(Sample)
    BY DEF IInv, TypeOK
  <2>2. Len(series[k]) \in 1 .. Len(series[k])
    BY <2>1, EmptySeq
  <2>3. series[k][Len(series[k])] \in Sample
    BY <2>1, <2>2, ElementOfSeq
  <2>4. Latest(series[k]) \in Nat
    BY <2>3 DEF Latest, Sample
  <2>5. Latest(series[k]) >= lastSweep - MaxAge /\ newest - lastSweep < SweepEvery
    BY DEF IInv, AgeInv, SweepInv
  <2>. QED
    BY <2>4, <2>5, StoreAssumption DEF IInv, TypeOK
<1>. QED
  BY <1>1, InitInv, NextInv, PTL DEF Spec

\* A series reply is never empty and never staler than the minimum gap, as
\* long as a stamp reaches the store within MaxAge - MinGap.
THEOREM RepliesAreFresh == Spec => []ReplyIsFresh
<1>1. IInv => ReplyIsFresh
  BY DEF IInv
<1>. QED
  BY <1>1, InitInv, NextInv, PTL DEF Spec
=============================================================================
