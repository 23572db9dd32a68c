--------------------------- MODULE Watches_proofs ---------------------------
(***************************************************************************)
(* Proofs about Console (the newest size of a window reaches the shell)    *)
(* and FakeOperations (a running operation stays in the log, no change is  *)
(* lost on a watcher, every watch keeps the contract), as MC_Watches       *)
(* instantiates them.                                                      *)
(***************************************************************************)
EXTENDS MC_Watches, OperationEvents_proofs, SequenceTheorems, FiniteSetTheorems

-----------------------------------------------------------------------------
(* The console.                                                            *)

\* What is on its way from the browser: keys, and sizes in increasing order
\* that the reader has not reached.
FramesInOrder ==
  /\ frames \in Seq(0 .. resized)
  /\ \A i \in 1 .. Len(frames) : frames[i] # Term!Key => asked <= frames[i]
  /\ \A i, j \in 1 .. Len(frames) :
       i <= j /\ frames[i] # Term!Key /\ frames[j] # Term!Key => frames[i] <= frames[j]

ConsoleInv ==
  /\ Term!TypeOK
  /\ size \in Nat /\ asked \in Nat /\ resize \in Nat
  /\ FramesInOrder
  /\ reader = "replace" => resize = 0
  /\ exec = "start" => control = "off"
  /\ NewestSizeWins

\* The initial state of a console.
LEMMA ConsoleStarts == Term!Init => ConsoleInv
<1> SUFFICES ASSUME Term!Init
             PROVE  ConsoleInv
  OBVIOUS
<1>1. Len(frames) = 0 /\ 1 .. Len(frames) = {} /\ frames \in Seq(0 .. resized)
  BY DEF Term!Init
<1>2. size <= asked /\ resize <= asked /\ asked <= resized
  <2>1. size = 0 /\ asked = 0 /\ resize = 0 /\ resized = 0
    BY DEF Term!Init
  <2>. QED
    BY <2>1
<1>3. resized \in 0 .. MaxSizes /\ typed \in 0 .. MaxKeys
  BY WatchesBounds DEF Term!Init
<1>4. Term!TypeOK
  BY <1>2, <1>3 DEF Term!Init, Term!TypeOK
<1>. QED
  BY <1>1, <1>4 DEF ConsoleInv, FramesInOrder, NewestSizeWins, Term!Init,
     Term!NewestSizeWins

\* The browser only adds to its frames.
LEMMA BrowserInv ==
  ASSUME ConsoleInv, Term!Type \/ Term!Resize \/ Term!Leave
  PROVE  ConsoleInv'
<1>. USE DEF ConsoleInv, FramesInOrder, NewestSizeWins, Term!TypeOK, Term!NewestSizeWins,
             Term!Key, Term!reading, Term!daemon
<1>1. CASE Term!Type
  <2>1. /\ frames' \in Seq(0 .. resized)
        /\ Len(frames') = Len(frames) + 1
        /\ \A i \in 1 .. Len(frames) : frames'[i] = frames[i]
        /\ frames'[Len(frames) + 1] = 0
    BY <1>1 DEF Term!Type
  <2>2. FramesInOrder'
    BY <1>1, <2>1 DEF Term!Type
  <2>. QED
    BY <1>1, <2>2, WatchesBounds DEF Term!Type
<1>2. CASE Term!Resize
  <2>1. resized \in Nat /\ resized' = resized + 1 /\ resized' \in 0 .. MaxSizes
    BY <1>2, WatchesBounds DEF Term!Resize
  <2>2. /\ frames' \in Seq(0 .. resized')
        /\ Len(frames') = Len(frames) + 1
        /\ \A i \in 1 .. Len(frames) : frames'[i] = frames[i] /\ frames[i] \in 0 .. resized
        /\ frames'[Len(frames) + 1] = resized'
        /\ Len(frames) \in Nat
    <3>1. frames \in Seq(0 .. resized') /\ resized' \in 0 .. resized'
      BY <2>1, SeqMonotonic
    <3>2. Len(frames) \in Nat /\ \A i \in 1 .. Len(frames) : frames[i] \in 0 .. resized
      BY LenProperties, ElementOfSeq
    <3>. QED
      BY <1>2, <2>1, <3>1, <3>2, AppendProperties DEF Term!Resize
  <2>3. asked' = asked /\ asked <= resized
    BY <1>2 DEF Term!Resize
  <2>4. FramesInOrder'
    <3>1. ASSUME NEW i \in 1 .. Len(frames'), frames'[i] # 0
          PROVE  asked <= frames'[i]
      <4>1. CASE i \in 1 .. Len(frames)
        BY <3>1, <4>1, <2>2
      <4>2. CASE i = Len(frames) + 1
        BY <4>2, <2>1, <2>2, <2>3
      <4>. QED
        BY <4>1, <4>2, <2>2
    <3>2. ASSUME NEW i \in 1 .. Len(frames'), NEW j \in 1 .. Len(frames'),
                 i <= j, frames'[i] # 0, frames'[j] # 0
          PROVE  frames'[i] <= frames'[j]
      <4>1. CASE j \in 1 .. Len(frames)
        <5>1. i \in 1 .. Len(frames)
          BY <3>2, <4>1, <2>2
        <5>. QED
          BY <3>2, <4>1, <5>1, <2>2
      <4>2. CASE j = Len(frames) + 1
        <5>1. i \in 1 .. Len(frames) \/ i = j
          BY <3>2, <4>2, <2>2
        <5>. QED
          BY <4>2, <5>1, <2>1, <2>2
      <4>. QED
        BY <4>1, <4>2, <2>2
    <3>. QED
      BY <2>2, <2>3, <3>1, <3>2
  <2>. QED
    BY <1>2, <2>1, <2>4 DEF Term!Resize
<1>3. CASE Term!Leave
  BY <1>3 DEF Term!Leave
<1>. QED
  BY <1>1, <1>2, <1>3

\* The reader fills the channel only with the newest size it has read.
LEMMA ReaderInv ==
  ASSUME ConsoleInv, Term!Reader
  PROVE  ConsoleInv'
<1>. USE DEF ConsoleInv, NewestSizeWins, Term!TypeOK, Term!NewestSizeWins,
             Term!Key, Term!input, Term!daemon
<1>1. CASE Term!ReadMessage
  <2>1. CASE reader' = "ended"
    BY <1>1, <2>1 DEF Term!ReadMessage, Term!Canceled, FramesInOrder
  <2>2. CASE reader' # "ended"
    <3>1. frames # <<>> /\ frames' = Tail(frames)
      BY <1>1, <2>2 DEF Term!ReadMessage
    <3>2. frames \in Seq(0 .. resized) /\ Len(frames) \in Nat /\ Len(frames) # 0
      BY <3>1, EmptySeq DEF FramesInOrder
    <3>3. /\ frames' \in Seq(0 .. resized)
          /\ Len(frames') = Len(frames) - 1
          /\ \A i \in 1 .. Len(frames') : i + 1 \in 1 .. Len(frames) /\ frames'[i] = frames[i + 1]
          /\ Head(frames) = frames[1] /\ 1 \in 1 .. Len(frames) /\ frames[1] \in 0 .. resized
      BY <3>1, <3>2
    <3>4. asked' = IF frames[1] = 0 THEN asked ELSE frames[1]
      BY <1>1, <2>2, <3>3 DEF Term!ReadMessage
    <3>5. \A i \in 1 .. Len(frames) : frames[i] # 0 => asked' <= frames[i]
      BY <3>2, <3>3, <3>4 DEF FramesInOrder
    <3>6. FramesInOrder'
      <4>1. resized' = resized
        BY <1>1 DEF Term!ReadMessage
      <4>2. ASSUME NEW i \in 1 .. Len(frames'), frames'[i] # 0
            PROVE  asked' <= frames'[i]
        BY <4>2, <3>3, <3>5
      <4>3. ASSUME NEW i \in 1 .. Len(frames'), NEW j \in 1 .. Len(frames'),
                   i <= j, frames'[i] # 0, frames'[j] # 0
            PROVE  frames'[i] <= frames'[j]
        <5>1. i + 1 \in 1 .. Len(frames) /\ j + 1 \in 1 .. Len(frames) /\ i + 1 <= j + 1
          BY <4>3, <3>3
        <5>. QED
          BY <4>3, <5>1, <3>3 DEF FramesInOrder
      <4>. QED
        BY <3>3, <4>1, <4>2, <4>3 DEF FramesInOrder
    <3>7. asked <= asked' /\ asked' <= resized /\ asked' \in Nat
      BY <3>3, <3>4 DEF FramesInOrder
    <3>. QED
      BY <1>1, <2>2, <3>6, <3>7 DEF Term!ReadMessage, Term!Canceled
  <2>. QED
    BY <2>1, <2>2
<1>2. CASE Term!WriteStdin
  BY <1>2 DEF Term!WriteStdin, FramesInOrder
<1>3. CASE Term!Offer
  BY <1>3 DEF Term!Offer, Term!WhenFull, FramesInOrder
<1>4. CASE Term!Drain
  BY <1>4 DEF Term!Drain, FramesInOrder
<1>5. CASE Term!Replace
  BY <1>5 DEF Term!Replace, FramesInOrder
<1>. QED
  BY <1>1, <1>2, <1>3, <1>4, <1>5 DEF Term!Reader

\* What empties the channel hands its size on, or ends with the session.
LEMMA DaemonInv ==
  ASSUME ConsoleInv, Term!Copy \/ Term!EndOutput \/ Term!ShellExits \/ Term!execControl \/ Term!Exec
  PROVE  ConsoleInv'
<1>. USE DEF ConsoleInv, FramesInOrder, NewestSizeWins, Term!TypeOK, Term!NewestSizeWins,
             Term!Key, Term!input, Term!reading, Term!daemon
<1>1. CASE Term!Copy
  BY <1>1 DEF Term!Copy
<1>2. CASE Term!EndOutput
  BY <1>2 DEF Term!EndOutput
<1>3. CASE Term!ShellExits
  BY <1>3 DEF Term!ShellExits
<1>4. CASE Term!execControl
  BY <1>4 DEF Term!execControl
<1>5. CASE Term!StartExec
  BY <1>5 DEF Term!StartExec
<1>6. CASE Term!Echo
  BY <1>6 DEF Term!Echo
<1>7. CASE Term!Wait \/ Term!Flush \/ Term!Close
  BY <1>7 DEF Term!Wait, Term!Flush, Term!Close
<1>. QED
  BY <1>1, <1>2, <1>3, <1>4, <1>5, <1>6, <1>7 DEF Term!Exec

\* A console's steps preserve its invariant.
LEMMA ConsoleStep ==
  ASSUME ConsoleInv, [Term!Next]_console
  PROVE  ConsoleInv'
<1>1. CASE Term!Next
  BY <1>1, BrowserInv, ReaderInv, DaemonInv DEF Term!Next
<1>2. CASE UNCHANGED console
  BY <1>2 DEF ConsoleInv, FramesInOrder, NewestSizeWins, Term!TypeOK, Term!NewestSizeWins,
     Term!Key, console
<1>. QED
  BY <1>1, <1>2

-----------------------------------------------------------------------------
(* Positions of a log.                                                     *)

UpTo(K, i) == {j \in K : j <= i}

\* A later position has more positions up to it.
LEMMA RankGrows ==
  ASSUME NEW m \in Nat, NEW K \in SUBSET (1 .. m)
  PROVE  \A i, j \in K : i < j => Cardinality(UpTo(K, i)) < Cardinality(UpTo(K, j))
<1> SUFFICES ASSUME NEW i \in K, NEW j \in K, i < j
             PROVE  Cardinality(UpTo(K, i)) < Cardinality(UpTo(K, j))
  OBVIOUS
<1>1. IsFiniteSet(UpTo(K, j))
  <2>1. IsFiniteSet(1 .. m)
    BY FS_Interval
  <2>2. UpTo(K, j) \in SUBSET (1 .. m)
    BY DEF UpTo
  <2>. QED
    BY <2>1, <2>2, FS_Subset
<1>2. UpTo(K, i) \in SUBSET UpTo(K, j) /\ j \in UpTo(K, j) /\ j \notin UpTo(K, i)
  <2>1. i \in Nat /\ j \in Nat /\ j <= j /\ ~(j <= i)
    OBVIOUS
  <2>2. ASSUME NEW k \in K, k <= i
        PROVE  k <= j
    BY <2>2, <2>1
  <2>. QED
    BY <2>1, <2>2 DEF UpTo
<1>3. Cardinality(UpTo(K, i)) \in Nat /\ Cardinality(UpTo(K, j)) \in Nat
  BY <1>1, <1>2, FS_Subset, FS_CardinalityType
<1>. QED
  BY <1>1, <1>2, <1>3, FS_Subset

\* Every position has a rank, and every rank its position.
LEMMA Ranks ==
  ASSUME NEW m \in Nat, NEW K \in SUBSET (1 .. m)
  PROVE  /\ Cardinality(K) \in Nat
         /\ \A i \in K : Cardinality(UpTo(K, i)) \in 1 .. Cardinality(K)
         /\ \A n \in 1 .. Cardinality(K) : \E i \in K : Cardinality(UpTo(K, i)) = n
<1>. DEFINE N == Cardinality(K)
            f == [i \in K |-> Cardinality(UpTo(K, i))]
<1>1. IsFiniteSet(K) /\ N \in Nat
  <2>1. IsFiniteSet(1 .. m)
    BY FS_Interval
  <2>. QED
    BY <2>1, FS_Subset, FS_CardinalityType
<1>2. ASSUME NEW i \in K
      PROVE  Cardinality(UpTo(K, i)) \in 1 .. N
  <2>1. UpTo(K, i) \in SUBSET K /\ i \in UpTo(K, i)
    BY DEF UpTo
  <2>2. /\ IsFiniteSet(UpTo(K, i))
        /\ Cardinality(UpTo(K, i)) \in Nat
        /\ Cardinality(UpTo(K, i)) <= N
    BY <2>1, <1>1, FS_Subset, FS_CardinalityType
  <2>3. Cardinality(UpTo(K, i)) # 0
    BY <2>1, <2>2, FS_EmptySet
  <2>. QED
    BY <1>1, <2>2, <2>3
<1>3. f \in [K -> 1 .. N]
  BY <1>2
<1>4. \A i, j \in K : f[i] = f[j] => i = j
  <2>. SUFFICES ASSUME NEW i \in K, NEW j \in K, i < j
                PROVE  f[i] # f[j]
    OBVIOUS
  <2>1. f[i] < f[j]
    BY RankGrows
  <2>. QED
    BY <2>1, <1>3
<1>5. f \in Injection(K, 1 .. N)
  BY <1>3, <1>4 DEF Injection, IsInjective
<1>6. IsFiniteSet(1 .. N) /\ Cardinality(1 .. N) = N
  BY <1>1, FS_Interval
<1>7. f \in Surjection(K, 1 .. N)
  BY <1>5, <1>6, FS_Injection
<1>. QED
  BY <1>1, <1>2, <1>7 DEF Surjection

\* The cardinality of the instance is that of FiniteSets.
LEMMA SameCardinality == \A S : Fake!Cardinality(S) = Cardinality(S)
  BY DEF Fake!Cardinality, Cardinality

\* Nth enumerates a set of positions in their order.
LEMMA NthEnumerates ==
  ASSUME NEW m \in Nat, NEW K \in SUBSET (1 .. m)
  PROVE  /\ Cardinality(K) \in Nat
         /\ \A n \in 1 .. Cardinality(K) : Fake!Nth(K, n) \in K
         /\ \A i \in K : \E n \in 1 .. Cardinality(K) : Fake!Nth(K, n) = i
         /\ \A n, o \in 1 .. Cardinality(K) : n < o => Fake!Nth(K, n) < Fake!Nth(K, o)
<1>1. /\ Cardinality(K) \in Nat
      /\ \A i \in K : Cardinality(UpTo(K, i)) \in 1 .. Cardinality(K)
      /\ \A n \in 1 .. Cardinality(K) : \E i \in K : Cardinality(UpTo(K, i)) = n
      /\ \A i, j \in K : i < j => Cardinality(UpTo(K, i)) < Cardinality(UpTo(K, j))
  BY Ranks, RankGrows
<1>2. ASSUME NEW n \in 1 .. Cardinality(K)
      PROVE  Fake!Nth(K, n) \in K /\ Cardinality(UpTo(K, Fake!Nth(K, n))) = n
  <2>1. \E i \in K : Cardinality({j \in K : j <= i}) = n
    BY <1>1 DEF UpTo
  <2>. DEFINE x == CHOOSE i \in K : Cardinality({j \in K : j <= i}) = n
  <2>2. x \in K /\ Cardinality({j \in K : j <= x}) = n
    BY <2>1
  <2>3. Fake!Nth(K, n) = x
    BY SameCardinality DEF Fake!Nth
  <2>. HIDE DEF x
  <2>4. UpTo(K, x) = {j \in K : j <= x}
    BY DEF UpTo
  <2>. QED
    BY <2>2, <2>3, <2>4
<1>3. ASSUME NEW i \in K, NEW j \in K, Cardinality(UpTo(K, i)) = Cardinality(UpTo(K, j))
      PROVE  i = j
  <2>1. Cardinality(UpTo(K, i)) \in Nat /\ i \in Nat /\ j \in Nat
    BY <1>1
  <2>2. ~(i < j) /\ ~(j < i)
    BY <1>1, <1>3, <2>1
  <2>. QED
    BY <2>1, <2>2
<1>4. ASSUME NEW i \in K
      PROVE  \E n \in 1 .. Cardinality(K) : Fake!Nth(K, n) = i
  <2>. DEFINE n == Cardinality(UpTo(K, i))
  <2>1. n \in 1 .. Cardinality(K)
    BY <1>1
  <2>2. Fake!Nth(K, n) = i
    BY <2>1, <1>2, <1>3
  <2>. QED
    BY <2>1, <2>2
<1>5. ASSUME NEW n \in 1 .. Cardinality(K), NEW o \in 1 .. Cardinality(K), n < o
      PROVE  Fake!Nth(K, n) < Fake!Nth(K, o)
  <2>. DEFINE i == Fake!Nth(K, n)  j == Fake!Nth(K, o)
  <2>1. i \in K /\ j \in K /\ Cardinality(UpTo(K, i)) = n /\ Cardinality(UpTo(K, j)) = o
    BY <1>2
  <2>. HIDE DEF i, j
  <2>2. i \in Nat /\ j \in Nat /\ n \in Nat /\ o \in Nat
    BY <2>1, <1>1
  <2>3. i # j
    BY <2>1, <2>2, <1>5
  <2>4. ~(j < i)
    BY <2>1, <2>2, <1>5, <1>1
  <2>5. i < j
    BY <2>2, <2>3, <2>4
  <2>. QED
    BY <2>5 DEF i, j
<1>. QED
  BY <1>1, <1>2, <1>4, <1>5

\* A log reduced to some of its positions.
LEMMA Picked ==
  ASSUME NEW l \in Seq(Fake!Entry), NEW K \in SUBSET (1 .. Len(l))
  PROVE  /\ Fake!Pick(l, K) \in Seq(Fake!Entry)
         /\ Len(Fake!Pick(l, K)) = Cardinality(K)
         /\ \A n \in 1 .. Cardinality(K) : Fake!Pick(l, K)[n] = l[Fake!Nth(K, n)]
<1>1. Len(l) \in Nat /\ \A i \in 1 .. Len(l) : l[i] \in Fake!Entry
  BY LenProperties, ElementOfSeq
<1>2. /\ Cardinality(K) \in Nat
      /\ \A n \in 1 .. Cardinality(K) : Fake!Nth(K, n) \in K
  BY <1>1, NthEnumerates
<1>3. Fake!Pick(l, K) = [n \in 1 .. Cardinality(K) |-> l[Fake!Nth(K, n)]]
  BY SameCardinality DEF Fake!Pick
<1>4. \A n \in 1 .. Cardinality(K) : l[Fake!Nth(K, n)] \in Fake!Entry
  BY <1>1, <1>2
<1>. QED
  BY <1>2, <1>3, <1>4, IsASeq

-----------------------------------------------------------------------------
(* The in-memory backend's logs.                                           *)

Unfinished(l) == {i \in 1 .. Len(l) : l[i].status # "Success"}

\* A log of operations numbered up to n: in order, cancelable exactly when
\* running, and no longer than the cap by more than its unfinished entries.
LogOK(l, n) ==
  /\ l \in Seq(Fake!Entry)
  /\ \A i \in 1 .. Len(l) : l[i].id <= n /\ (l[i].cancelable <=> l[i].status = "Running")
  /\ \A i, j \in 1 .. Len(l) : i < j => l[i].id > l[j].id
  /\ Len(l) <= maxOps + Cardinality(Unfinished(l))
  /\ Cardinality(Unfinished(l)) <= MaxSeeds

\* The numbers up to n are finitely many, n of them.
LEMMA FirstNumbers ==
  ASSUME NEW n \in Nat
  PROVE  IsFiniteSet(1 .. n) /\ Cardinality(1 .. n) = n
<1>1. IsFiniteSet(1 .. n) /\ Cardinality(1 .. n) = IF 1 > n THEN 0 ELSE n - 1 + 1
  BY FS_Interval
<1>. QED
  BY <1>1

\* The positions of a log are finitely many.
LEMMA Finite ==
  ASSUME NEW l \in Seq(Fake!Entry), NEW K \in SUBSET (1 .. Len(l))
  PROVE  IsFiniteSet(K) /\ Cardinality(K) \in Nat
<1>1. IsFiniteSet(1 .. Len(l))
  BY FirstNumbers, LenProperties
<1>. QED
  BY <1>1, FS_Subset, FS_CardinalityType

\* The operations of a log are numbered.
LEMMA Numbered ==
  ASSUME NEW l \in Seq(Fake!Entry)
  PROVE  \A i \in 1 .. Len(l) : l[i].id \in Nat
<1>1. \A i \in 1 .. Len(l) : l[i] \in Fake!Entry
  BY ElementOfSeq
<1>. QED
  BY <1>1 DEF Fake!Entry

\* An entry on top of a log.
LEMMA OnTop ==
  ASSUME NEW l \in Seq(Fake!Entry), NEW e \in Fake!Entry
  PROVE  /\ Fake!Prepended(l, e) \in Seq(Fake!Entry)
         /\ Len(Fake!Prepended(l, e)) = Len(l) + 1
         /\ Fake!Prepended(l, e)[1] = e
         /\ \A i \in 1 .. Len(l) : Fake!Prepended(l, e)[i + 1] = l[i]
         /\ \A i \in 2 .. Len(l) + 1 : i - 1 \in 1 .. Len(l) /\ Fake!Prepended(l, e)[i] = l[i - 1]
  BY DEF Fake!Prepended

\* A set that injects into a finite one is no larger.
LEMMA Injects ==
  ASSUME NEW S, NEW T, IsFiniteSet(T), NEW f \in [S -> T],
         \A x, y \in S : f[x] = f[y] => x = y
  PROVE  IsFiniteSet(S) /\ Cardinality(S) <= Cardinality(T)
<1>1. f \in Injection(S, T)
  BY DEF Injection, IsInjective
<1>. QED
  BY <1>1, FS_Injection

\* What logOp keeps of a log P: every running entry, and no more than the cap
\* and the unfinished entries that it leaves.
LEMMA TrimKeeps ==
  ASSUME NEW P \in Seq(Fake!Entry)
  PROVE  /\ Fake!Trim(P) \in Seq(Fake!Entry)
         /\ \A i \in 1 .. Len(P) : P[i].status = "Running" =>
              \E k \in 1 .. Len(Fake!Trim(P)) : Fake!Trim(P)[k] = P[i]
         /\ \E f \in [1 .. Len(Fake!Trim(P)) -> 1 .. Len(P)] :
              /\ \A i \in 1 .. Len(Fake!Trim(P)) : Fake!Trim(P)[i] = P[f[i]]
              /\ \A i, j \in 1 .. Len(Fake!Trim(P)) : i < j => f[i] < f[j]
         /\ Len(Fake!Trim(P)) <= maxOps + Cardinality(Unfinished(Fake!Trim(P)))
<1>. DEFINE K == Fake!Kept(P)
            T == Fake!Trim(P)
            Run == {i \in K : P[i].status = "Running"}
<1>1. Len(P) \in Nat /\ maxOps \in Nat
  BY WatchesBounds, LenProperties
<1>2. K \in SUBSET (1 .. Len(P)) /\ DOMAIN P = 1 .. Len(P)
  BY LenProperties DEF Fake!Kept
<1>3. /\ T \in Seq(Fake!Entry) /\ Len(T) = Cardinality(K)
      /\ \A n \in 1 .. Cardinality(K) : T[n] = P[Fake!Nth(K, n)]
  BY <1>2, Picked DEF Fake!Trim
<1>4. /\ Cardinality(K) \in Nat
      /\ \A n \in 1 .. Cardinality(K) : Fake!Nth(K, n) \in K
      /\ \A i \in K : \E n \in 1 .. Cardinality(K) : Fake!Nth(K, n) = i
      /\ \A n, o \in 1 .. Cardinality(K) : n < o => Fake!Nth(K, n) < Fake!Nth(K, o)
  BY <1>1, <1>2, NthEnumerates
<1>5. \A i \in 1 .. Len(P) : P[i].status = "Running" => i \in K
  BY <1>2 DEF Fake!Kept
<1>6. \A i \in K : i <= maxOps \/ P[i].status = "Running"
  BY DEF Fake!Kept
<1>. HIDE DEF K, T
<1>7. \A i \in 1 .. Len(P) : P[i].status = "Running" => \E k \in 1 .. Len(T) : T[k] = P[i]
  BY <1>3, <1>4, <1>5
<1>8. \E f \in [1 .. Len(T) -> 1 .. Len(P)] :
         /\ \A i \in 1 .. Len(T) : T[i] = P[f[i]]
         /\ \A i, j \in 1 .. Len(T) : i < j => f[i] < f[j]
  <2>. DEFINE f == [n \in 1 .. Len(T) |-> Fake!Nth(K, n)]
  <2>1. f \in [1 .. Len(T) -> 1 .. Len(P)]
    BY <1>2, <1>3, <1>4
  <2>. QED
    BY <2>1, <1>3, <1>4
<1>9. Cardinality(Run) <= Cardinality(Unfinished(T))
  <2>. DEFINE g == [i \in Run |-> CHOOSE n \in 1 .. Cardinality(K) : Fake!Nth(K, n) = i]
  <2>1. \A i \in Run : g[i] \in 1 .. Cardinality(K) /\ Fake!Nth(K, g[i]) = i
    BY <1>4
  <2>2. ASSUME NEW i \in Run
        PROVE  g[i] \in Unfinished(T)
    <3>. DEFINE n == g[i]
    <3>1. n \in 1 .. Cardinality(K) /\ Fake!Nth(K, n) = i
      BY <2>1
    <3>2. P[i].status = "Running"
      OBVIOUS
    <3>. HIDE DEF g, n, Run
    <3>3. n \in 1 .. Len(T) /\ T[n] = P[i]
      BY <1>3, <3>1
    <3>4. n \in Unfinished(T)
      BY <3>2, <3>3 DEF Unfinished
    <3>. QED
      BY <3>4 DEF n
  <2>3. g \in [Run -> Unfinished(T)]
    <3>1. g = [i \in Run |-> g[i]]
      OBVIOUS
    <3>. HIDE DEF g, Run
    <3>. QED
      BY <2>2, <3>1
  <2>4. Unfinished(T) \in SUBSET (1 .. Len(T))
    BY DEF Unfinished
  <2>. HIDE DEF g, Run
  <2>5. \A i, j \in Run : g[i] = g[j] => i = j
    BY <2>1
  <2>. QED
    BY <2>3, <2>4, <2>5, <1>3, Finite, Injects
<1>10. Cardinality(K) <= maxOps + Cardinality(Run)
  <2>. DEFINE New == {i \in K : i <= maxOps}
  <2>1. K = New \cup Run /\ New \in SUBSET (1 .. maxOps) /\ Run \in SUBSET (1 .. Len(P))
    <3>1. \A i \in K : i \in 1 .. Len(P) /\ (i <= maxOps => i \in 1 .. maxOps)
      BY <1>1, <1>2
    <3>. QED
      BY <3>1, <1>6
  <2>2. IsFiniteSet(1 .. maxOps) /\ Cardinality(1 .. maxOps) = maxOps
    BY <1>1, FirstNumbers
  <2>3. IsFiniteSet(New) /\ Cardinality(New) <= maxOps /\ Cardinality(New) \in Nat
    <3>1. New \in SUBSET (1 .. maxOps)
      <4>. HIDE DEF New, Run
      <4>. QED
        BY <2>1
    <3>. HIDE DEF New
    <3>2. IsFiniteSet(New) /\ Cardinality(New) <= Cardinality(1 .. maxOps)
      BY <3>1, <2>2, FS_Subset
    <3>3. Cardinality(New) \in Nat
      BY <3>2, FS_CardinalityType
    <3>. QED
      BY <2>2, <3>2, <3>3
  <2>4. IsFiniteSet(Run) /\ Cardinality(Run) \in Nat
    BY <2>1, Finite
  <2>. HIDE DEF New, Run
  <2>5. IsFiniteSet(New \cap Run) /\ Cardinality(New \cap Run) \in Nat
    BY <2>3, FS_Intersection, FS_CardinalityType
  <2>6. Cardinality(New \cup Run) = Cardinality(New) + Cardinality(Run) - Cardinality(New \cap Run)
    BY <2>3, <2>4, FS_Union
  <2>. QED
    BY <1>1, <2>1, <2>3, <2>4, <2>5, <2>6
<1>11. Len(T) <= maxOps + Cardinality(Unfinished(T))
  <2>1. Cardinality(Run) \in Nat /\ Cardinality(Unfinished(T)) \in Nat
    BY <1>2, <1>3, Finite DEF Unfinished
  <2>. QED
    BY <2>1, <1>1, <1>3, <1>4, <1>9, <1>10
<1>. QED
  BY <1>3, <1>7, <1>8, <1>11 DEF T

\* logOp: a finished entry on top, the rest trimmed.
LEMMA LoggedOK ==
  ASSUME NEW l, NEW n \in Nat, LogOK(l, n)
  PROVE  LogOK(Fake!Trim(Fake!Prepended(l, Fake!Done(n + 1))), n + 1)
<1>. DEFINE P == Fake!Prepended(l, Fake!Done(n + 1))
            T == Fake!Trim(P)
<1>1. l \in Seq(Fake!Entry) /\ Len(l) \in Nat /\ MaxSeeds \in Nat
  BY LenProperties, WatchesBounds DEF LogOK
<1>2. /\ P \in Seq(Fake!Entry)
      /\ Len(P) = Len(l) + 1 /\ P[1] = Fake!Done(n + 1)
      /\ \A i \in 2 .. Len(l) + 1 : i - 1 \in 1 .. Len(l) /\ P[i] = l[i - 1]
  <2>1. Fake!Done(n + 1) \in Fake!Entry
    BY DEF Fake!Done, Fake!Entry
  <2>. QED
    BY <1>1, <2>1, OnTop
<1>3. /\ T \in Seq(Fake!Entry)
      /\ \E f \in [1 .. Len(T) -> 1 .. Len(P)] :
              /\ \A i \in 1 .. Len(T) : T[i] = P[f[i]]
              /\ \A i, j \in 1 .. Len(T) : i < j => f[i] < f[j]
      /\ Len(T) <= maxOps + Cardinality(Unfinished(T))
  BY <1>2, TrimKeeps
<1>. HIDE DEF P, T
<1>4. PICK f \in [1 .. Len(T) -> 1 .. Len(P)] :
              /\ \A i \in 1 .. Len(T) : T[i] = P[f[i]]
              /\ \A i, j \in 1 .. Len(T) : i < j => f[i] < f[j]
  BY <1>3
<1>5. \A i \in 1 .. Len(P) :
        P[i].id <= n + 1 /\ P[i].id \in Nat /\ (P[i].cancelable <=> P[i].status = "Running")
  <2>1. P[1].id = n + 1 /\ ~P[1].cancelable /\ P[1].status = "Success"
    BY <1>2 DEF Fake!Done
  <2>2. \A i \in 1 .. Len(l) :
          l[i].id <= n /\ l[i].id \in Nat /\ (l[i].cancelable <=> l[i].status = "Running")
    <3>1. \A i \in 1 .. Len(l) : l[i].id \in Nat
      BY <1>1, Numbered
    <3>. QED
      BY <3>1 DEF LogOK
  <2>3. \A i \in 1 .. Len(P) : i = 1 \/ i \in 2 .. Len(l) + 1
    BY <1>1, <1>2
  <2>4. ASSUME NEW i \in 2 .. Len(l) + 1
        PROVE  P[i].id <= n + 1 /\ P[i].id \in Nat /\ (P[i].cancelable <=> P[i].status = "Running")
    <3>1. i - 1 \in 1 .. Len(l) /\ P[i] = l[i - 1]
      BY <1>2
    <3>2. P[i].id <= n /\ P[i].id \in Nat /\ (P[i].cancelable <=> P[i].status = "Running")
      BY <3>1, <2>2
    <3>. QED
      BY <3>2
  <2>. QED
    BY <2>1, <2>3, <2>4
<1>6. \A i, j \in 1 .. Len(P) : i < j => P[i].id > P[j].id
  <2>. SUFFICES ASSUME NEW i \in 1 .. Len(P), NEW j \in 1 .. Len(P), i < j
                PROVE  P[i].id > P[j].id
    OBVIOUS
  <2>1. j \in 2 .. Len(l) + 1 /\ j - 1 \in 1 .. Len(l) /\ P[j] = l[j - 1] /\ P[j].id <= n
    BY <1>1, <1>2 DEF LogOK
  <2>2. CASE i = 1
    BY <2>1, <2>2, <1>2, <1>5 DEF Fake!Done
  <2>3. CASE i # 1
    <3>1. i - 1 \in 1 .. Len(l) /\ P[i] = l[i - 1] /\ i - 1 < j - 1
      BY <2>3, <1>1, <1>2
    <3>. QED
      BY <3>1, <2>1 DEF LogOK
  <2>. QED
    BY <2>2, <2>3
<1>7. Cardinality(Unfinished(T)) <= MaxSeeds
  <2>1. \A i \in Unfinished(T) : f[i] - 1 \in Unfinished(l)
    <3>. SUFFICES ASSUME NEW i \in Unfinished(T)
                  PROVE  f[i] - 1 \in Unfinished(l)
      OBVIOUS
    <3>1. i \in 1 .. Len(T) /\ f[i] \in 1 .. Len(P) /\ P[f[i]].status # "Success"
      BY <1>4 DEF Unfinished
    <3>2. f[i] # 1
      BY <3>1, <1>2 DEF Fake!Done
    <3>3. f[i] - 1 \in 1 .. Len(l) /\ P[f[i]] = l[f[i] - 1]
      BY <3>1, <3>2, <1>1, <1>2
    <3>. QED
      BY <3>1, <3>3 DEF Unfinished
  <2>. DEFINE g == [i \in Unfinished(T) |-> f[i] - 1]
  <2>2. g \in [Unfinished(T) -> Unfinished(l)]
    BY <2>1
  <2>3. \A i, j \in Unfinished(T) : g[i] = g[j] => i = j
    <3>. SUFFICES ASSUME NEW i \in Unfinished(T), NEW j \in Unfinished(T), g[i] = g[j]
                  PROVE  i = j
      OBVIOUS
    <3>1. i \in 1 .. Len(T) /\ j \in 1 .. Len(T) /\ i \in Nat /\ j \in Nat
      BY DEF Unfinished
    <3>2. f[i] \in Nat /\ f[j] \in Nat /\ f[i] - 1 = f[j] - 1
      BY <3>1, <1>4
    <3>3. ~(i < j) /\ ~(j < i)
      BY <3>1, <3>2, <1>4
    <3>. QED
      BY <3>1, <3>3
  <2>4. IsFiniteSet(Unfinished(l)) /\ Cardinality(Unfinished(l)) \in Nat
    BY <1>1, Finite DEF Unfinished
  <2>5. Cardinality(Unfinished(T)) \in Nat
    BY <1>3, Finite DEF Unfinished
  <2>. HIDE DEF g
  <2>6. Cardinality(Unfinished(T)) <= Cardinality(Unfinished(l))
    BY <2>2, <2>3, <2>4, Injects
  <2>. QED
    BY <1>1, <2>4, <2>5, <2>6 DEF LogOK
<1>8. \A i \in 1 .. Len(T) :
        T[i].id <= n + 1 /\ (T[i].cancelable <=> T[i].status = "Running")
  BY <1>4, <1>5
<1>9. \A i, j \in 1 .. Len(T) : i < j => T[i].id > T[j].id
  BY <1>4, <1>6
<1>10. LogOK(T, n + 1)
  BY <1>3, <1>7, <1>8, <1>9 DEF LogOK
<1>. QED
  BY <1>10 DEF T, P

\* A seeded entry adds one to the log and one to what is unfinished in it.
LEMMA SeededOK ==
  ASSUME NEW l, NEW n \in Nat, LogOK(l, n), Cardinality(Unfinished(l)) < MaxSeeds
  PROVE  LogOK(Fake!Prepended(l, Fake!Running(n + 1)), n + 1)
<1>. DEFINE P == Fake!Prepended(l, Fake!Running(n + 1))
            U == Unfinished(l)
            g == [i \in U |-> i + 1]
            h == [i \in Unfinished(P) \ {1} |-> i - 1]
<1>1. l \in Seq(Fake!Entry) /\ Len(l) \in Nat /\ MaxSeeds \in Nat /\ maxOps \in Nat
  BY LenProperties, WatchesBounds DEF LogOK
<1>2. /\ P \in Seq(Fake!Entry)
      /\ Len(P) = Len(l) + 1 /\ P[1] = Fake!Running(n + 1)
      /\ \A i \in 2 .. Len(l) + 1 : i - 1 \in 1 .. Len(l) /\ P[i] = l[i - 1]
      /\ \A i \in 1 .. Len(l) : P[i + 1] = l[i]
  <2>1. Fake!Running(n + 1) \in Fake!Entry
    BY DEF Fake!Running, Fake!Entry
  <2>. QED
    BY <1>1, <2>1, OnTop
<1>3. P[1].id = n + 1 /\ P[1].cancelable /\ P[1].status = "Running"
  BY <1>2 DEF Fake!Running
<1>. HIDE DEF P
<1>4. \A i \in 1 .. Len(P) : i = 1 \/ (i \in 2 .. Len(l) + 1 /\ i - 1 \in 1 .. Len(l))
  BY <1>1, <1>2
<1>5. \A i \in 1 .. Len(P) : P[i].id <= n + 1 /\ (P[i].cancelable <=> P[i].status = "Running")
  <2>1. \A i \in 1 .. Len(l) : l[i].id \in Nat
    BY <1>1, Numbered
  <2>2. \A i \in 1 .. Len(l) : l[i].id <= n + 1 /\ (l[i].cancelable <=> l[i].status = "Running")
    BY <2>1 DEF LogOK
  <2>. QED
    BY <1>2, <1>3, <1>4, <2>2
<1>6. \A i, j \in 1 .. Len(P) : i < j => P[i].id > P[j].id
  <2>. SUFFICES ASSUME NEW i \in 1 .. Len(P), NEW j \in 1 .. Len(P), i < j
                PROVE  P[i].id > P[j].id
    OBVIOUS
  <2>1. j \in 2 .. Len(l) + 1 /\ j - 1 \in 1 .. Len(l) /\ P[j] = l[j - 1] /\ P[j].id <= n
    <3>1. j \in 2 .. Len(l) + 1
      BY <1>1, <1>2
    <3>2. j - 1 \in 1 .. Len(l) /\ P[j] = l[j - 1]
      BY <1>2, <3>1
    <3>3. l[j - 1].id <= n
      BY <3>2 DEF LogOK
    <3>. QED
      BY <3>1, <3>2, <3>3
  <2>2. CASE i = 1
    <3>1. P[j].id \in Nat
      BY <1>2, Numbered
    <3>. QED
      BY <2>1, <2>2, <1>3, <3>1
  <2>3. CASE i # 1
    <3>1. i - 1 \in 1 .. Len(l) /\ P[i] = l[i - 1] /\ i - 1 < j - 1
      BY <2>3, <1>1, <1>2, <1>4
    <3>. QED
      BY <3>1, <2>1 DEF LogOK
  <2>. QED
    BY <2>2, <2>3
<1>7. IsFiniteSet(U) /\ Cardinality(U) \in Nat
  BY <1>1, Finite DEF Unfinished
<1>8. IsFiniteSet(Unfinished(P)) /\ Cardinality(Unfinished(P)) \in Nat
  BY <1>2, Finite DEF Unfinished
<1>9. 1 \in Unfinished(P)
  BY <1>1, <1>2, <1>3 DEF Unfinished
<1>10. IsFiniteSet(Unfinished(P) \ {1}) /\ Cardinality(Unfinished(P) \ {1}) = Cardinality(Unfinished(P)) - 1
  BY <1>8, <1>9, FS_RemoveElement
<1>11. Cardinality(U) <= Cardinality(Unfinished(P) \ {1})
  <2>1. g \in [U -> Unfinished(P) \ {1}]
    BY <1>1, <1>2 DEF Unfinished
  <2>2. \A i, j \in U : g[i] = g[j] => i = j
    BY DEF Unfinished
  <2>. QED
    BY <1>10, <2>1, <2>2, Injects
<1>12. Cardinality(Unfinished(P) \ {1}) <= Cardinality(U)
  <2>1. h \in [Unfinished(P) \ {1} -> U]
    BY <1>2, <1>4 DEF Unfinished
  <2>2. \A i, j \in Unfinished(P) \ {1} : h[i] = h[j] => i = j
    BY DEF Unfinished
  <2>. QED
    BY <1>7, <2>1, <2>2, Injects
<1>13. Cardinality(Unfinished(P)) = Cardinality(U) + 1
  BY <1>7, <1>8, <1>10, <1>11, <1>12
<1>14. LogOK(P, n + 1)
  BY <1>1, <1>2, <1>5, <1>6, <1>7, <1>13 DEF LogOK
<1>. QED
  BY <1>14 DEF P

\* A cancellation changes neither the numbers nor what is unfinished.
LEMMA CancelledOK ==
  ASSUME NEW l, NEW n \in Nat, LogOK(l, n), NEW i \in 1 .. Len(l), l[i].cancelable
  PROVE  LogOK([l EXCEPT ![i] = [@ EXCEPT !.status = "Cancelled", !.cancelable = FALSE]], n)
<1>. DEFINE c == [l[i] EXCEPT !.status = "Cancelled", !.cancelable = FALSE]
            C == [l EXCEPT ![i] = c]
<1>1. l \in Seq(Fake!Entry) /\ l[i] \in Fake!Entry
  BY ElementOfSeq DEF LogOK
<1>2. c \in Fake!Entry /\ c.id = l[i].id /\ c.status = "Cancelled" /\ ~c.cancelable
  BY <1>1 DEF Fake!Entry
<1>. HIDE DEF c
<1>3. /\ C \in Seq(Fake!Entry) /\ Len(C) = Len(l)
      /\ \A j \in 1 .. Len(l) : C[j] = IF j = i THEN c ELSE l[j]
  BY <1>1, <1>2, ExceptSeq, LenProperties
<1>. HIDE DEF C
<1>4. \A j \in 1 .. Len(l) : C[j].id = l[j].id
  BY <1>2, <1>3
<1>5. \A j \in 1 .. Len(l) : C[j].id <= n /\ (C[j].cancelable <=> C[j].status = "Running")
  BY <1>2, <1>3 DEF LogOK
<1>6. Unfinished(C) = Unfinished(l)
  <2>1. l[i].status # "Success"
    BY DEF LogOK
  <2>. QED
    BY <1>2, <1>3, <2>1 DEF Unfinished
<1>7. LogOK(C, n)
  BY <1>3, <1>4, <1>5, <1>6 DEF LogOK
<1>. QED
  BY <1>7 DEF C, c

-----------------------------------------------------------------------------
(* The in-memory backend and its watchers.                                 *)

LogInv ==
  /\ log \in [Spaces -> Seq(Fake!Entry)]
  /\ opSeq \in [Spaces -> 0 .. MaxSeq]
  /\ \A s \in Spaces : LogOK(log[s], opSeq[s])
  /\ seeded \subseteq Nat
  /\ RunningStaysVisible

\* A watcher's registration, channel and ghost follow the stage of its watch.
WatcherInv ==
  /\ chan \in [Watchers -> [pending : BOOLEAN, open : BOOLEAN]]
  /\ calls \in [Watchers -> {"none", "on", "cancelled", "unregistered", "closed"}]
  /\ stale \in [Watchers -> BOOLEAN]
  /\ watchers = {w \in Watchers : calls[w] \in {"on", "cancelled"}}
  /\ \A w \in Watchers :
       /\ chan[w].open <=> calls[w] # "closed"
       /\ calls[w] = "none" => ~stale[w] /\ ~chan[w].pending
       /\ w \in watchers /\ stale[w] => chan[w].pending

\* Ticking the watchers is sound for them.
LEMMA NotifyInv ==
  ASSUME WatcherInv, Fake!NotifyOpWatchers, UNCHANGED <<watchers, calls>>
  PROVE  WatcherInv'
<1>1. \A w \in Watchers :
        /\ chan'[w] = IF w \in watchers /\ ~chan[w].pending
                        THEN [chan[w] EXCEPT !.pending = TRUE] ELSE chan[w]
        /\ stale'[w] = (stale[w] \/ calls[w] \in {"on", "cancelled"})
  BY DEF Fake!NotifyOpWatchers, Fake!Full
<1>2. chan' \in [Watchers -> [pending : BOOLEAN, open : BOOLEAN]]
  <2>1. \A w \in Watchers : chan[w] \in [pending : BOOLEAN, open : BOOLEAN]
    BY DEF WatcherInv
  <2>2. \A w \in Watchers : [chan[w] EXCEPT !.pending = TRUE] \in [pending : BOOLEAN, open : BOOLEAN]
    BY <2>1
  <2>. QED
    BY <2>1, <2>2 DEF Fake!NotifyOpWatchers
<1>3. stale' \in [Watchers -> BOOLEAN]
  BY DEF Fake!NotifyOpWatchers
<1>4. \A w \in Watchers :
        /\ chan'[w].open <=> chan[w].open
        /\ chan'[w].pending <=> chan[w].pending \/ w \in watchers
  BY <1>1 DEF WatcherInv
<1>5. \A w \in Watchers : stale'[w] => stale[w] \/ w \in watchers
  BY <1>1 DEF WatcherInv
<1>6. \A w \in Watchers : calls[w] = "none" => ~(w \in watchers)
  BY DEF WatcherInv
<1>. QED
  BY <1>2, <1>3, <1>4, <1>5, <1>6 DEF WatcherInv

\* The stages of a watch, and its consumer.
LEMMA StageInv ==
  ASSUME WatcherInv, NEW w \in Watchers, Fake!WatcherStep(w)
  PROVE  WatcherInv'
<1>. USE DEF WatcherInv
<1>1. CASE Fake!WatchOperations(w)
  BY <1>1 DEF Fake!WatchOperations
<1>2. CASE Fake!CtxDone(w)
  BY <1>2 DEF Fake!CtxDone
<1>3. CASE Fake!Unregister(w)
  BY <1>3 DEF Fake!Unregister, Fake!Remaining
<1>4. CASE Fake!Close(w)
  BY <1>4 DEF Fake!Close
<1>5. CASE Fake!Receive(w)
  BY <1>5 DEF Fake!Receive
<1>. QED
  BY <1>1, <1>2, <1>3, <1>4, <1>5 DEF Fake!WatcherStep

\* Every mutation logs without losing a running operation.
LEMMA LogOpInv ==
  ASSUME LogInv, NEW s \in Spaces, Fake!LogOp(s)
  PROVE  LogInv'
<1>. DEFINE P == Fake!Prepended(log[s], Fake!Done(opSeq[s] + 1))
            T == Fake!Trim(P)
<1>1. /\ log[s] \in Seq(Fake!Entry) /\ opSeq[s] \in Nat /\ opSeq[s] + 1 \in 0 .. MaxSeq
      /\ LogOK(log[s], opSeq[s]) /\ MaxSeq \in Nat
  BY WatchesBounds DEF LogInv, Fake!LogOp
<1>2. LogOK(T, opSeq[s] + 1) /\ T \in Seq(Fake!Entry)
  BY <1>1, LoggedOK DEF LogOK
<1>3. P \in Seq(Fake!Entry) /\ \A i \in 1 .. Len(log[s]) : P[i + 1] = log[s][i] /\ i + 1 \in 1 .. Len(P)
  <2>1. Fake!Done(opSeq[s] + 1) \in Fake!Entry
    BY <1>1 DEF Fake!Done, Fake!Entry
  <2>2. Len(log[s]) \in Nat
    BY <1>1, LenProperties
  <2>3. /\ P \in Seq(Fake!Entry) /\ Len(P) = Len(log[s]) + 1 /\ P[1] = Fake!Done(opSeq[s] + 1)
        /\ \A i \in 1 .. Len(log[s]) : P[i + 1] = log[s][i]
    BY <1>1, <2>1, OnTop
  <2>. HIDE DEF P
  <2>. QED
    BY <2>2, <2>3
<1>4. \A i \in 1 .. Len(P) : P[i].status = "Running" => \E k \in 1 .. Len(T) : T[k] = P[i]
  BY <1>3, TrimKeeps
<1>5. /\ log' = [log EXCEPT ![s] = T]
      /\ opSeq' = [opSeq EXCEPT ![s] = opSeq[s] + 1]
      /\ seeded' = seeded
  BY DEF Fake!LogOp
<1>. HIDE DEF P, T
<1>6. log' \in [Spaces -> Seq(Fake!Entry)] /\ opSeq' \in [Spaces -> 0 .. MaxSeq]
  BY <1>1, <1>2, <1>5 DEF LogInv
<1>7. \A x \in Spaces : LogOK(log'[x], opSeq'[x])
  <2>1. \A x \in Spaces : x # s => log'[x] = log[x] /\ opSeq'[x] = opSeq[x]
    BY <1>5 DEF LogInv
  <2>2. log'[s] = T /\ opSeq'[s] = opSeq[s] + 1
    BY <1>5 DEF LogInv
  <2>. QED
    BY <1>2, <2>1, <2>2 DEF LogInv
<1>8. RunningStaysVisible'
  <2>. SUFFICES ASSUME NEW n \in seeded
                PROVE  \E i \in 1 .. Len(log'[DefaultSpace]) : log'[DefaultSpace][i] = Fake!Running(n)
    BY <1>5 DEF RunningStaysVisible, Fake!RunningStaysVisible
  <2>1. PICK i \in 1 .. Len(log[DefaultSpace]) : log[DefaultSpace][i] = Fake!Running(n)
    BY DEF LogInv, RunningStaysVisible, Fake!RunningStaysVisible
  <2>2. CASE s = DefaultSpace
    <3>1. P[i + 1] = Fake!Running(n) /\ i + 1 \in 1 .. Len(P)
      BY <1>3, <2>1, <2>2
    <3>2. \E k \in 1 .. Len(T) : T[k] = Fake!Running(n)
      BY <1>4, <3>1 DEF Fake!Running
    <3>3. log'[DefaultSpace] = T
      BY <1>5, <2>2 DEF LogInv
    <3>. QED
      BY <3>2, <3>3
  <2>3. CASE s # DefaultSpace
    <3>1. log'[DefaultSpace] = log[DefaultSpace]
      BY <1>5, <2>3, WatchesBounds DEF LogInv
    <3>. QED
      BY <2>1, <3>1
  <2>. QED
    BY <2>2, <2>3
<1>. QED
  BY <1>5, <1>6, <1>7, <1>8 DEF LogInv

\* A seed is on top of its log.
LEMMA SeedInv ==
  ASSUME LogInv, Fake!SeedRunningOperation
  PROVE  LogInv'
<1>. DEFINE s == DefaultSpace
            n == opSeq[s] + 1
            P == Fake!Prepended(log[s], Fake!Running(n))
<1>1. /\ s \in Spaces /\ log[s] \in Seq(Fake!Entry) /\ opSeq[s] \in Nat /\ n \in 0 .. MaxSeq
      /\ LogOK(log[s], opSeq[s]) /\ MaxSeq \in Nat /\ n \in Nat
  BY WatchesBounds DEF LogInv, Fake!SeedRunningOperation
<1>2. Cardinality(Unfinished(log[s])) < MaxSeeds
  <2>1. DOMAIN log[s] = 1 .. Len(log[s])
    BY <1>1, LenProperties
  <2>2. Fake!Unfinished(log[s]) = Unfinished(log[s])
    BY <2>1 DEF Fake!Unfinished, Unfinished
  <2>. QED
    BY <2>2, SameCardinality DEF Fake!SeedRunningOperation
<1>3. LogOK(P, n) /\ P \in Seq(Fake!Entry)
  BY <1>1, <1>2, SeededOK DEF LogOK
<1>4. /\ P[1] = Fake!Running(n) /\ Len(P) = Len(log[s]) + 1 /\ Len(log[s]) \in Nat
      /\ \A i \in 1 .. Len(log[s]) : P[i + 1] = log[s][i] /\ i + 1 \in 1 .. Len(P)
  <2>1. Fake!Running(n) \in Fake!Entry
    BY <1>1 DEF Fake!Running, Fake!Entry
  <2>2. Len(log[s]) \in Nat
    BY <1>1, LenProperties
  <2>3. /\ P \in Seq(Fake!Entry) /\ Len(P) = Len(log[s]) + 1 /\ P[1] = Fake!Running(n)
        /\ \A i \in 1 .. Len(log[s]) : P[i + 1] = log[s][i]
    BY <1>1, <2>1, OnTop
  <2>. HIDE DEF P
  <2>. QED
    BY <2>2, <2>3
<1>5. /\ log' = [log EXCEPT ![s] = P]
      /\ opSeq' = [opSeq EXCEPT ![s] = n]
      /\ seeded' = seeded \cup {n}
  BY DEF Fake!SeedRunningOperation
<1>. HIDE DEF P
<1>6. log' \in [Spaces -> Seq(Fake!Entry)] /\ opSeq' \in [Spaces -> 0 .. MaxSeq] /\ log'[s] = P
  BY <1>1, <1>3, <1>5 DEF LogInv
<1>7. \A x \in Spaces : LogOK(log'[x], opSeq'[x])
  <2>1. \A x \in Spaces : x # s => log'[x] = log[x] /\ opSeq'[x] = opSeq[x]
    BY <1>5 DEF LogInv
  <2>2. opSeq'[s] = n
    BY <1>1, <1>5 DEF LogInv
  <2>. HIDE DEF s, n
  <2>. QED
    BY <1>3, <1>6, <2>1, <2>2 DEF LogInv
<1>8. RunningStaysVisible'
  <2>. SUFFICES ASSUME NEW m \in seeded'
                PROVE  \E i \in 1 .. Len(log'[s]) : log'[s][i] = Fake!Running(m)
    BY DEF RunningStaysVisible, Fake!RunningStaysVisible
  <2>1. CASE m = n
    BY <1>4, <1>6, <2>1
  <2>2. CASE m \in seeded
    <3>1. PICK i \in 1 .. Len(log[s]) : log[s][i] = Fake!Running(m)
      BY <2>2 DEF LogInv, RunningStaysVisible, Fake!RunningStaysVisible
    <3>. QED
      BY <1>4, <1>6, <3>1
  <2>. QED
    BY <1>5, <2>1, <2>2
<1>. QED
  BY <1>1, <1>5, <1>6, <1>7, <1>8 DEF LogInv

\* A cancellation hides only what it cancels.
LEMMA CancelInv ==
  ASSUME LogInv, NEW s \in Spaces, NEW i \in 1 .. Len(log[s]), Fake!CancelOperation(s, i)
  PROVE  LogInv'
<1>. DEFINE e == log[s][i]
            C == [log[s] EXCEPT ![i] = [@ EXCEPT !.status = "Cancelled", !.cancelable = FALSE]]
<1>1. log[s] \in Seq(Fake!Entry) /\ opSeq[s] \in Nat /\ LogOK(log[s], opSeq[s]) /\ e.cancelable
  BY WatchesBounds DEF LogInv, Fake!CancelOperation, Fake!MayCancel
<1>2. LogOK(C, opSeq[s]) /\ C \in Seq(Fake!Entry)
  <2>1. LogOK(C, opSeq[s])
    BY <1>1, CancelledOK
  <2>. QED
    BY <2>1 DEF LogOK
<1>3. Len(C) = Len(log[s]) /\ \A j \in 1 .. Len(log[s]) : j # i => C[j] = log[s][j]
  BY <1>1, LenProperties
<1>4. /\ log' = [log EXCEPT ![s] = C]
      /\ opSeq' = opSeq
      /\ seeded' = IF s = DefaultSpace THEN seeded \ {e.id} ELSE seeded
  BY DEF Fake!CancelOperation
<1>. HIDE DEF C
<1>5. log' \in [Spaces -> Seq(Fake!Entry)] /\ log'[s] = C
  BY <1>2, <1>4 DEF LogInv
<1>6. \A x \in Spaces : LogOK(log'[x], opSeq'[x])
  <2>1. \A x \in Spaces : x # s => log'[x] = log[x]
    BY <1>4 DEF LogInv
  <2>. QED
    BY <1>2, <1>4, <1>5, <2>1 DEF LogInv
<1>7. RunningStaysVisible'
  <2>. SUFFICES ASSUME NEW n \in seeded'
                PROVE  \E j \in 1 .. Len(log'[DefaultSpace]) : log'[DefaultSpace][j] = Fake!Running(n)
    BY DEF RunningStaysVisible, Fake!RunningStaysVisible
  <2>1. n \in seeded /\ (s = DefaultSpace => n # e.id)
    BY <1>4
  <2>2. PICK j \in 1 .. Len(log[DefaultSpace]) : log[DefaultSpace][j] = Fake!Running(n)
    BY <2>1 DEF LogInv, RunningStaysVisible, Fake!RunningStaysVisible
  <2>3. CASE s = DefaultSpace
    <3>1. j # i
      BY <2>1, <2>2, <2>3 DEF Fake!Running
    <3>. QED
      BY <1>3, <1>5, <2>2, <2>3, <3>1
  <2>4. CASE s # DefaultSpace
    <3>1. log'[DefaultSpace] = log[DefaultSpace]
      BY <1>4, <2>4, WatchesBounds DEF LogInv
    <3>. QED
      BY <2>2, <3>1
  <2>. QED
    BY <2>3, <2>4
<1>8. seeded' \subseteq Nat
  BY <1>4 DEF LogInv
<1>. QED
  BY <1>4, <1>5, <1>6, <1>7, <1>8 DEF LogInv

FakeInv == LogInv /\ WatcherInv

\* The initial state of the backend.
LEMMA FakeStarts == Fake!Init => FakeInv
<1> SUFFICES ASSUME Fake!Init
             PROVE  FakeInv
  OBVIOUS
<1>1. log = [s \in Spaces |-> <<>>] /\ opSeq = [s \in Spaces |-> 0] /\ seeded = {}
  BY DEF Fake!Init
<1>2. LogOK(<<>>, 0)
  <2>1. <<>> \in Seq(Fake!Entry) /\ Len(<<>>) = 0 /\ 1 .. 0 = {}
    OBVIOUS
  <2>2. Unfinished(<<>>) = {}
    BY <2>1 DEF Unfinished
  <2>3. Cardinality(Unfinished(<<>>)) = 0
    BY <2>2, FS_EmptySet
  <2>4. maxOps \in Nat /\ MaxSeeds \in Nat
    BY WatchesBounds
  <2>. QED
    BY <2>1, <2>3, <2>4 DEF LogOK
<1>3. 0 \in 0 .. MaxSeq
  BY WatchesBounds
<1>4. LogInv
  BY <1>1, <1>2, <1>3 DEF LogInv, RunningStaysVisible, Fake!RunningStaysVisible
<1>5. WatcherInv
  BY DEF Fake!Init, WatcherInv
<1>. QED
  BY <1>4, <1>5 DEF FakeInv

\* The backend's steps preserve the invariant.
LEMMA FakeStep ==
  ASSUME FakeInv, [Fake!Next]_fake
  PROVE  FakeInv'
<1>1. ASSUME NEW s \in Spaces, Fake!LogOp(s)
      PROVE  FakeInv'
  BY <1>1, LogOpInv, NotifyInv DEF FakeInv, Fake!LogOp
<1>2. ASSUME NEW s \in Spaces, NEW i \in 1 .. Len(log[s]), Fake!CancelOperation(s, i)
      PROVE  FakeInv'
  BY <1>2, CancelInv, NotifyInv DEF FakeInv, Fake!CancelOperation
<1>3. CASE Fake!SeedRunningOperation
  BY <1>3, SeedInv, NotifyInv DEF FakeInv, Fake!SeedRunningOperation
<1>4. ASSUME NEW w \in Watchers, Fake!WatcherStep(w)
      PROVE  FakeInv'
  <2>1. UNCHANGED <<log, opSeq, seeded>>
    BY <1>4 DEF Fake!WatcherStep, Fake!WatchOperations, Fake!CtxDone, Fake!Unregister, Fake!Close,
                Fake!Receive
  <2>2. LogInv'
    BY <2>1 DEF FakeInv, LogInv, RunningStaysVisible, Fake!RunningStaysVisible
  <2>. QED
    BY <1>4, <2>2, StageInv DEF FakeInv
<1>5. CASE UNCHANGED fake
  BY <1>5 DEF fake, FakeInv, LogInv, WatcherInv, RunningStaysVisible, Fake!RunningStaysVisible
<1>. QED
  BY <1>1, <1>2, <1>3, <1>4, <1>5 DEF Fake!Next

\* The invariant gives FakeOperations its type.
LEMMA FakeTyped == FakeInv => Fake!TypeOK
<1> SUFFICES ASSUME FakeInv
             PROVE  Fake!TypeOK
  OBVIOUS
<1>1. ASSUME NEW s \in Spaces
      PROVE  Len(log[s]) <= maxOps + MaxSeeds
  <2>1. LogOK(log[s], opSeq[s]) /\ log[s] \in Seq(Fake!Entry)
    BY DEF FakeInv, LogInv
  <2>2. Unfinished(log[s]) \in SUBSET (1 .. Len(log[s]))
    BY DEF Unfinished
  <2>3. Cardinality(Unfinished(log[s])) \in Nat /\ Len(log[s]) \in Nat /\ maxOps \in Nat /\ MaxSeeds \in Nat
    BY <2>1, <2>2, Finite, LenProperties, WatchesBounds
  <2>. QED
    BY <2>1, <2>3 DEF LogOK
<1>. QED
  BY <1>1 DEF FakeInv, LogInv, LogOK, WatcherInv, Fake!TypeOK

-----------------------------------------------------------------------------
(* The three clients.                                                      *)

\* The first states of all three.
LEMMA WatchesStart == WatchesInit => EventsInv /\ FakeInv /\ ConsoleInv
<1> SUFFICES ASSUME WatchesInit
             PROVE  EventsInv /\ FakeInv /\ ConsoleInv
  OBVIOUS
<1>1. EventsInv
  BY EventsInitInv DEF WatchesInit, EventsInit
<1>. QED
  BY <1>1, FakeStarts, ConsoleStarts DEF WatchesInit

\* A step of one leaves the others alone.
LEMMA WatchesStep ==
  ASSUME EventsInv, FakeInv, ConsoleInv, [WatchesNext]_<<driver, allVars, fake, console>>
  PROVE  EventsInv' /\ FakeInv' /\ ConsoleInv'
<1>1. [EventsNext]_allVars /\ [Fake!Next]_fake /\ [Term!Next]_console
  BY DEF WatchesNext
<1>. QED
  BY <1>1, EventsNextInv, FakeStep, ConsoleStep

\* Every watch, log and console is well typed; no log outgrows its cap by more
\* than the running operations kept in it, and each is newest first.
THEOREM WatchesTyped == WatchesSpec => []WatchesTypeOK
<1>1. EventsInv /\ FakeInv /\ ConsoleInv => WatchesTypeOK
  BY FakeTyped DEF EventsInv, ConsoleInv, WatchesTypeOK
<1>. QED
  BY <1>1, WatchesStart, WatchesStep, PTL DEF WatchesSpec

\* consoleWS never gives up the newest size of the window for an older one,
\* whatever the order of its attempts and of execControl's receives.
THEOREM TheNewestSizeWins == WatchesSpec => []NewestSizeWins
<1>1. ConsoleInv => NewestSizeWins
  BY DEF ConsoleInv
<1>. QED
  BY <1>1, WatchesStart, WatchesStep, PTL DEF WatchesSpec

\* logOp's trimming never takes a running operation off the list.
THEOREM RunningTasksStay == WatchesSpec => []RunningStaysVisible
<1>1. FakeInv => RunningStaysVisible
  BY DEF FakeInv, LogInv
<1>. QED
  BY <1>1, WatchesStart, WatchesStep, PTL DEF WatchesSpec

\* A registered watcher that has not seen a change has a tick to receive.
THEOREM WatcherIsTicked == WatchesSpec => []WatcherSees
<1>1. FakeInv => WatcherSees
  BY DEF FakeInv, WatcherInv, WatcherSees, Fake!WatcherSees
<1>. QED
  BY <1>1, WatchesStart, WatchesStep, PTL DEF WatchesSpec

\* What a step of the backend is to the contract of one watch.
LEMMA FakeRefines ==
  ASSUME FakeInv, Fake!Next, NEW w \in Watchers
  PROVE  [Fake!Ticks(w)!Next]_(Fake!Ticks(w)!vars)
<1>. USE DEF FakeInv, WatcherInv, Fake!Ticks!vars
<1>1. CASE Fake!NotifyOpWatchers /\ UNCHANGED <<watchers, calls>>
  <2>1. chan'[w] = IF w \in watchers /\ ~chan[w].pending
                     THEN [chan[w] EXCEPT !.pending = TRUE] ELSE chan[w]
    BY <1>1 DEF Fake!NotifyOpWatchers, Fake!Full
  <2>2. CASE w \in watchers
    <3>1. chan'[w].pending = TRUE /\ chan'[w].open = chan[w].open /\ chan[w].open /\ calls[w] # "none"
      BY <2>1, <2>2
    <3>. QED
      BY <1>1, <3>1 DEF Fake!Ticks!Next, Fake!Ticks!Change
  <2>3. CASE w \notin watchers
    BY <1>1, <2>1, <2>3
  <2>. QED
    BY <2>2, <2>3
<1>2. ASSUME NEW x \in Watchers, Fake!WatcherStep(x), x # w
      PROVE  chan'[w] = chan[w] /\ calls'[w] = calls[w]
  BY <1>2 DEF Fake!WatcherStep, Fake!WatchOperations, Fake!CtxDone, Fake!Unregister, Fake!Close,
              Fake!Receive
<1>3. CASE Fake!WatchOperations(w)
  BY <1>3 DEF Fake!WatchOperations, Fake!Ticks!Next, Fake!Ticks!Watch
<1>4. CASE Fake!CtxDone(w) \/ Fake!Unregister(w)
  BY <1>4 DEF Fake!CtxDone, Fake!Unregister
<1>5. CASE Fake!Close(w)
  BY <1>5 DEF Fake!Close, Fake!Ticks!Next, Fake!Ticks!Close
<1>6. CASE Fake!Receive(w)
  BY <1>6 DEF Fake!Receive, Fake!Ticks!Next, Fake!Ticks!Receive
<1>. QED
  BY <1>1, <1>2, <1>3, <1>4, <1>5, <1>6
     DEF Fake!Next, Fake!LogOp, Fake!CancelOperation, Fake!SeedRunningOperation, Fake!WatcherStep

\* The in-memory driver implements the contract of Backend.WatchOperations for
\* every caller, although a channel is closed outside the mutex.
THEOREM FakeKeepsContract == WatchesSpec => FakeContract
<1>1. WatchesInit => \A w \in Watchers : Fake!Ticks(w)!Init
  BY DEF WatchesInit, Fake!Init, Fake!Ticks!Init
<1>2. FakeInv /\ [WatchesNext]_<<driver, allVars, fake, console>> =>
        [\A w \in Watchers : [Fake!Ticks(w)!Next]_(Fake!Ticks(w)!vars)]_Fake!vars
  <2> SUFFICES ASSUME FakeInv, [WatchesNext]_<<driver, allVars, fake, console>>
               PROVE  (\A w \in Watchers : [Fake!Ticks(w)!Next]_(Fake!Ticks(w)!vars))
                      \/ UNCHANGED Fake!vars
    OBVIOUS
  <2>1. Fake!Next \/ UNCHANGED Fake!vars
    BY DEF WatchesNext, fake, Fake!vars
  <2>. QED
    BY <2>1, FakeRefines
<1>. QED
  BY <1>1, <1>2, WatchesStart, WatchesStep, PTL DEF WatchesSpec, FakeContract, Fake!Contract
=============================================================================
