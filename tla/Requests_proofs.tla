--------------------------- MODULE Requests_proofs --------------------------
(***************************************************************************)
(* Proofs about BulkActions (the daemon is not flooded, the summary is     *)
(* true), Export (nothing is left of a download that nobody is told of)    *)
(* and Requests (errors are true, answers tell what is done, halves are    *)
(* undone, nothing newer is overwritten), as MC_Requests puts them         *)
(* together.                                                               *)
(***************************************************************************)
EXTENDS MC_Requests, FiniteSetTheorems, SequenceTheorems, TLAPS

-----------------------------------------------------------------------------
(* Bulk actions.                                                           *)

\* Goroutines that hold a slot.
Working == {"look", "call", "wait", "return"}
Active == {i \in Indices : worker[i].pc \in Working}

\* The operations a goroutine of this request may have before it.
Todos == IF action = "delete" THEN {<<"delete">>, <<"stop", "delete">>} ELSE {<<action>>}

WorkerOK(w) ==
  /\ w.todo \in Todos \cup {<<>>}
  /\ w.pc \in {"none", "look"} => w.todo = <<>> /\ w.op = "none" /\ ~w.failed /\ ~w.cut
  /\ w.pc = "look" => action = "delete"
  /\ w.pc = "call" => w.todo # <<>> /\ w.op = "none" /\ ~w.failed /\ ~w.cut
  /\ w.pc = "wait" => w.todo # <<>> /\ w.op # "none" /\ ~w.failed /\ ~w.cut
  /\ w.pc \in {"return", "done"} =>
       IF w.failed THEN w.op = "running" => w.cut
                   ELSE w.op = "succeeded" /\ Len(w.todo) = 1 /\ ~w.cut
  /\ w.op = "running" => w.todo # <<>>

\* What an operation that has deleted the instance leaves.
DeletedBy(i) ==
  action = "delete" /\ elsewhere = 0 /\ worker[i].op = "succeeded"
    /\ Head(worker[i].todo) = "delete"

SummaryOK ==
  answer.sent = "summary" =>
    \A i \in Indices :
      /\ worker[i].pc = "done"
      /\ i \in answer.failed <=> worker[i].failed
      /\ action = "delete" /\ elsewhere = 0 /\ i \notin answer.failed
           => names[i] \notin answer.table

BulkInv ==
  /\ TypeOK
  /\ \A i \in Indices : WorkerOK(worker[i]) /\ (worker[i].pc = "none" <=> i > spawned)
  /\ slots = Cardinality(Active)
  /\ wg = Cardinality(Active)
  /\ \A i \in Indices : DeletedBy(i) => inst[names[i]] = "absent"
  /\ SummaryOK

\* The indices of a request are the numbers up to the length of its list.
LEMMA IndexRange ==
  ASSUME TypeOK
  PROVE  /\ names \in Seq(Names) /\ Len(names) \in Nat
         /\ Indices = 1 .. Len(names)
         /\ IsFiniteSet(Indices) /\ Cardinality(Indices) = Len(names)
         /\ IsFiniteSet(Active) /\ Cardinality(Active) \in 0 .. Len(names)
<1>1. names \in Seq(Names)
  BY BulkAssumption DEF TypeOK
<1>2. Len(names) \in Nat /\ Indices = 1 .. Len(names)
  BY <1>1, LenProperties DEF Indices
<1>3. IsFiniteSet(Indices) /\ Cardinality(Indices) = Len(names)
  BY <1>2, FS_Interval
<1>4. Active \subseteq Indices
  BY DEF Active
<1>5. IsFiniteSet(Active) /\ Cardinality(Active) <= Cardinality(Indices)
  BY <1>3, <1>4, FS_Subset
<1>6. Cardinality(Active) \in Nat
  BY <1>5, FS_CardinalityType
<1>. QED
  BY <1>1, <1>2, <1>3, <1>5, <1>6

\* What a goroutine's list of operations can be.
LEMMA TodoTypes ==
  ASSUME action \in Actions, NEW s \in Todos
  PROVE  /\ s \in Seq(Actions) /\ s # <<>> /\ Len(s) \in {1, 2}
         /\ Len(s) = 1 => s = <<action>> /\ Head(s) = action /\ Tail(s) = <<>>
         /\ Len(s) = 2 => action = "delete" /\ Head(s) = "stop" /\ Tail(s) = <<"delete">>
         /\ Tail(s) = <<>> <=> Len(s) = 1
<1>1. CASE s = <<action>>
  BY <1>1
<1>2. CASE action = "delete" /\ s = <<"stop", "delete">>
  <2>1. Len(s) = 2 /\ Head(s) = "stop" /\ Tail(s) = <<"delete">> /\ Tail(s) # <<>>
    BY <1>2
  <2>2. s \in Seq(Actions) /\ s # <<>>
    BY <1>2 DEF Actions
  <2>. QED
    BY <1>2, <2>1, <2>2
<1>. QED
  BY <1>1, <1>2 DEF Todos

\* A request before its loop.
LEMMA BulkStarts == Init => BulkInv
<1> SUFFICES ASSUME Init
             PROVE  BulkInv
  OBVIOUS
<1>. USE BulkAssumption
<1>1. names \in Seq(Names) /\ Len(names) \in Nat /\ Indices = 1 .. Len(names)
  BY LenProperties DEF Init, Indices
<1>2. Unborn \in Worker
  BY DEF Unborn, Worker
<1>3. TypeOK
  BY <1>1, <1>2 DEF Init, TypeOK, NoAnswer
<1>4. Active = {}
  BY DEF Init, Active, Working, Unborn
<1>5. Cardinality(Active) = 0
  BY <1>4, FS_EmptySet
<1>6. \A i \in Indices : WorkerOK(worker[i]) /\ worker[i].pc = "none" /\ i > 0 /\ ~DeletedBy(i)
  BY <1>1 DEF Init, Unborn, WorkerOK, DeletedBy
<1>. QED
  BY <1>3, <1>5, <1>6 DEF Init, BulkInv, SummaryOK, NoAnswer

\* A step of one goroutine that keeps its slot.
LEMMA MoveKeeps ==
  ASSUME BulkInv, NEW i \in Indices, NEW w, Move(i, w), UNCHANGED <<slots, wg>>,
         worker[i].pc \in Working, w \in Worker, w.pc \in Working, WorkerOK(w),
         w.op = "succeeded" => worker[i].op = "succeeded" /\ w.todo = worker[i].todo
  PROVE  BulkInv'
<1>. USE DEF BulkInv
<1>1. worker \in [Indices -> Worker] /\ Indices' = Indices
  BY DEF TypeOK, Move, Indices
<1>2. worker' = [worker EXCEPT ![i] = w] /\ worker'[i] = w
      /\ \A j \in Indices \ {i} : worker'[j] = worker[j]
  BY <1>1 DEF Move
<1>3. worker' \in [Indices' -> Worker]
  BY <1>1, <1>2
<1>4. TypeOK'
  BY <1>1, <1>3 DEF TypeOK, Move
<1>5. Active' = Active
  BY <1>1, <1>2 DEF Active
<1>6. ASSUME NEW j \in Indices
      PROVE  /\ WorkerOK(worker[j])' /\ (worker'[j].pc = "none" <=> j > spawned')
             /\ DeletedBy(j)' => DeletedBy(j)
  <2>1. CASE j = i
    BY <1>2, <2>1 DEF Working, WorkerOK, Todos, Move, DeletedBy
  <2>2. CASE j # i
    BY <1>2, <2>2 DEF WorkerOK, Todos, Move, DeletedBy
  <2>. QED
    BY <2>1, <2>2
<1>7. \A j \in Indices : DeletedBy(j)' => inst'[names'[j]] = "absent"
  BY <1>6 DEF Move
<1>8. answer.sent # "summary"
  BY DEF SummaryOK, Working
<1>9. SummaryOK'
  BY <1>8 DEF SummaryOK, Move
<1>10. slots' = Cardinality(Active)' /\ wg' = Cardinality(Active)'
  BY <1>5
<1>. QED
  BY <1>1, <1>4, <1>6, <1>7, <1>9, <1>10

\* What Failed makes of a goroutine.
LEMMA FailedOK ==
  /\ \A v : Failed(v) = Failed(Unborn)
  /\ Failed(Unborn) \in Worker
  /\ Failed(Unborn).pc = "return" /\ Failed(Unborn).op = "none" /\ Failed(Unborn).failed
  /\ Failed(Unborn).todo = <<>> /\ ~Failed(Unborn).cut
<1>1. Unborn \in Worker
  BY DEF Unborn, Worker
<1>2. Failed(Unborn) \in Worker
  BY <1>1 DEF Failed, Worker
<1>3. \A v : Failed(v) = Failed(Unborn)
  BY DEF Failed
<1>4. /\ Failed(Unborn).pc = "return" /\ Failed(Unborn).failed
      /\ Failed(Unborn).op = Unborn.op /\ Failed(Unborn).todo = Unborn.todo
      /\ Failed(Unborn).cut = Unborn.cut
  BY <1>1 DEF Failed, Worker
<1>. QED
  BY <1>2, <1>3, <1>4 DEF Unborn

\* DeleteInstance's look.
LEMMA LookKeeps ==
  ASSUME BulkInv, NEW i \in Indices, Look(i)
  PROVE  BulkInv'
<1>. DEFINE w == worker[i]
<1>1. w \in Worker /\ WorkerOK(w) /\ w.pc = "look" /\ action = "delete"
  BY DEF BulkInv, TypeOK, Look, WorkerOK
<1>2. CASE Move(i, Failed(w))
  BY <1>1, <1>2, MoveKeeps, FailedOK DEF Look, Working, WorkerOK
<1>3. ASSUME NEW t \in Todos, Move(i, [w EXCEPT !.pc = "call", !.todo = t])
      PROVE  BulkInv'
  <2>. DEFINE v == [w EXCEPT !.pc = "call", !.todo = t]
  <2>1. t \in Seq(Actions) /\ t # <<>>
    BY <1>1, TodoTypes DEF Actions
  <2>2. v \in Worker /\ v.pc = "call" /\ v.todo = t /\ v.op = "none" /\ ~v.failed /\ ~v.cut
    BY <1>1, <2>1 DEF Worker, WorkerOK
  <2>3. WorkerOK(v)
    BY <2>1, <2>2 DEF WorkerOK
  <2>. HIDE DEF v
  <2>. QED
    BY <1>1, <1>3, <2>2, <2>3, MoveKeeps DEF Look, Working, v
<1>4. <<"delete">> \in Todos /\ <<"stop", "delete">> \in Todos
  BY <1>1 DEF Todos
<1>. QED
  BY <1>2, <1>3, <1>4 DEF Look

\* The call that starts an operation.
LEMMA CallKeeps ==
  ASSUME BulkInv, NEW i \in Indices, Call(i)
  PROVE  BulkInv'
<1>. DEFINE w == worker[i]
            v == [w EXCEPT !.pc = "wait", !.op = "running"]
<1>1. w \in Worker /\ WorkerOK(w) /\ w.pc = "call"
  BY DEF BulkInv, TypeOK, Call
<1>2. CASE Move(i, Failed(w))
  BY <1>1, <1>2, MoveKeeps, FailedOK DEF Call, Working, WorkerOK
<1>3. CASE Move(i, v)
  <2>1. v \in Worker /\ v.pc = "wait" /\ v.op = "running" /\ WorkerOK(v)
    BY <1>1 DEF Worker, WorkerOK
  <2>. HIDE DEF v
  <2>. QED
    BY <1>1, <1>3, <2>1, MoveKeeps DEF Call, Working
<1>. QED
  BY <1>2, <1>3 DEF Call

\* The end of a wait.
LEMMA WaitKeeps ==
  ASSUME BulkInv, NEW i \in Indices, WaitReturns(i)
  PROVE  BulkInv'
<1>. DEFINE w == worker[i]
            last == [w EXCEPT !.pc = "return"]
            next == [w EXCEPT !.pc = "call", !.todo = Tail(w.todo), !.op = "none"]
<1>1. w \in Worker /\ WorkerOK(w) /\ w.pc = "wait" /\ UNCHANGED <<slots, wg>> /\ w.pc \in Working
  BY DEF BulkInv, TypeOK, WaitReturns, Working
<1>2. w.todo \in Todos /\ w.op # "none" /\ ~w.failed /\ ~w.cut /\ action \in Actions
  BY <1>1, BulkAssumption DEF WorkerOK, BulkInv, TypeOK
<1>3. CASE w.op = "succeeded" /\ Tail(w.todo) = <<>> /\ Move(i, last)
  <2>1. Len(w.todo) = 1
    BY <1>2, <1>3, TodoTypes
  <2>2. last \in Worker /\ last.pc = "return" /\ last.todo = w.todo /\ WorkerOK(last)
    BY <1>1, <1>2, <1>3, <2>1 DEF Worker, WorkerOK
  <2>. HIDE DEF last
  <2>. QED
    BY <1>1, <1>3, <2>2, MoveKeeps DEF Working
<1>4. CASE w.op = "succeeded" /\ Tail(w.todo) # <<>> /\ Move(i, next)
  <2>1. action = "delete" /\ Tail(w.todo) = <<"delete">>
    BY <1>2, <1>4, TodoTypes
  <2>2. Tail(w.todo) \in Todos
    BY <2>1 DEF Todos
  <2>3. Tail(w.todo) \in Seq(Actions) /\ Tail(w.todo) # <<>>
    BY <1>2, <2>2, TodoTypes
  <2>4. next \in Worker /\ next.pc = "call" /\ next.op = "none" /\ WorkerOK(next)
    BY <1>1, <1>2, <2>2, <2>3 DEF Worker, WorkerOK
  <2>. HIDE DEF next
  <2>. QED
    BY <1>1, <1>4, <2>4, MoveKeeps DEF Working
<1>5. CASE Move(i, Failed(w))
  BY <1>1, <1>5, MoveKeeps, FailedOK DEF Working, WorkerOK
<1>6. CASE Move(i, CutShort(w))
  <2>1. CutShort(w) \in Worker /\ CutShort(w).pc = "return" /\ CutShort(w).op # "succeeded"
        /\ WorkerOK(CutShort(w))
    BY <1>1, <1>2 DEF Worker, WorkerOK, CutShort
  <2>. QED
    BY <1>1, <1>6, <2>1, MoveKeeps DEF Working
<1>. QED
  BY <1>3, <1>4, <1>5, <1>6 DEF WaitReturns

\* A panic, recovered.
LEMMA PanicKeeps ==
  ASSUME BulkInv, NEW i \in Indices, Panic(i)
  PROVE  BulkInv'
<1>. DEFINE v == [Failed(Unborn) EXCEPT !.panicked = TRUE]
<1>1. v \in Worker /\ v.pc = "return" /\ v.op = "none" /\ WorkerOK(v)
  BY FailedOK DEF Worker, WorkerOK
<1>2. Move(i, v) /\ UNCHANGED <<slots, wg>> /\ worker[i].pc \in Working
  BY FailedOK DEF Panic, Working
<1>. HIDE DEF v
<1>. QED
  BY <1>1, <1>2, MoveKeeps DEF Working

\* The end of a goroutine, which frees its slot.
LEMMA ReturnKeeps ==
  ASSUME BulkInv, NEW i \in Indices, Return(i)
  PROVE  BulkInv'
<1>. DEFINE w == [worker[i] EXCEPT !.pc = "done", !.panicked = FALSE]
<1>1. worker \in [Indices -> Worker] /\ Indices' = Indices /\ worker[i] \in Worker
      /\ worker[i].pc = "return" /\ WorkerOK(worker[i])
  BY DEF BulkInv, TypeOK, Return, Move, Indices
<1>2. w \in Worker /\ w.pc = "done" /\ WorkerOK(w) /\ w.op = worker[i].op
      /\ w.todo = worker[i].todo /\ w.failed = worker[i].failed
  BY <1>1 DEF Worker, WorkerOK
<1>3. worker' = [worker EXCEPT ![i] = w]
      /\ UNCHANGED <<inst, snaps, action, names, ctx, spawned, answer, elsewhere>>
  BY DEF Return, Move
<1>. HIDE DEF w
<1>4. worker'[i] = w /\ \A j \in Indices \ {i} : worker'[j] = worker[j]
  BY <1>1, <1>3
<1>5. worker' \in [Indices' -> Worker]
  BY <1>1, <1>2, <1>3
<1>6. i \in Active /\ Active' = Active \ {i}
  BY <1>1, <1>2, <1>4 DEF Active, Working
<1>7. IsFiniteSet(Active) /\ Cardinality(Active) \in 0 .. Len(names) /\ Len(names) \in Nat
  BY IndexRange DEF BulkInv
<1>8. Cardinality(Active') = Cardinality(Active) - 1 /\ Cardinality(Active) \in Nat \ {0}
  <2>1. Cardinality(Active') = Cardinality(Active) - 1
    BY <1>6, <1>7, FS_RemoveElement
  <2>2. Cardinality(Active) # 0
    BY <1>6, <1>7, FS_EmptySet
  <2>. QED
    BY <1>7, <2>1, <2>2
<1>9. slots' = Cardinality(Active)' /\ wg' = Cardinality(Active)'
  BY <1>8 DEF Return, Freed, BulkInv
<1>10. slots' \in 0 .. MaxConcurrent /\ wg' \in 0 .. Len(names)
  BY <1>7, <1>8, BulkAssumption DEF Return, Freed, BulkInv, TypeOK
<1>11. TypeOK'
  BY <1>1, <1>3, <1>5, <1>10 DEF BulkInv, TypeOK
<1>12. ASSUME NEW j \in Indices
       PROVE  /\ WorkerOK(worker[j])' /\ (worker'[j].pc = "none" <=> j > spawned')
              /\ DeletedBy(j)' => DeletedBy(j)
  <2>1. CASE j = i
    BY <1>1, <1>2, <1>3, <1>4, <2>1 DEF WorkerOK, Todos, DeletedBy, BulkInv
  <2>2. CASE j # i
    BY <1>3, <1>4, <2>2 DEF WorkerOK, Todos, DeletedBy, BulkInv
  <2>. QED
    BY <2>1, <2>2
<1>13. \A j \in Indices : DeletedBy(j)' => inst'[names'[j]] = "absent"
  BY <1>3, <1>12 DEF BulkInv
<1>14. answer.sent # "summary"
  BY <1>1 DEF BulkInv, SummaryOK
<1>15. SummaryOK'
  BY <1>3, <1>14 DEF SummaryOK
<1>. QED
  BY <1>1, <1>9, <1>11, <1>12, <1>13, <1>15 DEF BulkInv

\* The end of an operation, whether or not somebody still waits for it.
LEMMA FinishKeeps ==
  ASSUME BulkInv, NEW i \in Indices, DaemonFinishes(i)
  PROVE  BulkInv'
<1>. DEFINE w == worker[i]
            n == names[i]
            op1 == Head(w.todo)
<1>1. worker \in [Indices -> Worker] /\ Indices' = Indices /\ w \in Worker /\ WorkerOK(w)
      /\ w.op = "running" /\ inst \in [Names -> States]
  BY DEF BulkInv, TypeOK, DaemonFinishes, Indices
<1>2. n \in Names
  BY IndexRange, ElementOfSeq DEF BulkInv
<1>3. UNCHANGED <<action, names, ctx, spawned, slots, wg, answer, elsewhere>>
  BY DEF DaemonFinishes
<1>4. PICK e \in {"succeeded", "failed"} : worker' = [worker EXCEPT ![i].op = Known(w, e)]
  BY DEF DaemonFinishes
<1>5. Known(w, e) \in {"none", "succeeded", "failed"} /\ (~w.cut => Known(w, e) # "none")
  BY DEF Known
<1>6. /\ worker'[i] = [w EXCEPT !.op = Known(w, e)]
      /\ \A j \in Indices \ {i} : worker'[j] = worker[j]
  BY <1>1, <1>4
<1>7. /\ worker'[i] \in Worker /\ worker'[i].pc = w.pc /\ worker'[i].todo = w.todo
      /\ worker'[i].op = Known(w, e) /\ worker'[i].failed = w.failed
      /\ worker'[i].cut = w.cut
  BY <1>1, <1>5, <1>6 DEF Worker
<1>8. worker' \in [Indices' -> Worker]
  BY <1>1, <1>4, <1>7
<1>9. Todos \subseteq Seq(Actions) /\ action \in Actions
  BY TodoTypes, BulkAssumption DEF BulkInv, TypeOK
<1>10. op1 \in Actions /\ (action = "delete" => op1 \in {"stop", "delete"})
  <2>1. w.todo \in Todos
    BY <1>1 DEF WorkerOK
  <2>2. Len(w.todo) \in {1, 2} /\ (action = "delete" => op1 \in {"stop", "delete"})
    BY <1>9, <2>1, TodoTypes
  <2>. QED
    BY <1>9, <2>1, <2>2, TodoTypes DEF Actions
<1>11. inst' \in [Names -> States] /\ snaps' \subseteq Names
  <2>1. CASE UNCHANGED <<inst, snaps>>
    BY <1>1, <2>1 DEF BulkInv, TypeOK
  <2>2. CASE /\ inst' = [inst EXCEPT ![n] = After(op1, @)]
             /\ snaps' = IF op1 = "snapshot" THEN snaps \cup {n}
                         ELSE IF op1 = "delete" THEN snaps \ {n} ELSE snaps
    <3>1. After(op1, inst[n]) \in States
      BY <1>1, <1>2, <1>10 DEF After, States, Actions
    <3>. QED
      BY <1>1, <1>2, <2>2, <3>1 DEF BulkInv, TypeOK
  <2>. QED
    BY <2>1, <2>2 DEF DaemonFinishes
<1>12. TypeOK'
  BY <1>1, <1>3, <1>8, <1>11 DEF BulkInv, TypeOK
<1>13. Active' = Active
  BY <1>1, <1>6, <1>7 DEF Active
<1>14. ASSUME NEW j \in Indices
       PROVE  WorkerOK(worker[j])' /\ (worker'[j].pc = "none" <=> j > spawned')
  <2>1. CASE j = i
    BY <1>1, <1>3, <1>5, <1>7, <2>1 DEF WorkerOK, Todos, BulkInv
  <2>2. CASE j # i
    BY <1>3, <1>6, <2>2 DEF WorkerOK, Todos, BulkInv
  <2>. QED
    BY <2>1, <2>2
<1>15. ASSUME NEW j \in Indices, DeletedBy(j)'
       PROVE  inst'[names'[j]] = "absent"
  <2>1. names[j] \in Names /\ names' = names
    BY <1>3, IndexRange, ElementOfSeq DEF BulkInv
  <2>2. action = "delete" /\ elsewhere = 0 /\ op1 \in {"stop", "delete"}
    BY <1>3, <1>10, <1>15 DEF DeletedBy
  <2>3. CASE j = i
    <3>1. Known(w, e) = "succeeded" /\ op1 = "delete"
      BY <1>7, <1>15, <2>3 DEF DeletedBy
    <3>2. worker' # [worker EXCEPT ![i].op = Known(w, "failed")]
      <4>1. ~w.cut
        BY <3>1 DEF Known
      <4>2. [worker EXCEPT ![i].op = Known(w, "failed")][i].op = "failed"
        BY <1>1, <4>1 DEF Known, Worker
      <4>. QED
        BY <1>7, <3>1, <4>2
    <3>3. inst' = [inst EXCEPT ![n] = After(op1, @)]
      BY <3>2 DEF DaemonFinishes
    <3>. QED
      BY <1>1, <1>2, <2>1, <2>3, <3>1, <3>3 DEF After
  <2>4. CASE j # i
    <3>1. DeletedBy(j)
      BY <1>3, <1>6, <1>15, <2>4 DEF DeletedBy
    <3>2. inst[names[j]] = "absent"
      BY <3>1 DEF BulkInv
    <3>3. CASE UNCHANGED inst
      BY <2>1, <3>2, <3>3
    <3>4. CASE Accepts(op1, n) /\ inst' = [inst EXCEPT ![n] = After(op1, @)]
      <4>1. inst[n] # "absent"
        BY <2>2, <3>4 DEF Accepts
      <4>. QED
        BY <1>1, <2>1, <3>2, <3>4, <4>1
    <3>. QED
      BY <3>3, <3>4 DEF DaemonFinishes
  <2>. QED
    BY <2>3, <2>4
<1>16. \A j \in Indices : worker'[j].pc = worker[j].pc /\ worker'[j].failed = worker[j].failed
  BY <1>6, <1>7
<1>17. SummaryOK'
  BY <1>1, <1>3, <1>16 DEF BulkInv, SummaryOK
<1>. QED
  BY <1>1, <1>3, <1>12, <1>13, <1>14, <1>15, <1>17 DEF BulkInv

\* Another client's change.
LEMMA ElsewhereKeeps ==
  ASSUME BulkInv, NEW n \in Names, Elsewhere(n)
  PROVE  BulkInv'
<1>1. inst \in [Names -> States] /\ elsewhere \in Nat /\ MaxElsewhere \in Nat
      /\ elsewhere' = elsewhere + 1 /\ elsewhere < MaxElsewhere /\ elsewhere' # 0
      /\ UNCHANGED <<action, names, ctx, spawned, slots, wg, worker, answer>>
  BY BulkAssumption DEF BulkInv, TypeOK, Elsewhere
<1>2. inst' \in [Names -> States]
  BY <1>1 DEF Elsewhere
<1>3. TypeOK'
  BY <1>1, <1>2 DEF BulkInv, TypeOK, Elsewhere, Indices
<1>4. \A i \in Indices' : ~DeletedBy(i)'
  BY <1>1 DEF DeletedBy
<1>5. SummaryOK'
  BY <1>1 DEF BulkInv, SummaryOK, Indices
<1>6. Active' = Active
  BY <1>1 DEF Active, Indices
<1>7. \A i \in Indices' : WorkerOK(worker[i])' /\ (worker'[i].pc = "none" <=> i > spawned')
  BY <1>1 DEF BulkInv, WorkerOK, Todos, Indices
<1>. QED
  BY <1>1, <1>3, <1>4, <1>5, <1>6, <1>7 DEF BulkInv

\* A goroutine is started in a free slot.
LEMMA SpawnKeeps ==
  ASSUME BulkInv, Spawn
  PROVE  BulkInv'
<1>. DEFINE k == spawned + 1
            w == IF action = "delete" THEN [Unborn EXCEPT !.pc = "look"]
                 ELSE [Unborn EXCEPT !.pc = "call", !.todo = <<action>>]
<1>1. /\ Indices = 1 .. Len(names) /\ Len(names) \in Nat
      /\ IsFiniteSet(Active) /\ Cardinality(Active) \in 0 .. Len(names)
  BY IndexRange DEF BulkInv
<1>2. k \in Indices /\ spawned' = k /\ spawned' \in 0 .. Len(names) /\ Indices' = Indices
      /\ UNCHANGED <<inst, snaps, action, names, ctx, answer, elsewhere>>
      /\ worker' = [worker EXCEPT ![k] = w]
      /\ worker \in [Indices -> Worker] /\ action \in Actions
  BY <1>1, BulkAssumption DEF Spawn, BulkInv, TypeOK, Indices
<1>3. w \in Worker /\ w.pc \in {"look", "call"} /\ w.op = "none" /\ WorkerOK(w)
  <2>1. Unborn \in Worker /\ <<action>> \in Seq(Actions) /\ <<action>> # <<>>
    BY <1>2 DEF Unborn, Worker
  <2>2. Unborn.todo = <<>> /\ Unborn.op = "none" /\ ~Unborn.failed /\ ~Unborn.cut
    BY DEF Unborn
  <2>3. CASE action = "delete"
    BY <2>1, <2>2, <2>3 DEF Worker, WorkerOK
  <2>4. CASE action # "delete"
    BY <2>1, <2>2, <2>4 DEF Worker, WorkerOK, Todos
  <2>. QED
    BY <2>3, <2>4
<1>. HIDE DEF w
<1>4. worker'[k] = w /\ \A j \in Indices \ {k} : worker'[j] = worker[j]
  BY <1>2
<1>5. worker' \in [Indices' -> Worker]
  BY <1>2, <1>3
<1>6. worker[k].pc = "none" /\ k \notin Active
  BY <1>1, <1>2 DEF BulkInv, TypeOK, Active, Working
<1>7. Active' = Active \cup {k}
  BY <1>2, <1>3, <1>4 DEF Active, Working
<1>8. IsFiniteSet(Active') /\ Cardinality(Active') = Cardinality(Active) + 1
  BY <1>1, <1>6, <1>7, FS_AddElement
<1>9. slots' = Cardinality(Active)' /\ wg' = Cardinality(Active)'
  BY <1>8 DEF Spawn, AddedByLoop, BulkInv
<1>10. wg' \in 0 .. Len(names)
  <2>1. Active' \subseteq Indices /\ IsFiniteSet(Indices) /\ Cardinality(Indices) = Len(names)
    BY <1>2, IndexRange DEF Active, BulkInv
  <2>2. Cardinality(Active') <= Len(names)
    BY <2>1, FS_Subset
  <2>. QED
    BY <1>1, <1>8, <1>9, <2>2
<1>11. slots' \in 0 .. MaxConcurrent
  BY <1>1, <1>8, <1>9, BulkAssumption DEF Spawn, SlotFree, BulkInv, TypeOK
<1>12. TypeOK'
  BY <1>2, <1>5, <1>10, <1>11 DEF BulkInv, TypeOK
<1>13. ASSUME NEW j \in Indices
       PROVE  /\ WorkerOK(worker[j])' /\ (worker'[j].pc = "none" <=> j > spawned')
              /\ DeletedBy(j)' => DeletedBy(j)
  <2>1. spawned \in Int /\ j \in Int
    BY <1>1 DEF BulkInv, TypeOK
  <2>2. CASE j = k
    BY <1>2, <1>3, <1>4, <2>1, <2>2 DEF WorkerOK, Todos, DeletedBy
  <2>3. CASE j # k
    BY <1>2, <1>4, <2>1, <2>3 DEF WorkerOK, Todos, DeletedBy, BulkInv
  <2>. QED
    BY <2>2, <2>3
<1>14. \A j \in Indices : DeletedBy(j)' => inst'[names'[j]] = "absent"
  BY <1>2, <1>13 DEF BulkInv
<1>15. SummaryOK'
  BY <1>2, <1>6 DEF BulkInv, SummaryOK
<1>. QED
  BY <1>2, <1>9, <1>12, <1>13, <1>14, <1>15 DEF BulkInv

\* The response.
LEMMA RespondKeeps ==
  ASSUME BulkInv, Respond
  PROVE  BulkInv'
<1>1. /\ UNCHANGED <<inst, snaps, action, names, ctx, spawned, slots, wg, worker, elsewhere>>
      /\ Indices' = Indices /\ spawned = Len(names)
  BY DEF Respond, Indices
<1>2. /\ Indices = 1 .. Len(names) /\ Len(names) \in Nat /\ names \in Seq(Names)
      /\ IsFiniteSet(Active)
  BY IndexRange DEF BulkInv
<1>3. Active = {}
  BY <1>2, FS_EmptySet DEF Respond, BulkInv
<1>4. \A i \in Indices : worker[i].pc = "done" /\ worker[i] \in Worker /\ WorkerOK(worker[i])
  <2>1. \A i \in Indices : worker[i].pc # "none" /\ worker[i].pc \notin Working
    BY <1>1, <1>2, <1>3 DEF BulkInv, Active
  <2>. QED
    BY <2>1 DEF BulkInv, TypeOK, Worker, Working
<1>5. TypeOK'
  <2>1. answer' \in [sent : {"no", "summary", "bare"}, failed : SUBSET Indices,
                     table : SUBSET Names]
    BY DEF Respond, NoAnswer
  <2>. QED
    BY <1>1, <2>1 DEF BulkInv, TypeOK
<1>6. SummaryOK'
  <2>1. CASE answer' = [NoAnswer EXCEPT !.sent = "bare"]
    BY <2>1 DEF SummaryOK, NoAnswer
  <2>2. CASE answer' = [sent |-> "summary", failed |-> {i \in Indices : worker[i].failed},
                        table |-> {n \in Names : inst[n] # "absent"}]
    <3> SUFFICES ASSUME NEW i \in Indices
                 PROVE  /\ worker[i].pc = "done"
                        /\ i \in answer'.failed <=> worker[i].failed
                        /\ action = "delete" /\ elsewhere = 0 /\ i \notin answer'.failed
                             => names[i] \notin answer'.table
      BY <1>1 DEF SummaryOK
    <3>1. i \in answer'.failed <=> worker[i].failed
      BY <2>2
    <3>2. ASSUME action = "delete", elsewhere = 0, ~worker[i].failed
          PROVE  names[i] \notin answer'.table
      <4>1. worker[i].op = "succeeded" /\ Len(worker[i].todo) = 1 /\ worker[i].todo \in Todos
        BY <1>4, <3>2 DEF WorkerOK
      <4>2. action \in Actions
        BY BulkAssumption DEF BulkInv, TypeOK
      <4>3. Head(worker[i].todo) = "delete"
        BY <3>2, <4>1, <4>2, TodoTypes
      <4>4. inst[names[i]] = "absent"
        BY <3>2, <4>1, <4>3 DEF BulkInv, DeletedBy
      <4>. QED
        BY <2>2, <4>4
    <3>. QED
      BY <1>4, <3>1, <3>2
  <2>. QED
    BY <2>1, <2>2 DEF Respond
<1>7. \A i \in Indices : /\ WorkerOK(worker[i])' /\ (worker'[i].pc = "none" <=> i > spawned')
                         /\ DeletedBy(i)' => inst'[names'[i]] = "absent"
  BY <1>1 DEF BulkInv, WorkerOK, Todos, DeletedBy
<1>8. Active' = Active
  BY <1>1 DEF Active
<1>. QED
  BY <1>1, <1>5, <1>6, <1>7, <1>8 DEF BulkInv

\* Steps that only the context sees, and those of the other requests.
LEMMA UntouchedKeeps ==
  ASSUME BulkInv, UNCHANGED <<inst, snaps, action, names, spawned, slots, wg, worker, answer,
                              elsewhere>>,
         ctx' = ctx \/ ctx' = "done"
  PROVE  BulkInv'
BY DEF BulkInv, TypeOK, WorkerOK, Todos, DeletedBy, SummaryOK, Active, Indices

\* Every step keeps the invariant.
LEMMA BulkKept == BulkInv /\ [Next]_vars => BulkInv'
<1> SUFFICES ASSUME BulkInv, [Next]_vars
             PROVE  BulkInv'
  OBVIOUS
<1>1. CASE UNCHANGED vars
  BY <1>1, UntouchedKeeps DEF vars
<1>2. CASE ClientLeaves
  BY <1>2, UntouchedKeeps DEF ClientLeaves
<1>3. ASSUME NEW i \in Indices, Goroutine(i)
      PROVE  BulkInv'
  BY <1>3, LookKeeps, CallKeeps, WaitKeeps, PanicKeeps, ReturnKeeps DEF Goroutine
<1>. QED
  BY <1>1, <1>2, <1>3, SpawnKeeps, RespondKeeps, FinishKeeps, ElsewhereKeeps DEF Next

\* The semaphore bounds what the request asks of the daemon, and the summary
\* follows from what the goroutines have recorded.
LEMMA BulkInvImplies == BulkInv => TypeOK /\ DaemonNotFlooded /\ AnswerIsTrue
<1> SUFFICES ASSUME BulkInv
             PROVE  DaemonNotFlooded /\ AnswerIsTrue
  BY DEF BulkInv
<1>1. DaemonNotFlooded
  <2>. DEFINE R == {i \in Indices : worker[i].op = "running" /\ ~worker[i].cut}
  <2>1. R \subseteq Active
    <3> SUFFICES ASSUME NEW i \in Indices, worker[i].op = "running", ~worker[i].cut
                 PROVE  worker[i].pc \in Working
      BY DEF Active
    <3>. QED
      BY DEF BulkInv, WorkerOK, TypeOK, Worker, Working
  <2>2. IsFiniteSet(Active) /\ Cardinality(Active) \in Nat
    BY IndexRange DEF BulkInv
  <2>3. Cardinality(R) <= Cardinality(Active) /\ Cardinality(R) \in Nat
    BY <2>1, <2>2, FS_Subset, FS_CardinalityType
  <2>4. Cardinality(Active) <= MaxConcurrent
    BY DEF BulkInv, TypeOK
  <2>. QED
    BY <2>2, <2>3, <2>4, BulkAssumption DEF DaemonNotFlooded
<1>2. AnswerIsTrue
  <2> SUFFICES ASSUME answer.sent = "summary", NEW i \in Indices
               PROVE  /\ worker[i].pc = "done"
                      /\ i \in answer.failed <=> worker[i].failed
                      /\ i \notin answer.failed
                           => worker[i].op = "succeeded" /\ Len(worker[i].todo) = 1
                      /\ worker[i].op = "running" => i \in answer.failed
                      /\ action = "delete" /\ elsewhere = 0 /\ i \notin answer.failed
                           => names[i] \notin answer.table
    BY DEF AnswerIsTrue
  <2>. QED
    BY DEF BulkInv, SummaryOK, WorkerOK
<1>. QED
  BY <1>1, <1>2

\* However the request's goroutines, the daemon and other clients interleave,
\* and whatever fails or panics, the daemon runs no more than MaxConcurrent of
\* the operations that are waited for (bulk's semaphore).
THEOREM SemaphoreHolds == RequestSpec => []DaemonNotFlooded
<1>1. RequestInit => BulkInv
  BY BulkStarts DEF RequestInit
<1>2. BulkInv /\ [RequestNext]_<<request, vars, download, call>> => BulkInv'
  BY BulkKept DEF RequestNext
<1>. QED
  BY <1>1, <1>2, BulkInvImplies, PTL DEF RequestSpec

\* The summary of a bulk action says of every name what became of it, and the
\* table under it agrees with it.
THEOREM SummaryIsTrue == RequestSpec => []AnswerIsTrue
<1>1. RequestInit => BulkInv
  BY BulkStarts DEF RequestInit
<1>2. BulkInv /\ [RequestNext]_<<request, vars, download, call>> => BulkInv'
  BY BulkKept DEF RequestNext
<1>. QED
  BY <1>1, <1>2, BulkInvImplies, PTL DEF RequestSpec

-----------------------------------------------------------------------------
(* Downloads.                                                              *)

\* Where temporary files may be, what the kinds of download go through, and
\* when a call that has given up on its backup has said so.
ExportInv ==
  /\ Download!TypeOK
  /\ pc \notin {"spool", "download", "zip", "stream", "cleanup"} => temp = 0
  /\ pc = "spool" => temp = 0 \/ (temp = 1 /\ kind = "image")
  /\ pc \in {"download", "zip"} => temp <= 2
  /\ pc = "look" => kind = "image"
  /\ pc \in {"create", "wait", "cancel", "delete", "await"} => kind = "temporary"
  /\ kind = "temporary" =>
       /\ pc \in {"idle", "create"} => op = "none"
       /\ op = "succeeded" <=> backup # "none"
       /\ backup = "deleting" => pc \in {"await", "reply", "done"}
       /\ pc \in {"await", "spool", "download", "zip", "stream", "cleanup"} => op = "succeeded"
       /\ pc \in {"delete", "reply", "done"} /\ op = "running" => logged \/ lost
       /\ pc \in {"reply", "done"} /\ backup \in {"present", "deleting"} => logged \/ lost

\* A download before its first step.
LEMMA ExportStarts == Download!Init => ExportInv
<1> SUFFICES ASSUME Download!Init
             PROVE  ExportInv
  OBVIOUS
<1>1. backup \in {"none", "present"} /\ temp \in 0 .. 3 /\ pc \in Download!Steps
  BY DEF Download!Init, Download!Steps
<1>2. Download!TypeOK
  BY <1>1 DEF Download!Init, Download!TypeOK
<1>. QED
  BY <1>2 DEF Download!Init, ExportInv

\* Every step of the call, the client and the daemon keeps it.
LEMMA ExportKept == ExportInv /\ [Download!Next]_download => ExportInv'
<1> SUFFICES ASSUME ExportInv, [Download!Next]_download
             PROVE  ExportInv'
  OBVIOUS
<1>. USE DEF ExportInv, Download!TypeOK, Download!Steps
<1>1. CASE UNCHANGED download
  BY <1>1 DEF download
<1>2. CASE Download!Start
  BY <1>2 DEF Download!Start
<1>3. CASE Download!LookAtImage
  BY <1>3 DEF Download!LookAtImage
<1>4. CASE Download!Create
  BY <1>4 DEF Download!Create
<1>5. CASE Download!WaitFinished
  BY <1>5 DEF Download!WaitFinished, Download!WaitError
<1>6. CASE Download!WaitCancelled
  BY <1>6 DEF Download!WaitCancelled
<1>7. CASE Download!CancelOp
  <2>1. /\ pc = "cancel" /\ pc' = "delete" /\ temp = 0 /\ kind = "temporary"
        /\ UNCHANGED <<kind, context, backup, temp, result, wrote, response, lost>>
    BY <1>7 DEF Download!CancelOp
  <2>2. CASE op = "running" /\ op' = "aborted" /\ UNCHANGED logged
    BY <2>1, <2>2
  <2>3. CASE logged' = TRUE /\ UNCHANGED op
    BY <2>1, <2>3
  <2>. QED
    BY <1>7, <2>2, <2>3 DEF Download!CancelOp
<1>8. CASE Download!Spool
  BY <1>8 DEF Download!Spool, Download!AfterTemp
<1>9. CASE Download!Download
  BY <1>9 DEF Download!Download
<1>10. CASE Download!zipSplitImage
  <2>1. temp \in 0 .. 2 /\ temp' \in 0 .. 3
    BY <1>10 DEF Download!zipSplitImage
  <2>2. /\ pc = "zip" /\ pc' \in {"stream", "cleanup"} /\ result' \in {"none", "error"}
        /\ wrote' \in {"no", "headers", "some", "all"}
        /\ UNCHANGED <<kind, context, op, backup, response, logged, lost>>
    BY <1>10 DEF Download!zipSplitImage
  <2>. QED
    BY <2>1, <2>2
<1>11. CASE Download!Stream
  BY <1>11 DEF Download!Stream
<1>12. CASE Download!Cleanup
  BY <1>12 DEF Download!Cleanup, Download!AfterTemp, Download!TempStays
<1>13. CASE Download!DeleteBackup
  <2>1. /\ pc = "delete" /\ pc' \in {"await", "reply"} /\ kind = "temporary"
        /\ UNCHANGED <<kind, context, op, temp, result, wrote, response, lost>>
    BY <1>13 DEF Download!DeleteBackup
  <2>2. CASE backup = "present" /\ backup' = "deleting" /\ pc' = "await" /\ UNCHANGED logged
    BY <2>1, <2>2
  <2>3. CASE backup # "present" /\ pc' = "reply" /\ UNCHANGED <<backup, logged>>
    BY <2>1, <2>3
  <2>4. CASE logged' = TRUE /\ pc' = "reply" /\ UNCHANGED backup
    BY <2>1, <2>4
  <2>. QED
    BY <1>13, <2>2, <2>3, <2>4 DEF Download!DeleteBackup
<1>14. CASE Download!AwaitDelete
  <2>1. /\ pc = "await" /\ pc' = "reply" /\ temp = 0 /\ kind = "temporary"
        /\ UNCHANGED <<kind, context, op, backup, temp, result, wrote, response, lost>>
    BY <1>14 DEF Download!AwaitDelete
  <2>2. CASE backup = "deleted" /\ UNCHANGED logged
    BY <2>1, <2>2
  <2>3. CASE logged' = TRUE
    BY <2>1, <2>3
  <2>. QED
    BY <1>14, <2>2, <2>3 DEF Download!AwaitDelete
<1>15. CASE Download!Reply
  BY <1>15 DEF Download!Reply, Download!Ended
<1>16. CASE Download!WaitLost
  <2>1. /\ pc = "wait" /\ pc' \in {"cancel", "delete"} /\ temp = 0 /\ kind = "temporary"
        /\ result' = "error" /\ lost' \in BOOLEAN
        /\ UNCHANGED <<kind, context, op, backup, temp, wrote, response, logged>>
    BY <1>16 DEF Download!WaitLost
  <2>2. pc' = "delete" /\ op = "running" => lost'
    BY <1>16 DEF Download!WaitLost
  <2>. QED
    BY <2>1, <2>2
<1>17. CASE Download!Disconnect
  BY <1>17 DEF Download!Disconnect
<1>18. CASE Download!FinishOp
  BY <1>18 DEF Download!FinishOp
<1>19. CASE Download!FinishDelete
  BY <1>19 DEF Download!FinishDelete
<1>. QED
  BY <1>1, <1>2, <1>3, <1>4, <1>5, <1>6, <1>7, <1>8, <1>9, <1>10, <1>11, <1>12, <1>13, <1>14,
     <1>15, <1>16, <1>17, <1>18, <1>19 DEF Download!Next, Download!Step

\* A finished download leaves no temporary file, and no temporary backup that
\* it neither warned of nor lost track of (cleanupExportTemp, deleteBackup).
THEOREM NothingIsLeft == RequestSpec => []LeftoversKnown
<1>1. RequestInit => ExportInv
  BY ExportStarts DEF RequestInit
<1>2. ExportInv /\ [RequestNext]_<<request, vars, download, call>> => ExportInv'
  BY ExportKept DEF RequestNext
<1>3. ExportInv => LeftoversKnown
  BY DEF ExportInv, LeftoversKnown, Download!TempRemoved, Download!LeakIsLogged
<1>. QED
  BY <1>1, <1>2, <1>3, PTL DEF RequestSpec

-----------------------------------------------------------------------------
(* Calls: sequences of steps.                                              *)

\* The steps u in the place of the first of s.
LEMMA Replaced ==
  ASSUME NEW T, NEW s \in Seq(T), s # <<>>, NEW u \in Seq(T)
  PROVE  /\ Len(s) \in Nat \ {0} /\ Len(u) \in Nat
         /\ Head(s) = s[1] /\ s[1] \in T
         /\ u \o Tail(s) \in Seq(T)
         /\ Len(u \o Tail(s)) = Len(u) + Len(s) - 1
         /\ \A i \in 1 .. Len(u) : (u \o Tail(s))[i] = u[i]
         /\ \A i \in Len(u) + 1 .. Len(u) + Len(s) - 1 :
              (u \o Tail(s))[i] = s[i - Len(u) + 1]
<1>1. Len(s) \in Nat /\ Len(u) \in Nat /\ Len(s) # 0
  BY LenProperties, EmptySeq
<1>2. /\ Head(s) \in T /\ Tail(s) \in Seq(T) /\ Len(Tail(s)) = Len(s) - 1
      /\ \A i \in 1 .. Len(Tail(s)) : Tail(s)[i] = s[i + 1]
  BY HeadTailProperties
<1>3. Head(s) = s[1]
  BY <1>1
<1>4. /\ u \o Tail(s) \in Seq(T) /\ Len(u \o Tail(s)) = Len(u) + Len(Tail(s))
      /\ \A i \in 1 .. Len(u) + Len(Tail(s)) :
           (u \o Tail(s))[i] = IF i <= Len(u) THEN u[i] ELSE Tail(s)[i - Len(u)]
  BY <1>2, ConcatProperties
<1>5. ASSUME NEW i \in Len(u) + 1 .. Len(u) + Len(s) - 1
      PROVE  (u \o Tail(s))[i] = s[i - Len(u) + 1]
  <2>1. i - Len(u) \in 1 .. Len(Tail(s)) /\ ~(i <= Len(u))
        /\ i \in 1 .. Len(u) + Len(Tail(s))
    BY <1>1, <1>2
  <2>. QED
    BY <1>2, <1>4, <2>1
<1>. QED
  BY <1>1, <1>2, <1>3, <1>4, <1>5

\* Without its first step.
LEMMA Shortened ==
  ASSUME NEW T, NEW s \in Seq(T), s # <<>>
  PROVE  /\ Len(s) \in Nat \ {0} /\ Tail(s) \in Seq(T) /\ Len(Tail(s)) = Len(s) - 1
         /\ Head(s) = s[1] /\ s[1] \in T
         /\ Tail(s) = <<>> \o Tail(s)
         /\ \A i \in 1 .. Len(s) - 1 : Tail(s)[i] = s[i + 1]
<1>1. Len(s) \in Nat /\ Len(s) # 0
  BY LenProperties, EmptySeq
<1>2. /\ Head(s) \in T /\ Tail(s) \in Seq(T) /\ Len(Tail(s)) = Len(s) - 1
      /\ \A i \in 1 .. Len(Tail(s)) : Tail(s)[i] = s[i + 1]
  BY HeadTailProperties
<1>3. Head(s) = s[1]
  BY <1>1
<1>4. Tail(s) = <<>> \o Tail(s)
  BY <1>2, ConcatEmptySeq
<1>. QED
  BY <1>1, <1>2, <1>3, <1>4

\* What Wrapped adds to a set of steps.
LEMMA Unwrapped ==
  ASSUME NEW S, NEW x \in Single!Wrapped(S), x \notin S
  PROVE  x.do \in {"when", "maybe"} /\ x.steps \in Seq(S)
                                    /\ x.steps \in Seq(Single!Wrapped(S))
<1>1. x.do \in {"when", "maybe"} /\ x.steps \in Seq(S)
  BY DEF Single!Wrapped
<1>2. S \subseteq Single!Wrapped(S)
  BY DEF Single!Wrapped
<1>. QED
  BY <1>1, <1>2, SeqMonotonic

\* The steps that look.
LEMMA LookingSteps ==
  ASSUME NEW m, NEW x \in Single!Looking(m)
  PROVE  /\ x.do \in {"skip", "pick", "get", "local", "refuse", "absent"}
         /\ x.do = "get" => x.of \in {"subject", "target", "siblings", "side", "list"}
         /\ x.do = "local" => x.errors \subseteq Single!Errors
         /\ x.do = "refuse" => x \in Single!Refusing(m)
         /\ x.do = "absent" => Single!MindsName(m)
<1>1. CASE x \in [do : {"skip", "pick"}]
  BY <1>1
<1>2. CASE x \in [do : {"get"}, of : {"subject", "target", "siblings", "side", "list"}]
  BY <1>2
<1>3. CASE x \in [do : {"local"}, errors : SUBSET Single!Errors]
  BY <1>3
<1>4. CASE x \in Single!Refusing(m)
  BY <1>4 DEF Single!Refusing
<1>5. CASE x \in {y \in [do : {"absent"}] : Single!MindsName(m)}
  BY <1>5
<1>. QED
  BY <1>1, <1>2, <1>3, <1>4, <1>5 DEF Single!Looking

\* The steps that look, with those that depend on what was read.
LEMMA LookSteps ==
  ASSUME NEW m, NEW x \in Single!Looks(m)
  PROVE  /\ x.do \in {"skip", "pick", "get", "local", "refuse", "absent", "when", "maybe"}
         /\ x.do \in {"when", "maybe"} => x.steps \in Seq(Single!Looks(m))
         /\ x.do = "get" => x.of \in {"subject", "target", "siblings", "side", "list"}
         /\ x.do = "local" => x.errors \subseteq Single!Errors
         /\ x.do = "refuse" => x \in Single!Refusing(m)
         /\ x.do = "absent" => Single!MindsName(m)
<1>. DEFINE L == Single!Looking(m)
            W == Single!Wrapped(L)
<1>1. x \in Single!Wrapped(W)
  BY DEF Single!Looks
<1>2. CASE x \notin W
  BY <1>1, <1>2, Unwrapped DEF Single!Looks
<1>3. CASE x \in W /\ x \notin L
  <2>1. x.do \in {"when", "maybe"} /\ x.steps \in Seq(W)
    BY <1>3, Unwrapped
  <2>2. W \subseteq Single!Looks(m)
    BY DEF Single!Looks, Single!Wrapped
  <2>3. x.steps \in Seq(Single!Looks(m))
    BY <2>1, <2>2, SeqMonotonic
  <2>. QED
    BY <2>1, <2>3
<1>4. CASE x \in L
  BY <1>4, LookingSteps
<1>. QED
  BY <1>2, <1>3, <1>4

\* The steps in between.
LEMMA BetweenSteps ==
  ASSUME NEW x \in Single!InBetween
  PROVE  x.do \in {"skip", "local"} /\ (x.do = "local" => x.errors \subseteq {"error"})
BY DEF Single!InBetween

\* The changes.
LEMMA ChangingSteps ==
  ASSUME NEW m, NEW E, NEW W, NEW U, NEW x \in Single!Changing(m, E, W, U)
  PROVE  x.do = "change" /\ x.effect \in E /\ x.wait \in W /\ x.undo \in U
         /\ x.version \in {"none", "read"} /\ x.inuse \in {"Conflict", "untyped", "ignored"}
BY DEF Single!Changing

\* The steps that act.
LEMMA ActSteps ==
  ASSUME NEW m, NEW x \in Single!Acts(m)
  PROVE  /\ x.do \in {"skip", "local", "change", "when", "maybe"}
         /\ x.do \in {"when", "maybe"} => x.steps \in Seq(Single!Acts(m))
         /\ x.do = "local" => x.errors \subseteq {"error"}
         /\ x.do = "change" => x \in Single!Changing(m, Single!Effects, Single!Waits, {<<>>})
<1>. DEFINE C == Single!Changing(m, Single!Effects, Single!Waits, {<<>>})
            B == Single!InBetween \cup C
<1>1. x \in Single!Wrapped(B)
  BY DEF Single!Acts
<1>2. CASE x \notin B
  BY <1>1, <1>2, Unwrapped DEF Single!Acts
<1>3. CASE x \in Single!InBetween
  BY <1>3, BetweenSteps
<1>4. CASE x \in C
  BY <1>4, ChangingSteps
<1>. QED
  BY <1>2, <1>3, <1>4

\* The steps that publish.
LEMMA PublishSteps ==
  ASSUME NEW m, NEW x \in Single!Publishing(m)
  PROVE  x.do = "change" /\ x.effect = "publish" /\ x.undo = <<>>
         /\ x \in Single!Changing(m, {"publish"}, Single!Waits, {<<>>})
BY ChangingSteps DEF Single!Publishing

\* The steps that tag.
LEMMA TagSteps ==
  ASSUME NEW m, NEW x \in Single!Tags(m)
  PROVE  /\ x.do \in {"skip", "local", "change", "when", "maybe"}
         /\ x.do \in {"when", "maybe"} => x.steps \in Seq(Single!Tags(m))
         /\ x.do = "local" => x.errors \subseteq {"error"}
         /\ x.do = "change" =>
              /\ x \in Single!Changing(m, {"alias"}, {"no"}, {Single!Rollback})
              /\ x.effect = "alias" /\ x.wait = "no" /\ x.undo = Single!Rollback
              /\ m \notin Single!PromisesConflict
<1>. DEFINE B == Single!InBetween \cup Single!Tagging(m)
<1>1. x \in Single!Wrapped(B)
  BY DEF Single!Tags
<1>2. CASE x \notin B
  BY <1>1, <1>2, Unwrapped DEF Single!Tags
<1>3. CASE x \in Single!InBetween
  BY <1>3, BetweenSteps
<1>4. CASE x \in Single!Tagging(m)
  BY <1>4, ChangingSteps DEF Single!Tagging
<1>. QED
  BY <1>2, <1>3, <1>4

\* The undoing of a publication.
LEMMA RollbackSteps ==
  /\ Single!Rollback = <<[do |-> "change", effect |-> "unpublish", version |-> "none",
                          inuse |-> "ignored", wait |-> "operation", undo |-> <<>>]>>
  /\ Single!Rollback # <<>> /\ Len(Single!Rollback) = 1
  /\ Head(Single!Rollback) = Single!Rollback[1] /\ Tail(Single!Rollback) = <<>>
  /\ \A m : Single!Rollback[1] \in Single!Changing(m, {"unpublish"}, Single!Waits, {<<>>})
<1>1. Single!Rollback = <<[do |-> "change", effect |-> "unpublish", version |-> "none",
                           inuse |-> "ignored", wait |-> "operation", undo |-> <<>>]>>
  BY DEF Single!Rollback, Single!Operation, Single!Change
<1>2. \A m : Single!Rollback[1] \in Single!Changing(m, {"unpublish"}, Single!Waits, {<<>>})
  BY <1>1 DEF Single!Changing, Single!Waits
<1>3. /\ Single!Rollback # <<>> /\ Len(Single!Rollback) = 1
      /\ Head(Single!Rollback) = Single!Rollback[1] /\ Tail(Single!Rollback) = <<>>
  BY <1>1
<1>. QED
  BY <1>1, <1>2, <1>3

\* Every change a method may make.
AnyChange(m) == Single!Changing(m, Single!Effects \cup {"publish", "alias", "unpublish"},
                                Single!Waits, {<<>>, Single!Rollback})

\* A change of some kinds is one of more kinds.
LEMMA WiderChange ==
  ASSUME NEW m, NEW E, NEW W, NEW U, NEW E1, NEW W1, NEW U1,
         E \subseteq E1, W \subseteq W1, U \subseteq U1,
         NEW x \in Single!Changing(m, E, W, U)
  PROVE  x \in Single!Changing(m, E1, W1, U1)
BY DEF Single!Changing

\* What the steps of a program are, by what they do.
LEMMA StepKinds ==
  ASSUME NEW m, NEW x \in Single!Steps(m)
  PROVE  /\ x.do = "change" => x \in AnyChange(m)
         /\ x.do = "page" => x = Single!ToPage
         /\ x.do \notin {"change", "page"} =>
              x \in Single!Looks(m) \/ x \in Single!Acts(m) \/ x \in Single!Tags(m)
         /\ x.do \in {"when", "maybe"} => x.steps \in Seq(Single!Steps(m))
<1>. DEFINE A == Single!Effects \cup {"publish", "alias", "unpublish"}
            U == {<<>>, Single!Rollback}
<1>1. /\ Single!Looks(m) \subseteq Single!Steps(m) /\ Single!Acts(m) \subseteq Single!Steps(m)
      /\ Single!Tags(m) \subseteq Single!Steps(m)
  BY DEF Single!Steps
<1>2. CASE x \in Single!Looks(m)
  BY <1>1, <1>2, LookSteps, SeqMonotonic
<1>3. CASE x \in Single!Acts(m)
  <2>1. x.do = "change" => x \in AnyChange(m)
    <3> SUFFICES ASSUME x.do = "change"
                 PROVE  x \in AnyChange(m)
      OBVIOUS
    <3>1. x \in Single!Changing(m, Single!Effects, Single!Waits, {<<>>})
      BY <1>3, ActSteps
    <3>2. Single!Effects \subseteq A /\ {<<>>} \subseteq U
      OBVIOUS
    <3>. HIDE DEF A, U
    <3>3. x \in Single!Changing(m, A, Single!Waits, U)
      BY <3>1, <3>2, WiderChange
    <3>. QED
      BY <3>3 DEF AnyChange, A, U
  <2>. QED
    BY <1>1, <1>3, <2>1, ActSteps, SeqMonotonic
<1>4. CASE x \in Single!Publishing(m)
  <2>1. x.do = "change" /\ x \in Single!Changing(m, {"publish"}, Single!Waits, {<<>>})
    BY <1>4, PublishSteps
  <2>2. {"publish"} \subseteq A /\ {<<>>} \subseteq U
    OBVIOUS
  <2>. HIDE DEF A, U
  <2>3. x \in Single!Changing(m, A, Single!Waits, U)
    BY <2>1, <2>2, WiderChange
  <2>. QED
    BY <2>1, <2>3 DEF AnyChange, A, U
<1>5. CASE x \in Single!Tags(m)
  <2>1. x.do = "change" => x \in AnyChange(m)
    <3> SUFFICES ASSUME x.do = "change"
                 PROVE  x \in AnyChange(m)
      OBVIOUS
    <3>1. x \in Single!Changing(m, {"alias"}, {"no"}, {Single!Rollback})
      BY <1>5, TagSteps
    <3>2. {"alias"} \subseteq A /\ {Single!Rollback} \subseteq U /\ {"no"} \subseteq Single!Waits
      BY DEF Single!Waits
    <3>. HIDE DEF A, U
    <3>3. x \in Single!Changing(m, A, Single!Waits, U)
      BY <3>1, <3>2, WiderChange
    <3>. QED
      BY <3>3 DEF AnyChange, A, U
  <2>. QED
    BY <1>1, <1>5, <2>1, TagSteps, SeqMonotonic
<1>6. CASE x = Single!ToPage
  BY <1>6 DEF Single!ToPage
<1>7. CASE x = Single!Rollback[1]
  <2>1. x \in Single!Changing(m, {"unpublish"}, Single!Waits, {<<>>})
    BY <1>7, RollbackSteps
  <2>2. x.do = "change"
    BY <2>1, ChangingSteps
  <2>3. {"unpublish"} \subseteq A /\ {<<>>} \subseteq U
    OBVIOUS
  <2>. HIDE DEF A, U
  <2>4. x \in Single!Changing(m, A, Single!Waits, U)
    BY <2>1, <2>3, WiderChange
  <2>. QED
    BY <2>2, <2>4 DEF AnyChange, A, U
<1>. QED
  BY <1>2, <1>3, <1>4, <1>5, <1>6, <1>7 DEF Single!Steps

\* The first step of a flow, by where it is.
LEMMA FlowHead ==
  ASSUME NEW m, NEW s \in Seq(Single!Steps(m)), s # <<>>,
         NEW a \in 0 .. Len(s), NEW b \in 0 .. Len(s), NEW d \in 0 .. Len(s), a <= b, b <= d,
         Single!Flow(m, s, a, b, d)
  PROVE  /\ a > 0 => s[1] \in Single!Looks(m)
         /\ a = 0 /\ b > 0 => s[1] \in Single!Acts(m)
         /\ b = 0 /\ d > 0 => s[1] \in Single!Publishing(m)
         /\ d = 0 => s[1] = Single!ToPage
<1>1. Len(s) \in Nat \ {0}
  BY Shortened
<1>. QED
  BY <1>1 DEF Single!Flow, Single!EndsInPage

\* What holds of a range of s holds of the same steps in t, k - 1 further on.
LEMMA Shifted ==
  ASSUME NEW s, NEW t, NEW k \in Nat, NEW n \in Nat,
         \A i \in k + 1 .. k + n - 1 : t[i] = s[i - k + 1],
         NEW x \in Nat, NEW y \in Nat, x >= 2, y <= n,
         NEW P, \A i \in x .. y : s[i] \in P
  PROVE  \A i \in x + k - 1 .. y + k - 1 : t[i] \in P
<1> SUFFICES ASSUME NEW i \in x + k - 1 .. y + k - 1
             PROVE  t[i] \in P
  OBVIOUS
<1>1. i \in k + 1 .. k + n - 1
  OBVIOUS
<1>2. i - k + 1 \in x .. y
  OBVIOUS
<1>. QED
  BY <1>1, <1>2

\* The same of the end of a program.
LEMMA EndShifted ==
  ASSUME NEW m, NEW s, NEW t, NEW k \in Nat, Len(s) \in Nat, Len(t) = k + Len(s) - 1,
         \A i \in k + 1 .. k + Len(s) - 1 : t[i] = s[i - k + 1],
         NEW e \in Nat, e >= 2, Single!EndsInPage(m, s, e)
  PROVE  Single!EndsInPage(m, t, e + k - 1)
<1>1. e + k - 1 <= Len(t) => t[e + k - 1] = Single!ToPage
  <2> SUFFICES ASSUME e + k - 1 <= Len(t)
               PROVE  t[e + k - 1] = Single!ToPage
    OBVIOUS
  <2>1. e + k - 1 \in k + 1 .. k + Len(s) - 1 /\ (e + k - 1) - k + 1 = e /\ e <= Len(s)
    OBVIOUS
  <2>. QED
    BY <2>1 DEF Single!EndsInPage
<1>2. \A i \in (e + k - 1) + 1 .. Len(t) : t[i] \in Single!Looks(m)
  <2>1. \A i \in (e + 1) + k - 1 .. Len(s) + k - 1 : t[i] \in Single!Looks(m)
    <3>1. \A i \in e + 1 .. Len(s) : s[i] \in Single!Looks(m)
      BY DEF Single!EndsInPage
    <3>2. e + 1 \in Nat /\ e + 1 >= 2 /\ Len(s) <= Len(s)
      OBVIOUS
    <3>. QED
      BY <3>1, <3>2, Shifted
  <2>2. (e + 1) + k - 1 = (e + k - 1) + 1 /\ Len(s) + k - 1 = Len(t)
    OBVIOUS
  <2>. QED
    BY <2>1, <2>2
<1>. QED
  BY <1>1, <1>2 DEF Single!EndsInPage

\* What follows the b-th step of a flow, as a flow.
Rest(m, s, b, d) ==
  /\ b < d => s[b + 1] \in Single!Publishing(m)
  /\ \A i \in b + 2 .. d : s[i] \in Single!Tags(m)
  /\ Single!EndsInPage(m, s, d + 1)

\* The rest of a program, k - 1 further on.
LEMMA RestShifted ==
  ASSUME NEW m, NEW s, NEW t, NEW k \in Nat, Len(s) \in Nat, Len(t) = k + Len(s) - 1,
         \A i \in k + 1 .. k + Len(s) - 1 : t[i] = s[i - k + 1],
         NEW b \in Nat, NEW d \in Nat, b >= 1, b <= d, d <= Len(s), Rest(m, s, b, d)
  PROVE  Rest(m, t, b + k - 1, d + k - 1)
<1>1. b + k - 1 < d + k - 1 => t[(b + k - 1) + 1] \in Single!Publishing(m)
  <2> SUFFICES ASSUME b < d
               PROVE  t[(b + k - 1) + 1] \in Single!Publishing(m)
    OBVIOUS
  <2>1. b + k \in k + 1 .. k + Len(s) - 1 /\ (b + k) - k + 1 = b + 1
        /\ (b + k - 1) + 1 = b + k
    OBVIOUS
  <2>2. t[b + k] = s[b + 1]
    BY <2>1
  <2>. QED
    BY <2>1, <2>2 DEF Rest
<1>2. \A i \in (b + k - 1) + 2 .. d + k - 1 : t[i] \in Single!Tags(m)
  <2>1. \A i \in b + 2 .. d : s[i] \in Single!Tags(m)
    BY DEF Rest
  <2>2. b + 2 \in Nat /\ b + 2 >= 2 /\ (b + 2) + k - 1 = (b + k - 1) + 2
    OBVIOUS
  <2>3. \A i \in (b + 2) + k - 1 .. d + k - 1 : t[i] \in Single!Tags(m)
    BY <2>1, <2>2, Shifted
  <2>. QED
    BY <2>2, <2>3
<1>3. Single!EndsInPage(m, t, (d + k - 1) + 1)
  <2>1. Single!EndsInPage(m, s, d + 1)
    BY DEF Rest
  <2>2. d + 1 \in Nat /\ d + 1 >= 2 /\ (d + 1) + k - 1 = (d + k - 1) + 1
    OBVIOUS
  <2>3. Single!EndsInPage(m, t, (d + 1) + k - 1)
    BY <2>1, <2>2, EndShifted
  <2>. QED
    BY <2>2, <2>3
<1>. QED
  BY <1>1, <1>2, <1>3 DEF Rest

\* A flow looks, acts, and then is such a rest.
LEMMA FlowIsRest ==
  ASSUME NEW m, NEW s, NEW a, NEW b, NEW d
  PROVE  Single!Flow(m, s, a, b, d) <=>
           /\ \A i \in 1 .. a : s[i] \in Single!Looks(m)
           /\ \A i \in a + 1 .. b : s[i] \in Single!Acts(m)
           /\ Rest(m, s, b, d)
BY DEF Single!Flow, Rest

\* The steps that a step expands to are of its kind.
LEMMA Expansion ==
  ASSUME NEW T, NEW x, NEW u, x.do \in {"when", "maybe"} => x.steps \in Seq(T),
         u = <<>> \/ (x.do \in {"when", "maybe"} /\ u = x.steps)
  PROVE  u \in Seq(T) /\ \A i \in 1 .. Len(u) : u[i] \in T
<1>1. u \in Seq(T)
  BY EmptySeq
<1>. QED
  BY <1>1, ElementOfSeq

\* What is left is a flow if what there was is one.
GoesOn(m, s, a, b, d, t) ==
  \E a1, b1, d1 \in 0 .. Len(t) :
    /\ a1 <= b1 /\ b1 <= d1 /\ Single!Flow(m, t, a1, b1, d1)
    /\ a = 0 => a1 = 0
    /\ b = d => b1 = d1
    /\ Single!CopiesFirst(m, s, a, b, d) => Single!CopiesFirst(m, t, a1, b1, d1)

\* A flow goes on after a step that is neither a change nor the page, with the
\* steps in it or without.
LEMMA FlowAdvances ==
  ASSUME NEW m, NEW s \in Seq(Single!Steps(m)), s # <<>>,
         NEW a \in 0 .. Len(s), NEW b \in 0 .. Len(s), NEW d \in 0 .. Len(s), a <= b, b <= d,
         Single!Flow(m, s, a, b, d), s[1].do \notin {"change", "page"},
         NEW u, u = <<>> \/ (s[1].do \in {"when", "maybe"} /\ u = s[1].steps),
         NEW t, t = u \o Tail(s)
  PROVE  GoesOn(m, s, a, b, d, t)
<1>. DEFINE S == Single!Steps(m)
            k == Len(u)
            b1 == b + k - 1
            d1 == d + k - 1
<1>1. s[1] \in S
  BY Shortened
<1>2. u \in Seq(S)
  BY <1>1, StepKinds, Expansion
<1>3. /\ Len(s) \in Nat \ {0} /\ k \in Nat /\ Len(t) = k + Len(s) - 1
      /\ \A i \in 1 .. k : t[i] = u[i]
      /\ \A i \in k + 1 .. k + Len(s) - 1 : t[i] = s[i - k + 1]
  BY <1>2, Replaced
<1>. HIDE DEF k, S
<1>8. Len(s) \in Nat \ {0} /\ k \in Nat /\ Len(t) = k + Len(s) - 1
  BY <1>3
<1>9. \A i \in k + 1 .. k + Len(s) - 1 : t[i] = s[i - k + 1]
  BY <1>3
<1>4. /\ \A i \in 1 .. a : s[i] \in Single!Looks(m)
      /\ \A i \in a + 1 .. b : s[i] \in Single!Acts(m)
      /\ Rest(m, s, b, d)
  BY FlowIsRest
<1>5. CASE a > 0
  <2>. DEFINE a1 == a + k - 1
  <2>1. s[1] \in Single!Looks(m)
    BY <1>5, FlowHead
  <2>2. \A i \in 1 .. k : t[i] \in Single!Looks(m)
    BY <1>3, <2>1, LookSteps, Expansion DEF k
  <2>3. \A i \in 2 + k - 1 .. a + k - 1 : t[i] \in Single!Looks(m)
    <3>1. \A i \in 2 .. a : s[i] \in Single!Looks(m)
      BY <1>4
    <3>2. 2 \in Nat /\ 2 >= 2 /\ a \in Nat /\ a <= Len(s) /\ Len(s) \in Nat /\ k \in Nat
      BY <1>8
    <3>. DEFINE L == Single!Looks(m)
                n == Len(s)
    <3>. HIDE DEF L, n
    <3>3. \A i \in k + 1 .. k + n - 1 : t[i] = s[i - k + 1]
      BY <1>9 DEF n
    <3>4. (\A i \in 2 .. a : s[i] \in L) /\ a <= n /\ n \in Nat
      BY <3>1, <3>2 DEF L, n
    <3>5. ASSUME NEW i \in 2 + k - 1 .. a + k - 1
          PROVE  t[i] \in L
      <4>1. i \in k + 1 .. k + n - 1 /\ i - k + 1 \in 2 .. a
        BY <3>2, <3>4
      <4>. QED
        BY <3>3, <3>4, <4>1
    <3>. QED
      BY <3>5 DEF L
  <2>4. \A i \in 1 .. a1 : t[i] \in Single!Looks(m)
    <3> SUFFICES ASSUME NEW i \in 1 .. a1
                 PROVE  t[i] \in Single!Looks(m)
      OBVIOUS
    <3>1. i \in 1 .. k \/ i \in 2 + k - 1 .. a + k - 1
      BY <1>3
    <3>. QED
      BY <2>2, <2>3, <3>1
  <2>5. \A i \in a1 + 1 .. b1 : t[i] \in Single!Acts(m)
    <3>1. a + 1 \in Nat /\ a + 1 >= 2 /\ b \in Nat /\ (a + 1) + k - 1 = a1 + 1
      BY <1>5, <1>8
    <3>2. \A i \in (a + 1) + k - 1 .. b + k - 1 : t[i] \in Single!Acts(m)
      BY <1>4, <1>8, <1>9, <3>1, Shifted
    <3>. QED
      BY <3>1, <3>2
  <2>6. Rest(m, t, b1, d1)
    <3>1. b \in Nat /\ d \in Nat /\ b >= 1 /\ d <= Len(s) /\ Len(s) \in Nat
      BY <1>5, <1>8
    <3>. QED
      BY <1>4, <1>8, <1>9, <3>1, RestShifted
  <2>7. Single!Flow(m, t, a1, b1, d1)
    BY <2>4, <2>5, <2>6, FlowIsRest
  <2>8. Single!CopiesFirst(m, s, a, b, d) => Single!CopiesFirst(m, t, a1, b1, d1)
    <3> SUFFICES ASSUME Single!CopiesFirst(m, s, a, b, d), m = Single!MigrateInstance
                 PROVE  b1 = d1 /\ (a1 < b1 => t[a1 + 1].do = "change"
                                               /\ t[a1 + 1].effect = "create")
      BY DEF Single!CopiesFirst
    <3>1. b = d /\ (a < b => s[a + 1].do = "change" /\ s[a + 1].effect = "create")
      BY DEF Single!CopiesFirst
    <3>2. a1 < b1 => a < b /\ a1 + 1 \in k + 1 .. k + Len(s) - 1 /\ (a1 + 1) - k + 1 = a + 1
      BY <1>3, <1>5
    <3>3. a1 < b1 => t[a1 + 1] = s[a + 1]
      BY <1>3, <3>2
    <3>. QED
      BY <3>1, <3>2, <3>3
  <2>9. a1 \in 0 .. Len(t) /\ b1 \in 0 .. Len(t) /\ d1 \in 0 .. Len(t)
        /\ a1 <= b1 /\ b1 <= d1 /\ (b = d => b1 = d1)
    BY <1>5, <1>8
  <2>. HIDE DEF a1, b1, d1
  <2>. QED
    BY <1>5, <2>7, <2>8, <2>9 DEF GoesOn
<1>6. CASE a = 0 /\ b > 0
  <2>1. s[1] \in Single!Acts(m)
    BY <1>6, FlowHead
  <2>2. \A i \in 1 .. k : t[i] \in Single!Acts(m)
    BY <1>3, <2>1, ActSteps, Expansion DEF k
  <2>3. \A i \in 2 + k - 1 .. b + k - 1 : t[i] \in Single!Acts(m)
    <3>1. \A i \in 2 .. b : s[i] \in Single!Acts(m)
      BY <1>4, <1>6
    <3>2. 2 \in Nat /\ 2 >= 2 /\ b \in Nat /\ b <= Len(s) /\ Len(s) \in Nat /\ k \in Nat
      BY <1>8
    <3>. DEFINE A == Single!Acts(m)
                n == Len(s)
    <3>. HIDE DEF A, n
    <3>3. \A i \in k + 1 .. k + n - 1 : t[i] = s[i - k + 1]
      BY <1>9 DEF n
    <3>4. (\A i \in 2 .. b : s[i] \in A) /\ b <= n /\ n \in Nat
      BY <3>1, <3>2 DEF A, n
    <3>5. ASSUME NEW i \in 2 + k - 1 .. b + k - 1
          PROVE  t[i] \in A
      <4>1. i \in k + 1 .. k + n - 1 /\ i - k + 1 \in 2 .. b
        BY <3>2, <3>4
      <4>. QED
        BY <3>3, <3>4, <4>1
    <3>. QED
      BY <3>5 DEF A
  <2>4. \A i \in 1 .. b1 : t[i] \in Single!Acts(m)
    <3> SUFFICES ASSUME NEW i \in 1 .. b1
                 PROVE  t[i] \in Single!Acts(m)
      OBVIOUS
    <3>1. i \in 1 .. k \/ i \in 2 + k - 1 .. b + k - 1
      BY <1>3
    <3>. QED
      BY <2>2, <2>3, <3>1
  <2>5. Rest(m, t, b1, d1)
    <3>1. b \in Nat /\ d \in Nat /\ b >= 1 /\ d <= Len(s) /\ Len(s) \in Nat
      BY <1>6, <1>8
    <3>. QED
      BY <1>4, <1>8, <1>9, <3>1, RestShifted
  <2>6. Single!Flow(m, t, 0, b1, d1)
    <3>. HIDE DEF b1, d1
    <3>1. 0 + 1 = 1 /\ \A i \in 1 .. 0 : t[i] \in Single!Looks(m)
      OBVIOUS
    <3>2. \A i \in 0 + 1 .. b1 : t[i] \in Single!Acts(m)
      BY <2>4, <3>1
    <3>. QED
      BY <2>5, <3>1, <3>2, FlowIsRest
  <2>7. Single!CopiesFirst(m, s, a, b, d) => m # Single!MigrateInstance
    BY <1>6 DEF Single!CopiesFirst
  <2>8. Single!CopiesFirst(m, s, a, b, d) => Single!CopiesFirst(m, t, 0, b1, d1)
    BY <2>7 DEF Single!CopiesFirst
  <2>9. 0 \in 0 .. Len(t) /\ b1 \in 0 .. Len(t) /\ d1 \in 0 .. Len(t)
        /\ 0 <= b1 /\ b1 <= d1 /\ (b = d => b1 = d1)
    BY <1>6, <1>8
  <2>. HIDE DEF b1, d1
  <2>. QED
    BY <1>6, <2>6, <2>8, <2>9 DEF GoesOn
<1>7. CASE b = 0
  BY <1>7, FlowHead, PublishSteps DEF Single!ToPage
<1>. QED
  BY <1>5, <1>6, <1>7

\* Tail as a shift.
LEMMA Without ==
  ASSUME NEW T, NEW s \in Seq(T), s # <<>>
  PROVE  /\ Len(s) \in Nat \ {0} /\ Tail(s) \in Seq(T) /\ Len(Tail(s)) = 0 + Len(s) - 1
         /\ Head(s) = s[1] /\ s[1] \in T
         /\ \A i \in 0 + 1 .. 0 + Len(s) - 1 : Tail(s)[i] = s[i - 0 + 1]
<1>1. /\ Len(s) \in Nat \ {0} /\ Tail(s) \in Seq(T) /\ Len(Tail(s)) = Len(s) - 1
      /\ Head(s) = s[1] /\ s[1] \in T
      /\ \A i \in 1 .. Len(s) - 1 : Tail(s)[i] = s[i + 1]
  BY Shortened
<1>. QED
  BY <1>1

\* A change ends the looking; it is one of the acts, or the publication after
\* which only tags are left.
LEMMA FlowChanges ==
  ASSUME NEW m, NEW s \in Seq(Single!Steps(m)), s # <<>>,
         NEW a \in 0 .. Len(s), NEW b \in 0 .. Len(s), NEW d \in 0 .. Len(s), a <= b, b <= d,
         Single!Flow(m, s, a, b, d), s[1].do = "change"
  PROVE  /\ a = 0
         /\ \/ /\ b > 0 /\ s[1] \in Single!Acts(m)
               /\ b - 1 \in 0 .. Len(Tail(s)) /\ d - 1 \in 0 .. Len(Tail(s)) /\ b - 1 <= d - 1
               /\ Single!Flow(m, Tail(s), 0, b - 1, d - 1)
            \/ /\ b = 0 /\ d > 0 /\ s[1] \in Single!Publishing(m)
               /\ d - 1 \in 0 .. Len(Tail(s))
               /\ Single!TagFlow(m, Tail(s), d - 1)
<1>. DEFINE t == Tail(s)
<1>1. /\ Len(s) \in Nat \ {0} /\ Len(t) = 0 + Len(s) - 1
      /\ \A i \in 0 + 1 .. 0 + Len(s) - 1 : t[i] = s[i - 0 + 1]
  BY Without
<1>2. a = 0 /\ d > 0
  BY FlowHead, LookSteps DEF Single!ToPage
<1>. HIDE DEF t
<1>3. /\ \A i \in 1 .. b : s[i] \in Single!Acts(m)
      /\ Rest(m, s, b, d)
  BY <1>2, FlowIsRest
<1>4. CASE b > 0
  <2>1. b \in Nat /\ d \in Nat /\ b >= 1 /\ d <= Len(s) /\ Len(s) \in Nat /\ 0 \in Nat
        /\ b <= Len(s) /\ b + 0 - 1 = b - 1 /\ d + 0 - 1 = d - 1
    BY <1>1, <1>4
  <2>2. Rest(m, t, b + 0 - 1, d + 0 - 1)
    BY <1>1, <1>3, <2>1, RestShifted
  <2>3. \A i \in 2 + 0 - 1 .. b + 0 - 1 : t[i] \in Single!Acts(m)
    <3>1. \A i \in 2 .. b : s[i] \in Single!Acts(m)
      BY <1>3, <2>1
    <3>. QED
      BY <1>1, <2>1, <3>1, Shifted
  <2>4. 2 + 0 - 1 = 1 /\ 0 + 1 = 1 /\ \A i \in 1 .. 0 : t[i] \in Single!Looks(m)
    OBVIOUS
  <2>5. \A i \in 0 + 1 .. b - 1 : t[i] \in Single!Acts(m)
    BY <2>1, <2>3, <2>4
  <2>6. Single!Flow(m, t, 0, b - 1, d - 1)
    BY <2>1, <2>2, <2>4, <2>5, FlowIsRest
  <2>7. b - 1 \in 0 .. Len(t) /\ d - 1 \in 0 .. Len(t) /\ b - 1 <= d - 1
    BY <1>1, <2>1
  <2>. QED
    BY <1>2, <1>4, <2>6, <2>7, FlowHead DEF t
<1>5. CASE b = 0
  <2>1. s[1] \in Single!Publishing(m)
    BY <1>2, <1>5, FlowHead
  <2>2. d \in Nat /\ d <= Len(s) /\ Len(s) \in Nat /\ 0 \in Nat /\ 2 \in Nat /\ 2 >= 2
        /\ d + 1 \in Nat /\ d + 1 >= 2 /\ d + 0 - 1 = d - 1 /\ (d + 1) + 0 - 1 = (d - 1) + 1
        /\ 2 + 0 - 1 = 1 /\ 0 + 2 = 2
    BY <1>1, <1>2
  <2>3. \A i \in 2 .. d : s[i] \in Single!Tags(m)
    BY <1>3, <1>5, <2>2 DEF Rest
  <2>4. \A i \in 2 + 0 - 1 .. d + 0 - 1 : t[i] \in Single!Tags(m)
    BY <1>1, <2>2, <2>3, Shifted
  <2>5. Single!EndsInPage(m, t, (d + 1) + 0 - 1)
    <3>1. Single!EndsInPage(m, s, d + 1)
      BY <1>3 DEF Rest
    <3>. QED
      BY <1>1, <2>2, <3>1, EndShifted
  <2>6. Single!TagFlow(m, t, d - 1)
    BY <2>2, <2>4, <2>5 DEF Single!TagFlow
  <2>7. d - 1 \in 0 .. Len(t)
    BY <1>1, <1>2
  <2>. QED
    BY <1>2, <1>5, <2>1, <2>6, <2>7 DEF t
<1>. QED
  BY <1>4, <1>5

\* At the page everything else is done, and only looks follow.
LEMMA PageEnds ==
  ASSUME NEW m, NEW s \in Seq(Single!Steps(m)), s # <<>>, Single!EndsInPage(m, s, 1)
  PROVE  Tail(s) \in Seq(Single!Looks(m))
<1>1. /\ Len(s) \in Nat \ {0} /\ Tail(s) \in Seq(Single!Steps(m)) /\ Len(Tail(s)) = Len(s) - 1
      /\ \A i \in 1 .. Len(s) - 1 : Tail(s)[i] = s[i + 1]
  BY Shortened
<1>2. \A i \in 1 .. Len(Tail(s)) : Tail(s)[i] \in Single!Looks(m)
  <2> SUFFICES ASSUME NEW i \in 1 .. Len(Tail(s))
               PROVE  Tail(s)[i] \in Single!Looks(m)
    OBVIOUS
  <2>1. i + 1 \in 1 + 1 .. Len(s) /\ i \in 1 .. Len(s) - 1
    BY <1>1
  <2>. QED
    BY <1>1, <2>1 DEF Single!EndsInPage
<1>3. Tail(s) \in [1 .. Len(Tail(s)) -> Single!Looks(m)] /\ Len(Tail(s)) \in Nat
  <2>1. Tail(s) \in [1 .. Len(Tail(s)) -> Single!Steps(m)] /\ Len(Tail(s)) \in Nat
    BY <1>1, LenProperties
  <2>. QED
    BY <1>2, <2>1
<1>. DEFINE u == Tail(s)
            L == Single!Looks(m)
<1>. HIDE DEF u, L
<1>4. u \in [1 .. Len(u) -> L] /\ Len(u) \in Nat
  BY <1>3 DEF u, L
<1>5. u \in Seq(L)
  BY <1>4, SeqDef
<1>. QED
  BY <1>5 DEF u, L

\* A program that has come to its page has only looks left.
LEMMA FlowPages ==
  ASSUME NEW m, NEW s \in Seq(Single!Steps(m)), s # <<>>,
         NEW a \in 0 .. Len(s), NEW b \in 0 .. Len(s), NEW d \in 0 .. Len(s), a <= b, b <= d,
         Single!Flow(m, s, a, b, d), s[1].do = "page"
  PROVE  Tail(s) \in Seq(Single!Looks(m))
<1>1. d = 0 /\ d + 1 = 1
  BY FlowHead, LookSteps, ActSteps, PublishSteps
<1>2. Single!EndsInPage(m, s, 1)
  BY <1>1 DEF Single!Flow
<1>. QED
  BY <1>2, PageEnds

\* The same of a program that has published its image.
LEMMA TagHead ==
  ASSUME NEW m, NEW s \in Seq(Single!Steps(m)), s # <<>>, NEW d \in 0 .. Len(s),
         Single!TagFlow(m, s, d)
  PROVE  IF d > 0 THEN s[1] \in Single!Tags(m) ELSE s[1] = Single!ToPage
<1>1. Len(s) \in Nat \ {0}
  BY Shortened
<1>. QED
  BY <1>1 DEF Single!TagFlow, Single!EndsInPage

\* A program that tags goes on tagging.
LEMMA TagAdvances ==
  ASSUME NEW m, NEW s \in Seq(Single!Steps(m)), s # <<>>, NEW d \in 0 .. Len(s),
         Single!TagFlow(m, s, d), s[1].do # "page",
         NEW u, u = <<>> \/ (s[1].do \in {"when", "maybe"} /\ u = s[1].steps),
         NEW t, t = u \o Tail(s)
  PROVE  \E d1 \in 0 .. Len(t) : Single!TagFlow(m, t, d1)
<1>. DEFINE S == Single!Steps(m)
            k == Len(u)
            d1 == d + k - 1
<1>1. d > 0 /\ s[1] \in Single!Tags(m) /\ s[1] \in S
  BY TagHead, Shortened DEF Single!ToPage
<1>2. u \in Seq(S)
  BY <1>1, StepKinds, Expansion
<1>3. /\ Len(s) \in Nat \ {0} /\ k \in Nat /\ Len(t) = k + Len(s) - 1
      /\ \A i \in 1 .. k : t[i] = u[i]
      /\ \A i \in k + 1 .. k + Len(s) - 1 : t[i] = s[i - k + 1]
  BY <1>2, Replaced
<1>. HIDE DEF k, S
<1>4. \A i \in 1 .. k : t[i] \in Single!Tags(m)
  BY <1>1, <1>3, TagSteps, Expansion DEF k
<1>5. d \in Nat /\ d <= Len(s) /\ Len(s) \in Nat /\ d + 1 \in Nat /\ d + 1 >= 2
      /\ (d + 1) + k - 1 = d1 + 1
  BY <1>1, <1>3
<1>6. \A i \in 2 + k - 1 .. d + k - 1 : t[i] \in Single!Tags(m)
  <2>1. \A i \in 2 .. d : s[i] \in Single!Tags(m)
    BY <1>5 DEF Single!TagFlow
  <2>2. 2 \in Nat /\ 2 >= 2 /\ d \in Nat /\ d <= Len(s) /\ Len(s) \in Nat /\ k \in Nat
    BY <1>3, <1>5
  <2>. QED
    BY <1>3, <2>1, <2>2, Shifted
<1>7. \A i \in 1 .. d1 : t[i] \in Single!Tags(m)
  <2> SUFFICES ASSUME NEW i \in 1 .. d1
               PROVE  t[i] \in Single!Tags(m)
    OBVIOUS
  <2>1. i \in 1 .. k \/ i \in 2 + k - 1 .. d + k - 1
    BY <1>3
  <2>. QED
    BY <1>4, <1>6, <2>1
<1>8. Single!EndsInPage(m, t, (d + 1) + k - 1)
  <2>1. Single!EndsInPage(m, s, d + 1)
    BY DEF Single!TagFlow
  <2>. QED
    BY <1>3, <1>5, <2>1, EndShifted
<1>9. Single!TagFlow(m, t, d1)
  <2>. HIDE DEF d1
  <2>. QED
    BY <1>5, <1>7, <1>8 DEF Single!TagFlow
<1>10. d1 \in 0 .. Len(t)
  BY <1>1, <1>3
<1>. HIDE DEF d1
<1>. QED
  BY <1>9, <1>10

\* The page of a program that has published its image.
LEMMA TagPages ==
  ASSUME NEW m, NEW s \in Seq(Single!Steps(m)), s # <<>>, NEW d \in 0 .. Len(s),
         Single!TagFlow(m, s, d), s[1].do = "page"
  PROVE  Tail(s) \in Seq(Single!Looks(m))
<1>1. d = 0 /\ d + 1 = 1
  BY TagHead, TagSteps
<1>2. Single!EndsInPage(m, s, 1)
  BY <1>1 DEF Single!TagFlow
<1>. QED
  BY <1>2, PageEnds

-----------------------------------------------------------------------------
(* Calls: the invariant.                                                   *)

AllEffects == Single!Effects \cup {"publish", "alias", "unpublish"}

OpTypes(m) == [state : {"none", "succeeded", "over"}]
              \cup [state : {"running"}, change : AnyChange(m)]
              \cup [state : {"failed"}, error : Single!Errors]

Typed ==
  /\ Single!TypeOK
  /\ steps \in Seq(Single!Steps(method))
  /\ operation \in OpTypes(method)
  /\ sent \in Nat
  /\ done \in Seq(AllEffects)
  /\ seen \in [gone : BOOLEAN, taken : BOOLEAN, used : BOOLEAN, rev : Nat]
  /\ clean \in BOOLEAN

Pending == operation.state \in {"running", "succeeded", "failed"}
Undecided == status = "none" /\ reason = "none"

\* The numbers: what has been asked for, performed, and is under way.
Books ==
  /\ operation.state = "running" => Len(done) < sent
  /\ Pending => sent > 0
  /\ Undecided =>
       IF Pending
         THEN /\ steps # <<>> /\ steps[1].do = "change" /\ steps[1].wait # "no"
              /\ operation.state = "running" => operation.change = steps[1]
              /\ Len(done) = IF operation.state = "succeeded" THEN sent ELSE sent - 1
         ELSE Len(done) = sent
  /\ stage = "page" => reason = "none" /\ Len(done) = sent /\ ~Pending
  /\ status = "ok" => Len(done) = sent /\ ~Pending
  /\ stage = "call" /\ status \in Single!Refusals /\ sent <= 1 =>
       done = <<>> /\ operation.state # "running"
  /\ reason # "none" => /\ sent >= 2 /\ stage = "call"
                        /\ method \notin Single!PromisesConflict \cup {Single!MigrateInstance}

\* What is left of the program.
InFlow(a, b, d) ==
  /\ a <= b /\ b <= d
  /\ Single!Flow(method, steps, a, b, d)
  /\ sent = 0 => Single!CopiesFirst(method, steps, a, b, d)
  /\ sent > 0 => a = 0
  /\ method = Single!MigrateInstance => b = d
  /\ daemon.image => operation.state = "succeeded" /\ b = 0 /\ d > 0

InTags(d) ==
  /\ sent > 0
  /\ method # Single!MigrateInstance
  /\ Single!TagFlow(method, steps, d)

Shape ==
  /\ Undecided /\ stage = "call" =>
       \/ \E a, b, d \in 0 .. Len(steps) : InFlow(a, b, d)
       \/ \E d \in 0 .. Len(steps) : InTags(d)
  /\ Undecided /\ stage = "page" => steps \in Seq(Single!Looks(method))
  /\ status = "none" /\ reason # "none" => steps \in {Single!Rollback, <<>>}

Migration ==
  method = Single!MigrateInstance =>
    /\ done # <<>> => done[1] = "create"
    /\ operation.state = "running" /\ done = <<>> => operation.change.effect = "create"

\* The image of a request that nothing has disturbed.
Rolled ==
  clean /\ client = "here" /\ stage = "call" =>
    /\ status \notin {"none", "ok"} => ~daemon.image /\ operation.state # "running"
    /\ status = "none" /\ reason # "none" =>
         /\ operation.state = "running" => operation.change = Single!Rollback[1]
         /\ operation.state \in {"succeeded", "failed"} => ~daemon.image
         /\ steps = <<>> => ~daemon.image /\ operation.state # "running"

\* What the client may be told.
Told(e) ==
  /\ e \in {"NotFound", "Conflict"} => e \in right
  /\ method \in Single!PromisesConflict /\ clean => e # "error"

Truthful ==
  /\ Single!Truths(daemon, seen) \subseteq right
  /\ seen.gone => "NotFound" \in right
  /\ seen.taken /\ Single!MindsName(method) => "Conflict" \in right
  /\ seen.used /\ Single!MindsUse(method) => "Conflict" \in right
  /\ Told(status) /\ Told(reason)
  /\ operation.state = "failed" => Told(operation.error)

CallInv == Typed /\ Books /\ Shape /\ Migration /\ Rolled /\ Truthful

\* Where a request stands that is about to do something else than a change.
LEMMA NotChanging ==
  ASSUME CallInv, status = "none", steps # <<>>, steps[1].do \notin {"change", "page"}
  PROVE  /\ reason = "none" /\ Undecided /\ ~Pending /\ stage \in {"call", "page"}
         /\ Len(done) = sent
         /\ steps[1] \in Single!Steps(method)
         /\ stage = "page" => steps[1] \in Single!Looks(method)
         /\ stage = "call" =>
              \/ steps[1] \in Single!Looks(method) /\ sent = 0 /\ ~daemon.image
              \/ steps[1] \in Single!Acts(method) /\ ~daemon.image
              \/ steps[1] \in Single!Tags(method) /\ sent > 0
<1>1. reason = "none"
  BY RollbackSteps DEF CallInv, Shape
<1>2. Undecided /\ ~Pending /\ Len(done) = sent
  BY <1>1 DEF CallInv, Books, Undecided
<1>3. /\ steps \in Seq(Single!Steps(method)) /\ sent \in Nat /\ stage \in {"call", "page"}
      /\ operation.state \in {"none", "running", "succeeded", "failed", "over"}
  BY DEF CallInv, Typed, Single!TypeOK
<1>4. steps[1] \in Single!Steps(method) /\ Len(steps) \in Nat \ {0}
  BY <1>3, Shortened
<1>5. ASSUME stage = "page"
      PROVE  steps[1] \in Single!Looks(method)
  <2>1. steps \in Seq(Single!Looks(method))
    BY <1>2, <1>5 DEF CallInv, Shape
  <2>. QED
    BY <2>1, Shortened
<1>6. ASSUME NEW a \in 0 .. Len(steps), NEW b \in 0 .. Len(steps), NEW d \in 0 .. Len(steps),
             InFlow(a, b, d)
      PROVE  \/ steps[1] \in Single!Looks(method) /\ sent = 0 /\ ~daemon.image
             \/ steps[1] \in Single!Acts(method) /\ ~daemon.image
  <2>1. /\ a <= b /\ b <= d /\ Single!Flow(method, steps, a, b, d)
        /\ (sent > 0 => a = 0)
        /\ ~daemon.image
    BY <1>2, <1>6 DEF InFlow, Pending
  <2>2. /\ a > 0 => steps[1] \in Single!Looks(method)
        /\ a = 0 /\ b > 0 => steps[1] \in Single!Acts(method)
        /\ b = 0 /\ d > 0 => steps[1] \in Single!Publishing(method)
        /\ d = 0 => steps[1] = Single!ToPage
    BY <1>3, <2>1, FlowHead
  <2>3. b > 0
    BY <2>1, <2>2, PublishSteps DEF Single!ToPage
  <2>. QED
    BY <1>3, <2>1, <2>2, <2>3
<1>7. ASSUME NEW d \in 0 .. Len(steps), InTags(d)
      PROVE  steps[1] \in Single!Tags(method) /\ sent > 0
  BY <1>3, <1>7, TagHead DEF InTags, Single!ToPage
<1>8. stage = "call" =>
              \/ steps[1] \in Single!Looks(method) /\ sent = 0 /\ ~daemon.image
              \/ steps[1] \in Single!Acts(method) /\ ~daemon.image
              \/ steps[1] \in Single!Tags(method) /\ sent > 0
  BY <1>2, <1>6, <1>7 DEF CallInv, Shape
<1>. QED
  BY <1>1, <1>2, <1>3, <1>4, <1>5, <1>8

\* A request goes on.
LEMMA Proceeds ==
  ASSUME CallInv, status = "none", steps # <<>>, steps[1].do \notin {"change", "page"},
         NEW u, u = <<>> \/ (steps[1].do \in {"when", "maybe"} /\ u = steps[1].steps),
         steps' = u \o Tail(steps),
         UNCHANGED <<method, stage, status, reason, client, sent, operation, done>>,
         daemon'.image = daemon.image, clean' => clean
  PROVE  steps' \in Seq(Single!Steps(method)) /\ Books' /\ Shape' /\ Migration' /\ Rolled'
<1>1. /\ reason = "none" /\ Undecided /\ ~Pending /\ stage \in {"call", "page"}
      /\ steps[1] \in Single!Steps(method) /\ Len(done) = sent
      /\ stage = "page" => steps[1] \in Single!Looks(method)
  BY NotChanging
<1>2. steps \in Seq(Single!Steps(method)) /\ sent \in Nat
  BY DEF CallInv, Typed
<1>3. u \in Seq(Single!Steps(method))
  BY <1>1, StepKinds, Expansion
<1>4. steps' \in Seq(Single!Steps(method))
  BY <1>2, <1>3, Replaced
<1>5. Books'
  BY <1>1 DEF CallInv, Books, Pending, Undecided
<1>6. Migration'
  BY DEF CallInv, Migration
<1>7. Rolled'
  BY <1>1 DEF CallInv, Rolled, Undecided
<1>8. CASE stage = "page"
  <2>1. steps \in Seq(Single!Looks(method)) /\ u \in Seq(Single!Looks(method))
    BY <1>1, <1>8, LookSteps, Expansion DEF CallInv, Shape
  <2>2. steps' \in Seq(Single!Looks(method))
    BY <2>1, Replaced
  <2>3. Shape'
    BY <1>1, <1>8, <2>2 DEF Shape, Undecided
  <2>. QED
    BY <1>4, <1>5, <1>6, <1>7, <2>3
<1>9. CASE stage = "call"
  <2>1. ASSUME NEW a \in 0 .. Len(steps), NEW b \in 0 .. Len(steps),
               NEW d \in 0 .. Len(steps), InFlow(a, b, d)
        PROVE  \E a1, b1, d1 \in 0 .. Len(steps') : InFlow(a1, b1, d1)'
    <3>1. /\ a <= b /\ b <= d /\ Single!Flow(method, steps, a, b, d)
          /\ sent > 0 => a = 0
          /\ sent = 0 => Single!CopiesFirst(method, steps, a, b, d)
          /\ method = Single!MigrateInstance => b = d
          /\ ~daemon.image
      BY <1>1, <2>1 DEF InFlow, Pending
    <3>. DEFINE t == u \o Tail(steps)
    <3>4. steps # <<>> /\ steps[1].do \notin {"change", "page"} /\ t = u \o Tail(steps)
          /\ (u = <<>> \/ (steps[1].do \in {"when", "maybe"} /\ u = steps[1].steps))
          /\ steps' = t
      OBVIOUS
    <3>. HIDE DEF t
    <3>5. GoesOn(method, steps, a, b, d, t)
      BY <1>2, <3>1, <3>4, FlowAdvances
    <3>2. PICK a1, b1, d1 \in 0 .. Len(t) :
            /\ a1 <= b1 /\ b1 <= d1 /\ Single!Flow(method, t, a1, b1, d1)
            /\ a = 0 => a1 = 0
            /\ b = d => b1 = d1
            /\ Single!CopiesFirst(method, steps, a, b, d)
                 => Single!CopiesFirst(method, t, a1, b1, d1)
      BY <3>5 DEF GoesOn
    <3>3. InFlow(a1, b1, d1)'
      BY <3>1, <3>2, <3>4 DEF InFlow
    <3>. QED
      BY <3>2, <3>3, <3>4
  <2>2. ASSUME NEW d \in 0 .. Len(steps), InTags(d)
        PROVE  \E d1 \in 0 .. Len(steps') : InTags(d1)'
    <3>1. PICK d1 \in 0 .. Len(steps') : Single!TagFlow(method, steps', d1)
      BY <1>2, <2>2, TagAdvances DEF InTags
    <3>. QED
      BY <2>2, <3>1 DEF InTags
  <2>3. Shape'
    BY <1>1, <1>9, <2>1, <2>2 DEF CallInv, Shape, Undecided
  <2>. QED
    BY <1>4, <1>5, <1>6, <1>7, <2>3
<1>. QED
  BY <1>1, <1>8, <1>9

\* A request gives up, with nothing of it under way.
LEMMA GivesUp ==
  ASSUME CallInv, status = "none", steps # <<>>, steps[1].do \notin {"change", "page"},
         NEW e \in Single!Errors, Single!Fail(e),
         stage = "call" /\ sent > 0 => e = "error",
         e = "error" => ~clean', clean' => clean,
         UNCHANGED <<method, stage, client, sent, operation, done, daemon>>
  PROVE  /\ steps' \in Seq(Single!Steps(method)) /\ status' = e /\ reason' = "none"
         /\ Books' /\ Shape' /\ Migration' /\ Rolled'
<1>1. /\ reason = "none" /\ Undecided /\ ~Pending /\ stage \in {"call", "page"}
      /\ Len(done) = sent
      /\ stage = "call" => ~daemon.image \/ sent > 0
  BY NotChanging
<1>2. steps \in Seq(Single!Steps(method)) /\ sent \in Nat /\ Head(steps) = steps[1]
  BY Shortened DEF CallInv, Typed
<1>3. steps' = <<>> /\ status' = e /\ reason' = "none"
  BY <1>1, <1>2 DEF Single!Fail, Single!Now
<1>4. e # "none" /\ e # "ok" /\ "error" \notin Single!Refusals
  BY DEF Single!Errors, Single!Refusals
<1>5. steps' \in Seq(Single!Steps(method))
  BY <1>3, EmptySeq
<1>6. ASSUME stage = "call", e \in Single!Refusals, sent <= 1
      PROVE  done = <<>> /\ operation.state # "running"
  <2>1. sent = 0
    BY <1>2, <1>4, <1>6
  <2>. QED
    BY <1>1, <2>1, EmptySeq DEF Pending, CallInv, Typed
<1>7. Books'
  BY <1>1, <1>3, <1>4, <1>6 DEF CallInv, Books, Pending, Undecided
<1>8. Migration'
  BY DEF CallInv, Migration
<1>9. Rolled'
  BY <1>1, <1>2, <1>3, <1>4 DEF CallInv, Rolled, Pending
<1>10. Shape'
  BY <1>3, <1>4 DEF Shape, Undecided
<1>. QED
  BY <1>3, <1>5, <1>7, <1>8, <1>9, <1>10

\* What a read returns.
Resources == [parent : BOOLEAN, there : BOOLEAN, used : BOOLEAN,
              taken : BOOLEAN, image : BOOLEAN, rev : Nat]

\* A read returns what may have been seen.
LEMMA SnapshotTyped ==
  ASSUME NEW d \in Resources
  PROVE  Single!Snapshot(d) \in [gone : BOOLEAN, taken : BOOLEAN, used : BOOLEAN, rev : Nat]
<1>1. (~d.there) \in BOOLEAN
  OBVIOUS
<1>2. d.taken \in BOOLEAN /\ d.used \in BOOLEAN /\ d.rev \in Nat
  BY DEF Resources
<1>. HIDE DEF Resources
<1>. QED
  BY <1>1, <1>2 DEF Single!Snapshot

\* The ghosts and what has been read, after a step of the request itself.
LEMMA TruthKept ==
  ASSUME CallInv, clean' => clean, UNCHANGED method,
         operation' = operation \/ (operation'.state = "failed" => Told(operation.error)'),
         seen' = seen \/ seen' = Single!Snapshot(daemon),
         right \subseteq right', Single!Truths(daemon', seen') \subseteq right',
         Told(status)', Told(reason)'
  PROVE  Truthful'
<1>1. /\ seen'.gone => "NotFound" \in right'
      /\ seen'.taken /\ Single!MindsName(method) => "Conflict" \in right'
      /\ seen'.used /\ Single!MindsUse(method) => "Conflict" \in right'
  <2>1. CASE seen' = seen
    BY <2>1 DEF CallInv, Truthful
  <2>2. CASE seen' = Single!Snapshot(daemon)
    <3>1. /\ seen'.gone <=> ~daemon.there
          /\ seen'.taken <=> daemon.taken
          /\ seen'.used <=> daemon.used
      BY <2>2 DEF Single!Snapshot
    <3>. QED
      BY <3>1 DEF CallInv, Truthful, Single!Truths
  <2>. QED
    BY <2>1, <2>2
<1>2. operation'.state = "failed" => Told(operation.error)'
  BY DEF CallInv, Truthful, Told
<1>3. (Single!Truths(daemon, seen) \subseteq right)'
  BY DEF Single!Truths
<1>. QED
  BY <1>1, <1>2, <1>3 DEF Truthful

\* A step of the request's own work that goes on.
LEMMA Onward ==
  ASSUME CallInv, status = "none", steps # <<>>, steps[1].do \notin {"change", "page"},
         NEW u, u = <<>> \/ (steps[1].do \in {"when", "maybe"} /\ u = steps[1].steps),
         steps' = u \o Tail(steps),
         UNCHANGED <<method, stage, status, reason, client, sent, operation, done, outside>>,
         daemon' = daemon \/ daemon' = [daemon EXCEPT !.taken = FALSE],
         seen' = seen \/ seen' = Single!Snapshot(daemon),
         right' = right, clean' \in BOOLEAN, clean' => clean
  PROVE  CallInv'
<1>1. /\ daemon \in [parent : BOOLEAN, there : BOOLEAN, used : BOOLEAN,
                     taken : BOOLEAN, image : BOOLEAN, rev : Nat]
      /\ Single!TypeOK
  BY DEF CallInv, Typed, Single!TypeOK
<1>2. /\ daemon' \in [parent : BOOLEAN, there : BOOLEAN, used : BOOLEAN,
                      taken : BOOLEAN, image : BOOLEAN, rev : Nat]
      /\ daemon'.there = daemon.there /\ daemon'.parent = daemon.parent
      /\ daemon'.used = daemon.used /\ daemon'.image = daemon.image
      /\ daemon'.rev = daemon.rev /\ daemon'.taken => daemon.taken
  BY <1>1
<1>3. seen' \in [gone : BOOLEAN, taken : BOOLEAN, used : BOOLEAN, rev : Nat]
  <2>1. CASE seen' = seen
    BY <2>1 DEF CallInv, Typed
  <2>2. CASE seen' = Single!Snapshot(daemon)
    BY <1>1, <2>2, SnapshotTyped DEF Resources
  <2>. QED
    BY <2>1, <2>2
<1>4. steps' \in Seq(Single!Steps(method)) /\ Books' /\ Shape' /\ Migration' /\ Rolled'
  BY <1>2, Proceeds
<1>5. Typed'
  BY <1>1, <1>2, <1>3, <1>4 DEF CallInv, Typed, Single!TypeOK
<1>6. Single!Truths(daemon', seen') \subseteq right'
  <2>1. seen'.rev = seen.rev \/ seen'.rev = daemon.rev
    BY DEF Single!Snapshot
  <2>2. Single!Truths(daemon', seen') \subseteq Single!Truths(daemon, seen)
    BY <1>2, <2>1 DEF Single!Truths
  <2>. QED
    BY <2>2 DEF CallInv, Truthful
<1>7. Told(status)' /\ Told(reason)'
  BY DEF CallInv, Truthful, Told
<1>8. Truthful'
  BY <1>6, <1>7, TruthKept
<1>. QED
  BY <1>4, <1>5, <1>8 DEF CallInv

\* A step of the request's own work that gives up.
LEMMA Refused ==
  ASSUME CallInv, status = "none", steps # <<>>, steps[1].do \notin {"change", "page"},
         NEW e \in Single!Errors, Single!Fail(e), Told(e)',
         stage = "call" /\ sent > 0 => e = "error", e = "error" => ~clean',
         UNCHANGED <<method, stage, seen, client, sent, operation, done, daemon, outside>>,
         right \subseteq right', clean' \in BOOLEAN, clean' => clean
  PROVE  CallInv'
<1>1. /\ steps' \in Seq(Single!Steps(method)) /\ status' = e /\ reason' = "none"
      /\ Books' /\ Shape' /\ Migration' /\ Rolled'
  BY GivesUp
<1>2. Typed'
  BY <1>1 DEF CallInv, Typed, Single!TypeOK
<1>3. Truthful'
  <2>1. Single!Truths(daemon', seen') \subseteq right'
    BY DEF CallInv, Truthful
  <2>2. Told(status)' /\ Told(reason)'
    BY <1>1 DEF Told
  <2>. QED
    BY <2>1, <2>2, TruthKept
<1>. QED
  BY <1>1, <1>2, <1>3 DEF CallInv

\* What is known before a step of the request's own work.
LEMMA Ahead ==
  ASSUME CallInv, NEW do, Single!Step(do), do \notin {"change", "page"}
  PROVE  /\ status = "none" /\ steps # <<>> /\ reason = "none"
         /\ Single!Now = steps[1] /\ steps[1].do = do
         /\ steps[1] \in Single!Looks(method) \cup Single!Acts(method) \cup Single!Tags(method)
         /\ stage = "call" /\ sent > 0 => steps[1] \notin Single!Looks(method)
                                          \/ steps[1] \in Single!Acts(method)
                                          \/ steps[1] \in Single!Tags(method)
         /\ Tail(steps) = <<>> \o Tail(steps)
         /\ clean \in BOOLEAN /\ Told("none")
<1>1. status = "none" /\ steps # <<>> /\ Head(steps).do = do
  BY DEF Single!Step
<1>2. Head(steps) = steps[1] /\ Tail(steps) = <<>> \o Tail(steps)
  BY <1>1, Shortened DEF CallInv, Typed
<1>3. /\ reason = "none" /\ stage \in {"call", "page"}
      /\ stage = "page" => steps[1] \in Single!Looks(method)
      /\ stage = "call" =>
              \/ steps[1] \in Single!Looks(method) /\ sent = 0 /\ ~daemon.image
              \/ steps[1] \in Single!Acts(method) /\ ~daemon.image
              \/ steps[1] \in Single!Tags(method) /\ sent > 0
  BY <1>1, <1>2, NotChanging
<1>. QED
  BY <1>1, <1>2, <1>3 DEF Single!Now, CallInv, Typed, Told

\* The same, by what the step does: it goes on, with the steps in it or without.
LEMMA Expands ==
  ASSUME CallInv, NEW do, Single!Step(do), do \notin {"change", "page"},
         \/ steps' = <<>> \o Tail(steps)
         \/ do \in {"when", "maybe"} /\ steps' = steps[1].steps \o Tail(steps),
         UNCHANGED <<method, stage, status, reason, client, sent, operation, done, outside>>,
         daemon' = daemon \/ daemon' = [daemon EXCEPT !.taken = FALSE],
         seen' = seen \/ seen' = Single!Snapshot(daemon),
         right' = right, clean' \in BOOLEAN, clean' => clean
  PROVE  CallInv'
<1>1. status = "none" /\ steps # <<>> /\ steps[1].do = do
  BY Ahead
<1>2. CASE steps' = <<>> \o Tail(steps)
  <2>. DEFINE u == <<>>
  <2>1. u = <<>> /\ steps' = u \o Tail(steps)
    BY <1>2
  <2>. HIDE DEF u
  <2>. QED
    BY <1>1, <2>1, Onward
<1>3. CASE do \in {"when", "maybe"} /\ steps' = steps[1].steps \o Tail(steps)
  <2>. DEFINE u == steps[1].steps
  <2>1. u = steps[1].steps /\ steps' = u \o Tail(steps)
    BY <1>3
  <2>. HIDE DEF u
  <2>. QED
    BY <1>1, <1>3, <2>1, Onward
<1>. QED
  BY <1>2, <1>3

\* It goes on, without the step.
LEMMA Continues ==
  ASSUME CallInv, NEW do, Single!Step(do), do \notin {"change", "page"}, Single!Continue,
         UNCHANGED <<method, stage, client, sent, operation, done, outside>>,
         daemon' = daemon \/ daemon' = [daemon EXCEPT !.taken = FALSE],
         seen' = seen \/ seen' = Single!Snapshot(daemon),
         right' = right, clean' \in BOOLEAN, clean' => clean
  PROVE  CallInv'
<1>1. steps' = <<>> \o Tail(steps) /\ UNCHANGED <<status, reason>>
  BY Ahead DEF Single!Continue
<1>. QED
  BY <1>1, Expands

\* It gives up, and the client is told why.
LEMMA Ends ==
  ASSUME CallInv, NEW do, Single!Step(do), do \notin {"change", "page"},
         NEW e, e \in Single!Errors, Single!Fail(e), Told(e)',
         stage = "call" /\ sent > 0 => e = "error", e = "error" => ~clean',
         UNCHANGED <<method, stage, seen, client, sent, operation, done, daemon, outside>>,
         right \subseteq right', clean' \in BOOLEAN, clean' => clean
  PROVE  CallInv'
<1>1. status = "none" /\ steps # <<>> /\ steps[1].do = do
  BY Ahead
<1>. QED
  BY <1>1, Refused

\* The request's own work.
LEMMA LocallyKeeps == CallInv /\ Single!DoLocally => CallInv'
<1> SUFFICES ASSUME CallInv, Single!DoLocally
             PROVE  CallInv'
  OBVIOUS
<1>1. Single!Step("local")
  BY DEF Single!DoLocally
<1>2. /\ UNCHANGED <<method, stage, seen, client, sent, daemon, operation, done, outside>>
      /\ \/ Single!Continue /\ UNCHANGED <<right, clean>>
         \/ \E e \in Single!Now.errors : /\ Single!Fail(e)
                                         /\ right' = right \cup {e}
                                         /\ clean' = (clean /\ e # "error")
  BY DEF Single!DoLocally, Single!Resources
<1>3. CASE Single!Continue /\ UNCHANGED <<right, clean>>
  <2>1. clean' \in BOOLEAN /\ (clean' => clean)
    BY <1>1, <1>3, Ahead
  <2>. QED
    BY <1>1, <1>2, <1>3, <2>1, Continues
<1>4. ASSUME NEW e \in Single!Now.errors, Single!Fail(e), right' = right \cup {e},
             clean' = (clean /\ e # "error")
      PROVE  CallInv'
  <2>1. /\ e \in Single!Errors
        /\ stage = "call" /\ sent > 0 => e = "error"
    <3>1. Single!Now = steps[1] /\ steps[1].do = "local"
      BY <1>1, Ahead
    <3>2. steps[1] \in Single!Looks(method) => e \in Single!Errors
      BY <1>4, <3>1, LookSteps
    <3>3. steps[1] \in Single!Acts(method) \cup Single!Tags(method) => e = "error"
      BY <1>4, <3>1, ActSteps, TagSteps
    <3>4. "error" \in Single!Errors
      BY DEF Single!Errors
    <3>. QED
      BY <1>1, <3>2, <3>3, <3>4, Ahead
  <2>2. Told(e)' /\ clean' \in BOOLEAN /\ (clean' => clean) /\ (e = "error" => ~clean')
    BY <1>2, <1>4 DEF Told
  <2>3. right \subseteq right'
    BY <1>4
  <2>. QED
    BY <1>1, <1>2, <1>4, <2>1, <2>2, <2>3, Ends
<1>. QED
  BY <1>2, <1>3, <1>4

\* A read, answered or not.
LEMMA GetKeeps == CallInv /\ Single!DoGet => CallInv'
<1> SUFFICES ASSUME CallInv, Single!DoGet
             PROVE  CallInv'
  OBVIOUS
<1>1. Single!Step("get")
  BY DEF Single!DoGet
<1>2. /\ UNCHANGED <<method, stage, client, sent, daemon, operation, done, outside>>
      /\ \/ Single!Answered(Single!Now.of) /\ UNCHANGED clean
         \/ Single!Fail("error") /\ clean' = FALSE /\ UNCHANGED <<seen, right>>
  BY DEF Single!DoGet, Single!Resources, Single!Untyped
<1>3. ~(stage = "call" /\ sent > 0) /\ clean \in BOOLEAN
  BY <1>1, Ahead, ActSteps, TagSteps
<1>4. CASE Single!Fail("error") /\ clean' = FALSE /\ UNCHANGED <<seen, right>>
  <2>1. "error" \in Single!Errors /\ Told("error")'
    BY <1>4 DEF Single!Errors, Told
  <2>. QED
    BY <1>1, <1>2, <1>3, <1>4, <2>1, Ends
<1>5. CASE Single!Answered(Single!Now.of) /\ UNCHANGED clean
  <2>1. \/ Single!Fail("NotFound") /\ right' = right \cup {"NotFound"} /\ UNCHANGED seen
        \/ Single!Continue /\ seen' = Single!Snapshot(daemon) /\ UNCHANGED right
    BY <1>5 DEF Single!Answered
  <2>2. CASE Single!Continue /\ seen' = Single!Snapshot(daemon) /\ UNCHANGED right
    BY <1>1, <1>2, <1>3, <1>5, <2>2, Continues
  <2>3. CASE Single!Fail("NotFound") /\ right' = right \cup {"NotFound"} /\ UNCHANGED seen
    <3>1. "NotFound" \in Single!Errors /\ Told("NotFound")'
      BY <2>3 DEF Single!Errors, Single!Refusals, Told
    <3>. QED
      BY <1>1, <1>2, <1>3, <1>5, <2>3, <3>1, Ends
  <2>. QED
    BY <2>1, <2>2, <2>3
<1>. QED
  BY <1>2, <1>4, <1>5

\* MakeDirectory's look.
LEMMA AbsentKeeps == CallInv /\ Single!DoAbsent => CallInv'
<1> SUFFICES ASSUME CallInv, Single!DoAbsent
             PROVE  CallInv'
  OBVIOUS
<1>1. Single!Step("absent")
  BY DEF Single!DoAbsent
<1>2. /\ UNCHANGED <<method, stage, seen, client, sent, right, daemon, operation, done, outside>>
      /\ \/ daemon.taken /\ Single!Fail("Conflict") /\ UNCHANGED clean
         \/ Single!Continue /\ UNCHANGED clean
         \/ Single!Continue /\ clean' = FALSE
  BY DEF Single!DoAbsent, Single!Resources
<1>3. ~(stage = "call" /\ sent > 0) /\ clean \in BOOLEAN /\ Single!MindsName(method)
  BY <1>1, Ahead, LookSteps, ActSteps, TagSteps
<1>4. CASE daemon.taken /\ Single!Fail("Conflict") /\ UNCHANGED clean
  <2>1. "Conflict" \in Single!Errors /\ Told("Conflict")'
    BY <1>2, <1>3, <1>4
    DEF Single!Errors, Single!Refusals, Told, CallInv, Truthful, Single!Truths
  <2>. QED
    BY <1>1, <1>2, <1>3, <1>4, <2>1, Ends
<1>5. CASE Single!Continue /\ UNCHANGED clean
  <2>1. clean' \in BOOLEAN /\ (clean' => clean)
    BY <1>3, <1>5
  <2>. QED
    BY <1>1, <1>2, <1>5, <2>1, Continues
<1>6. CASE Single!Continue /\ clean' = FALSE
  BY <1>1, <1>2, <1>6, Continues
<1>. QED
  BY <1>2, <1>4, <1>5, <1>6

\* What the method refuses by itself.
LEMMA RefuseKeeps == CallInv /\ Single!DoRefuse => CallInv'
<1> SUFFICES ASSUME CallInv, Single!DoRefuse
             PROVE  CallInv'
  OBVIOUS
<1>1. Single!Step("refuse")
  BY DEF Single!DoRefuse
<1>2. /\ UNCHANGED <<method, stage, seen, client, sent, right, clean, daemon, operation, done,
                     outside>>
      /\ \/ seen[Single!Now.seen] /\ Single!Fail(Single!Now.error)
         \/ Single!Continue
  BY DEF Single!DoRefuse, Single!Resources
<1>3. ~(stage = "call" /\ sent > 0) /\ clean \in BOOLEAN
      /\ Single!Now \in Single!Refusing(method)
  BY <1>1, Ahead, LookSteps, ActSteps, TagSteps
<1>4. CASE seen[Single!Now.seen] /\ Single!Fail(Single!Now.error)
  <2>1. PICK e : e = Single!Now.error
    OBVIOUS
  <2>2. /\ e \in {"NotFound", "Conflict", "Invalid"}
        /\ e = "NotFound" => seen.gone
        /\ e = "Conflict" => \/ seen.taken /\ Single!MindsName(method)
                             \/ seen.used /\ Single!MindsUse(method)
    BY <1>3, <1>4, <2>1 DEF Single!Refusing
  <2>3. e \in Single!Errors /\ e # "error"
    BY <2>2 DEF Single!Errors, Single!Refusals
  <2>4. e \in {"NotFound", "Conflict"} => e \in right
    BY <2>2 DEF CallInv, Truthful
  <2>5. Told(e)'
    BY <1>2, <2>3, <2>4 DEF Told
  <2>6. Single!Fail(e)
    BY <1>4, <2>1
  <2>. QED
    BY <1>1, <1>2, <1>3, <2>3, <2>5, <2>6, Ends
<1>5. CASE Single!Continue
  BY <1>1, <1>2, <1>3, <1>5, Continues
<1>. QED
  BY <1>2, <1>4, <1>5

\* The steps that only go on, or choose what to go on with.
LEMMA ChooseKeeps ==
  CallInv /\ (Single!Skip \/ Single!DoWhen \/ Single!DoMaybe \/ Single!DoPick) => CallInv'
<1>1. ASSUME CallInv, NEW do, Single!Step(do), UNCHANGED clean
      PROVE  clean' \in BOOLEAN /\ (clean' => clean)
  BY <1>1 DEF CallInv, Typed
<1>2. ASSUME CallInv, Single!Skip
      PROVE  CallInv'
  <2>1. /\ Single!Step("skip") /\ Single!Continue
        /\ UNCHANGED <<method, stage, seen, client, sent, right, clean, daemon, operation,
                       done, outside>>
    BY <1>2 DEF Single!Skip, Single!Resources
  <2>. QED
    BY <1>1, <1>2, <2>1, Continues
<1>3. ASSUME CallInv, Single!DoWhen
      PROVE  CallInv'
  <2>1. /\ Single!Step("when")
        /\ steps' = (IF seen[Single!Now.seen] THEN Single!Now.steps ELSE <<>>) \o Tail(steps)
        /\ UNCHANGED <<method, stage, seen, status, reason, client, sent, right, clean, daemon,
                       operation, done, outside>>
    BY <1>3 DEF Single!DoWhen, Single!Resources
  <2>2. Single!Now = steps[1]
    BY <1>3, <2>1, Ahead
  <2>3. steps' = <<>> \o Tail(steps) \/ steps' = steps[1].steps \o Tail(steps)
    BY <2>1, <2>2
  <2>. QED
    BY <1>1, <1>3, <2>1, <2>3, Expands
<1>4. ASSUME CallInv, Single!DoMaybe
      PROVE  CallInv'
  <2>1. /\ Single!Step("maybe")
        /\ steps' \in {Tail(steps), Single!Now.steps \o Tail(steps)}
        /\ UNCHANGED <<method, stage, seen, status, reason, client, sent, right, clean, daemon,
                       operation, done, outside>>
    BY <1>4 DEF Single!DoMaybe, Single!Resources
  <2>2. Single!Now = steps[1] /\ Tail(steps) = <<>> \o Tail(steps)
    BY <1>4, <2>1, Ahead
  <2>3. steps' = <<>> \o Tail(steps) \/ steps' = steps[1].steps \o Tail(steps)
    BY <2>1, <2>2
  <2>. QED
    BY <1>1, <1>4, <2>1, <2>3, Expands
<1>5. ASSUME CallInv, Single!DoPick
      PROVE  CallInv'
  <2>1. /\ Single!Step("pick") /\ Single!Continue
        /\ daemon' = [daemon EXCEPT !.taken = FALSE]
        /\ UNCHANGED <<method, stage, seen, client, sent, right, clean, operation, done, outside>>
    BY <1>5 DEF Single!DoPick
  <2>. QED
    BY <1>1, <1>5, <2>1, Continues
<1>. QED
  BY <1>2, <1>3, <1>4, <1>5

\* The page is read when everything is done.
LEMMA PageKeeps == CallInv /\ Single!ReadPage => CallInv'
<1> SUFFICES ASSUME CallInv, Single!ReadPage
             PROVE  CallInv'
  OBVIOUS
<1>1. /\ status = "none" /\ steps # <<>> /\ Head(steps).do = "page"
      /\ steps' = Tail(steps) /\ stage' = "page"
      /\ UNCHANGED <<method, seen, status, reason, client, sent, right, clean, daemon, operation,
                     done, outside>>
  BY DEF Single!ReadPage, Single!Step, Single!Continue, Single!Resources
<1>2. /\ steps \in Seq(Single!Steps(method)) /\ Len(steps) \in Nat \ {0}
      /\ steps[1].do = "page" /\ steps' \in Seq(Single!Steps(method))
      /\ stage \in {"call", "page"}
  BY <1>1, Shortened DEF CallInv, Typed, Single!TypeOK
<1>3. reason = "none"
  BY <1>1, <1>2, RollbackSteps DEF CallInv, Shape
<1>4. Undecided /\ ~Pending /\ Len(done) = sent
  BY <1>1, <1>2, <1>3 DEF CallInv, Books, Undecided
<1>5. steps' \in Seq(Single!Looks(method))
  <2>1. CASE stage = "page"
    <3>1. steps \in Seq(Single!Looks(method))
      BY <1>4, <2>1 DEF CallInv, Shape
    <3>2. steps[1] \in Single!Looks(method)
      BY <1>1, <3>1, Shortened
    <3>. QED
      BY <1>2, <3>2, LookSteps
  <2>2. CASE stage = "call"
    <3>1. ASSUME NEW a \in 0 .. Len(steps), NEW b \in 0 .. Len(steps),
                 NEW d \in 0 .. Len(steps), InFlow(a, b, d)
          PROVE  Tail(steps) \in Seq(Single!Looks(method))
      BY <1>1, <1>2, <3>1, FlowPages DEF InFlow
    <3>2. ASSUME NEW d \in 0 .. Len(steps), InTags(d)
          PROVE  Tail(steps) \in Seq(Single!Looks(method))
      BY <1>1, <1>2, <3>2, TagPages DEF InTags
    <3>. QED
      BY <1>1, <1>4, <2>2, <3>1, <3>2 DEF CallInv, Shape
  <2>. QED
    BY <1>2, <2>1, <2>2
<1>6. Typed'
  BY <1>1, <1>2 DEF CallInv, Typed, Single!TypeOK
<1>7. Books'
  BY <1>1, <1>3, <1>4 DEF CallInv, Books, Pending, Undecided
<1>8. Shape'
  BY <1>1, <1>3, <1>5 DEF Shape, Undecided
<1>9. Migration' /\ Rolled'
  BY <1>1 DEF CallInv, Migration, Rolled
<1>10. Truthful'
  <2>1. Single!Truths(daemon', seen') \subseteq right'
    BY <1>1 DEF CallInv, Truthful
  <2>2. Told(status)' /\ Told(reason)'
    BY <1>1 DEF CallInv, Truthful, Told
  <2>. QED
    BY <1>1, <2>1, <2>2, TruthKept
<1>. QED
  BY <1>6, <1>7, <1>8, <1>9, <1>10 DEF CallInv

\* A change that acts, one that publishes and one that tags, with what follows.
TagsAfter ==
  /\ method # Single!MigrateInstance
  /\ \E d \in 0 .. Len(Tail(steps)) : Single!TagFlow(method, Tail(steps), d)
ActsAfter ==
  \E b, d \in 0 .. Len(Tail(steps)) :
    /\ b <= d /\ Single!Flow(method, Tail(steps), 0, b, d)
    /\ method = Single!MigrateInstance => b = d

ActAhead ==
  /\ steps[1] \in Single!Changing(method, Single!Effects, Single!Waits, {<<>>})
  /\ ~daemon.image
  /\ method = Single!MigrateInstance /\ sent = 0 => steps[1].effect = "create"
  /\ ActsAfter
PublishAhead ==
  /\ steps[1] \in Single!Publishing(method)
  /\ daemon.image => operation.state = "succeeded"
  /\ TagsAfter
TagAhead ==
  /\ steps[1] \in Single!Changing(method, {"alias"}, {"no"}, {Single!Rollback})
  /\ method \notin Single!PromisesConflict
  /\ sent > 0
  /\ TagsAfter

\* A change that is met is one of these.
LEMMA ChangeAhead ==
  ASSUME CallInv, Undecided, steps # <<>>, Head(steps).do = "change"
  PROVE  stage = "call" /\ (ActAhead \/ PublishAhead \/ TagAhead)
<1>1. /\ steps \in Seq(Single!Steps(method)) /\ Len(steps) \in Nat \ {0}
      /\ steps[1].do = "change" /\ stage \in {"call", "page"} /\ sent \in Nat
  BY Shortened DEF CallInv, Typed, Single!TypeOK
<1>2. stage = "call"
  <2> SUFFICES ASSUME stage = "page"
               PROVE  FALSE
    BY <1>1
  <2>1. steps \in Seq(Single!Looks(method))
    BY DEF CallInv, Shape
  <2>2. steps[1] \in Single!Looks(method)
    BY <2>1, Shortened
  <2>. QED
    BY <1>1, <2>2, LookSteps
<1>3. ASSUME NEW a \in 0 .. Len(steps), NEW b \in 0 .. Len(steps),
             NEW d \in 0 .. Len(steps), InFlow(a, b, d)
      PROVE  ActAhead \/ PublishAhead
  <2>1. /\ a <= b /\ b <= d /\ Single!Flow(method, steps, a, b, d)
        /\ sent = 0 => Single!CopiesFirst(method, steps, a, b, d)
        /\ method = Single!MigrateInstance => b = d
        /\ daemon.image => operation.state = "succeeded" /\ b = 0 /\ d > 0
    BY <1>3 DEF InFlow
  <2>2. /\ a = 0
        /\ \/ /\ b > 0 /\ steps[1] \in Single!Acts(method)
              /\ b - 1 \in 0 .. Len(Tail(steps)) /\ d - 1 \in 0 .. Len(Tail(steps))
              /\ b - 1 <= d - 1
              /\ Single!Flow(method, Tail(steps), 0, b - 1, d - 1)
           \/ /\ b = 0 /\ d > 0 /\ steps[1] \in Single!Publishing(method)
              /\ d - 1 \in 0 .. Len(Tail(steps))
              /\ Single!TagFlow(method, Tail(steps), d - 1)
    BY <1>1, <2>1, FlowChanges
  <2>3. CASE b > 0
    <3>1. steps[1] \in Single!Changing(method, Single!Effects, Single!Waits, {<<>>})
      BY <1>1, <2>2, <2>3, ActSteps
    <3>2. method = Single!MigrateInstance /\ sent = 0 => steps[1].effect = "create"
      BY <2>1, <2>2, <2>3 DEF Single!CopiesFirst
    <3>3. ActsAfter
      BY <2>1, <2>2, <2>3 DEF ActsAfter
    <3>. QED
      BY <2>1, <2>3, <3>1, <3>2, <3>3 DEF ActAhead
  <2>4. CASE b = 0
    <3>1. method # Single!MigrateInstance /\ TagsAfter
      BY <2>1, <2>2, <2>4 DEF TagsAfter
    <3>. QED
      BY <2>1, <2>2, <2>4, <3>1 DEF PublishAhead
  <2>. QED
    BY <2>3, <2>4
<1>4. ASSUME NEW d \in 0 .. Len(steps), InTags(d)
      PROVE  TagAhead
  <2>1. steps[1] \in Single!Tags(method)
    BY <1>1, <1>4, TagHead DEF InTags, Single!ToPage
  <2>. DEFINE t == Tail(steps)
  <2>2. t = <<>> \o Tail(steps) /\ steps[1].do # "page"
    BY <1>1, Shortened
  <2>. HIDE DEF t
  <2>3. \E d1 \in 0 .. Len(t) : Single!TagFlow(method, t, d1)
    BY <1>1, <1>4, <2>2, TagAdvances DEF InTags
  <2>. QED
    BY <1>1, <1>4, <2>1, <2>3, TagSteps DEF InTags, TagAhead, TagsAfter, t
<1>. QED
  BY <1>2, <1>3, <1>4 DEF CallInv, Shape

\* What the daemon objects to is true of its resources.
LEMMA ObjectionsTrue ==
  ASSUME NEW c \in AnyChange(method), NEW e \in Single!Objections(c)
  PROVE  /\ e \in {"NotFound", "Conflict", "Invalid", "error"}
         /\ e = "Conflict" => e \in Single!Truths(daemon, seen)
         /\ e = "error" => method \notin Single!PromisesConflict
<1>1. /\ c.effect \in {"create", "rename", "alias"} => Single!MindsName(method)
      /\ c.inuse = "Conflict" => Single!MindsUse(method)
      /\ c.inuse = "untyped" => method \notin Single!PromisesConflict
      /\ c.version = "read" => Single!MindsVersion(method)
  BY DEF AnyChange, Single!Changing
<1>2. /\ e \in {"NotFound", "Conflict", "Invalid", "error"}
      /\ e = "Conflict" => \/ c.effect \in {"create", "rename", "alias"} /\ daemon.taken
                           \/ c.version = "read" /\ daemon.rev # seen.rev
                           \/ daemon.used /\ c.inuse = "Conflict"
      /\ e = "error" => c.inuse = "untyped"
  BY DEF Single!Objections, Single!IfMatch
<1>. QED
  BY <1>1, <1>2 DEF Single!Truths

\* A missing image is the only objection to its removal.
LEMMA RollbackObjections ==
  Single!Objections(Single!Rollback[1]) # {} => ~daemon.image
BY RollbackSteps DEF Single!Objections, Single!IfMatch

\* What a change does to the resources.
LEMMA PerformTyped ==
  ASSUME NEW effect \in AllEffects, daemon \in Resources,
         daemon.there => daemon.parent, daemon.used => daemon.there,
         effect \notin {"alias", "unpublish"} => daemon.there
  PROVE  /\ Single!Perform(effect) \in Resources
         /\ Single!Perform(effect).there => Single!Perform(effect).parent
         /\ Single!Perform(effect).used => Single!Perform(effect).there
         /\ effect \notin {"publish", "unpublish"} => Single!Perform(effect).image = daemon.image
         /\ effect = "unpublish" => ~Single!Perform(effect).image
<1>. USE DEF Resources
<1>1. CASE effect \in {"create", "alias"}
  BY <1>1 DEF Single!Perform
<1>2. CASE effect \in {"update", "put"}
  <2>1. Single!Perform(effect) = [daemon EXCEPT !.rev = daemon.rev + 1]
    BY <1>2 DEF Single!Perform
  <2>2. daemon.rev + 1 \in Nat /\ effect # "unpublish"
    BY <1>2
  <2>. QED
    BY <2>1, <2>2
<1>3. CASE effect = "rename"
  BY <1>3 DEF Single!Perform
<1>4. CASE effect = "delete"
  BY <1>4 DEF Single!Perform
<1>5. CASE effect = "start"
  BY <1>5 DEF Single!Perform
<1>6. CASE effect = "stop"
  BY <1>6 DEF Single!Perform
<1>7. CASE effect = "act"
  BY <1>7 DEF Single!Perform
<1>8. CASE effect = "publish"
  BY <1>8 DEF Single!Perform
<1>9. CASE effect = "unpublish"
  BY <1>9 DEF Single!Perform
<1>. QED
  BY <1>1, <1>2, <1>3, <1>4, <1>5, <1>6, <1>7, <1>8, <1>9 DEF AllEffects, Single!Effects

\* Of two errors one is reported, or neither.
LEMMA JoinedIsOne ==
  ASSUME NEW a, NEW b
  PROVE  Single!Joined(a, b) \in ({a, b} \cap Single!Refusals) \cup {"error"}
<1>. DEFINE order == <<"NotFound", "Conflict", "Invalid", "Unsupported">>
            met == {i \in DOMAIN order : order[i] \in {a, b}}
<1>1. CASE met = {}
  BY <1>1 DEF Single!Joined, Single!Untyped
<1>2. CASE met # {}
  <2>1. DOMAIN order = 1 .. 4 /\ met \subseteq 1 .. 4
    OBVIOUS
  <2>2. \E i \in met : \A j \in met : i <= j
    <3>1. CASE 1 \in met
      BY <2>1, <3>1
    <3>2. CASE 1 \notin met /\ 2 \in met
      BY <2>1, <3>2
    <3>3. CASE 1 \notin met /\ 2 \notin met /\ 3 \in met
      BY <2>1, <3>3
    <3>4. CASE 1 \notin met /\ 2 \notin met /\ 3 \notin met
      BY <1>2, <2>1, <3>4
    <3>. QED
      BY <3>1, <3>2, <3>3, <3>4
  <2>3. PICK i : i = CHOOSE x \in met : \A j \in met : x <= j
    OBVIOUS
  <2>4. i \in met
    BY <2>2, <2>3
  <2>5. order[i] \in {a, b} /\ order[i] \in Single!Refusals
    BY <2>1, <2>4 DEF Single!Refusals
  <2>6. Single!Joined(a, b) = order[i]
    BY <1>2, <2>3 DEF Single!Joined
  <2>. QED
    BY <2>5, <2>6
<1>. QED
  BY <1>1, <1>2

\* What is known when a change is met.
LEMMA AtChange ==
  ASSUME CallInv, Single!Step("change")
  PROVE  /\ status = "none" /\ steps # <<>> /\ stage = "call"
         /\ Head(steps) = steps[1] /\ Single!Now = steps[1]
         /\ steps[1] \in AnyChange(method)
         /\ steps \in Seq(Single!Steps(method)) /\ Tail(steps) \in Seq(Single!Steps(method))
         /\ \/ Undecided /\ (ActAhead \/ PublishAhead \/ TagAhead)
            \/ reason # "none" /\ steps = Single!Rollback
<1>1. status = "none" /\ steps # <<>> /\ Head(steps).do = "change"
  BY DEF Single!Step
<1>2. /\ steps \in Seq(Single!Steps(method)) /\ Tail(steps) \in Seq(Single!Steps(method))
      /\ Head(steps) = steps[1] /\ steps[1] \in Single!Steps(method)
  BY <1>1, Shortened DEF CallInv, Typed
<1>3. steps[1] \in AnyChange(method)
  BY <1>1, <1>2, StepKinds
<1>4. CASE reason = "none"
  BY <1>1, <1>2, <1>3, <1>4, ChangeAhead DEF Undecided, Single!Now
<1>5. CASE reason # "none"
  BY <1>1, <1>2, <1>3, <1>5 DEF CallInv, Shape, Books, Single!Now
<1>. QED
  BY <1>4, <1>5

\* A change that fails ends the request, or has its publication undone.
LEMMA ChangeFails ==
  ASSUME CallInv, Single!Step("change"), NEW e \in Single!Errors, Single!Fail(e)
  PROVE  /\ Undecided /\ (ActAhead \/ PublishAhead) =>
              steps' = <<>> /\ status' = e /\ reason' = "none"
         /\ Undecided /\ TagAhead =>
              steps' = Single!Rollback /\ status' = "none" /\ reason' = e
         /\ reason # "none" =>
              /\ steps' = <<>> /\ reason' = reason
              /\ status' \in ({reason, e} \cap Single!Refusals) \cup {"error"}
         /\ steps' \in Seq(Single!Steps(method))
<1>1. /\ status = "none" /\ Single!Now = steps[1] /\ Single!Now.do = "change"
      /\ reason # "none" => steps = Single!Rollback
  BY AtChange DEF Undecided, Single!Step, Single!Now
<1>2. IF steps[1].undo # <<>>
        THEN steps' = steps[1].undo /\ reason' = e /\ UNCHANGED status
        ELSE /\ steps' = <<>>
             /\ status' = IF reason = "none" THEN e ELSE Single!Joined(reason, e)
             /\ UNCHANGED reason
  BY <1>1 DEF Single!Fail, Single!Undo
<1>3. ASSUME Undecided, ActAhead \/ PublishAhead
      PROVE  steps' = <<>> /\ status' = e /\ reason' = "none"
  <2>1. steps[1].undo = <<>>
    BY <1>3, ChangingSteps, PublishSteps DEF ActAhead, PublishAhead
  <2>. QED
    BY <1>2, <1>3, <2>1 DEF Undecided
<1>4. ASSUME Undecided, TagAhead
      PROVE  steps' = Single!Rollback /\ status' = "none" /\ reason' = e
  <2>1. steps[1].undo = Single!Rollback
    BY <1>4, ChangingSteps DEF TagAhead
  <2>. QED
    BY <1>1, <1>2, <2>1, RollbackSteps
<1>5. ASSUME reason # "none"
      PROVE  /\ steps' = <<>> /\ reason' = reason
             /\ status' \in ({reason, e} \cap Single!Refusals) \cup {"error"}
  <2>1. steps[1].undo = <<>>
    BY <1>1, <1>5, RollbackSteps
  <2>2. steps' = <<>> /\ status' = Single!Joined(reason, e) /\ reason' = reason
    BY <1>2, <1>5, <2>1
  <2>. QED
    BY <2>2, JoinedIsOne
<1>6. steps' \in {<<>>, Single!Rollback}
  BY <1>3, <1>4, <1>5, AtChange
<1>7. Single!Rollback \in Seq(Single!Steps(method))
  <2>1. PICK x : x = Single!Rollback[1]
    OBVIOUS
  <2>2. Single!Rollback = <<x>> /\ x \in Single!Steps(method)
    BY <2>1, RollbackSteps DEF Single!Steps
  <2>. QED
    BY <2>2
<1>8. steps' \in Seq(Single!Steps(method))
  BY <1>6, <1>7, EmptySeq
<1>. QED
  BY <1>3, <1>4, <1>5, <1>8

\* What is left after a change that has been made.
LEMMA ShapeAfter ==
  ASSUME CallInv, Undecided, stage = "call",
         (ActAhead /\ ~daemon'.image) \/ PublishAhead \/ TagAhead,
         steps' = Tail(steps), UNCHANGED <<method, stage, status, reason>>,
         sent' \in Nat, sent' > 0
  PROVE  Shape'
<1>1. CASE ActAhead /\ ~daemon'.image
  <2>1. PICK b \in 0 .. Len(Tail(steps)) : \E d \in 0 .. Len(Tail(steps)) :
          /\ b <= d /\ Single!Flow(method, Tail(steps), 0, b, d)
          /\ method = Single!MigrateInstance => b = d
    BY <1>1 DEF ActAhead, ActsAfter
  <2>2. PICK d \in 0 .. Len(Tail(steps)) :
          /\ b <= d /\ Single!Flow(method, Tail(steps), 0, b, d)
          /\ method = Single!MigrateInstance => b = d
    BY <2>1
  <2>. DEFINE a == 0
  <2>3. a \in 0 .. Len(Tail(steps)) /\ a <= b /\ a = 0
    BY <2>1
  <2>4. InFlow(a, b, d)'
    BY <1>1, <2>2, <2>3 DEF InFlow
  <2>. HIDE DEF a
  <2>5. \E a1, b1, d1 \in 0 .. Len(Tail(steps)) : InFlow(a1, b1, d1)'
    BY <2>1, <2>2, <2>3, <2>4
  <2>. QED
    BY <2>5 DEF Shape, Undecided
<1>2. CASE PublishAhead \/ TagAhead
  <2>1. PICK d \in 0 .. Len(Tail(steps)) : Single!TagFlow(method, Tail(steps), d)
    BY <1>2 DEF PublishAhead, TagAhead, TagsAfter
  <2>2. InTags(d)'
    BY <1>2, <2>1 DEF InTags, PublishAhead, TagAhead, TagsAfter
  <2>. QED
    BY <2>1, <2>2 DEF Shape, Undecided
<1>. QED
  BY <1>1, <1>2

\* What the client is told of a change that fails.
LEMMA ChangeTold ==
  ASSUME CallInv, Single!Step("change"), NEW e \in Single!Errors, Single!Fail(e), Told(e)',
         right \subseteq right', clean' => clean, method' = method
  PROVE  Told(status)' /\ Told(reason)'
<1>1. CASE Undecided
  <2>1. \/ status' = e /\ reason' = "none"
        \/ status' = "none" /\ reason' = e
    BY <1>1, AtChange, ChangeFails DEF Undecided
  <2>. QED
    BY <2>1 DEF Told
<1>2. CASE reason # "none"
  <2>1. /\ reason' = reason
        /\ status' \in ({reason, e} \cap Single!Refusals) \cup {"error"}
    BY <1>2, ChangeFails
  <2>2. Told(reason) /\ method \notin Single!PromisesConflict
    BY <1>2 DEF CallInv, Truthful, Books
  <2>. QED
    BY <2>1, <2>2 DEF Told
<1>. QED
  BY <1>1, <1>2, AtChange

\* A change that is performed: the copy of a migration is the first.
LEMMA MigrationAfter ==
  ASSUME CallInv, NEW effect \in AllEffects, done' = Append(done, effect), method' = method,
         method = Single!MigrateInstance /\ done = <<>> => effect = "create",
         operation'.state # "running"
  PROVE  Migration' /\ done' \in Seq(AllEffects) /\ Len(done') = Len(done) + 1
         /\ done'[Len(done')] = effect
<1>1. /\ done \in Seq(AllEffects) /\ Len(done) \in Nat
      /\ done = <<>> <=> Len(done) = 0
  BY LenProperties, EmptySeq DEF CallInv, Typed
<1>2. /\ done' \in Seq(AllEffects) /\ Len(done') = Len(done) + 1
      /\ done'[Len(done) + 1] = effect
      /\ \A i \in 1 .. Len(done) : done'[i] = done[i]
  BY <1>1, AppendProperties
<1>3. done'[1] = IF done = <<>> THEN effect ELSE done[1]
  BY <1>1, <1>2
<1>4. Migration'
  BY <1>3 DEF CallInv, Migration
<1>. QED
  BY <1>2, <1>4

\* A change that is answered at once.
LEMMA SendKeeps == CallInv /\ Single!SendChange => CallInv'
<1> SUFFICES ASSUME CallInv, Single!SendChange
             PROVE  CallInv'
  OBVIOUS
<1>1. Single!Step("change") /\ Single!Now.wait = "no"
  BY DEF Single!SendChange
<1>2. PICK c : c = steps[1]
  OBVIOUS
<1>3. /\ status = "none" /\ steps # <<>> /\ stage = "call" /\ c \in AnyChange(method)
      /\ Head(steps) = c /\ Single!Now = c /\ c.wait = "no"
      /\ Tail(steps) \in Seq(Single!Steps(method))
  BY <1>1, <1>2, AtChange
<1>4. Undecided /\ (ActAhead \/ PublishAhead \/ TagAhead)
  BY <1>1, <1>2, <1>3, AtChange, RollbackSteps
<1>5. /\ ~Pending /\ Len(done) = sent /\ sent \in Nat /\ daemon \in Resources
      /\ clean \in BOOLEAN /\ Single!TypeOK
      /\ done \in Seq(AllEffects) /\ (done = <<>> <=> sent = 0)
  <2>1. ~Pending /\ Len(done) = sent
    BY <1>2, <1>3, <1>4 DEF CallInv, Books
  <2>. QED
    BY <2>1, LenProperties, EmptySeq DEF CallInv, Typed, Single!TypeOK, Resources
<1>6. /\ UNCHANGED <<method, stage, seen, operation, client, outside>> /\ sent' = sent + 1
      /\ right' = right \cup Single!Truths(daemon', seen)
                        \cup (Single!Objections(c) \cap {"NotFound"})
      /\ \/ /\ Single!Objections(c) = {}
            /\ daemon' = Single!Perform(c.effect)
            /\ done' = Append(done, c.effect)
            /\ \/ Single!Continue /\ UNCHANGED clean
               \/ Single!Fail("error") /\ clean' = FALSE
         \/ /\ \/ \E e \in Single!Objections(c) : Single!Fail(e) /\ UNCHANGED clean
               \/ Single!Fail("error") /\ clean' = FALSE
            /\ UNCHANGED <<daemon, done>>
  BY <1>3 DEF Single!SendChange, Single!Untyped
<1>7. right \subseteq right' /\ Single!Truths(daemon', seen') \subseteq right'
  BY <1>6
<1>8. /\ c.effect \in AllEffects
      /\ method = Single!MigrateInstance /\ done = <<>> => c.effect = "create"
      /\ ActAhead => c.effect \in Single!Effects
  BY <1>2, <1>3, <1>4, <1>5, ChangingSteps
     DEF AnyChange, AllEffects, ActAhead, PublishAhead, TagAhead, TagsAfter
<1>9. ASSUME Single!Objections(c) = {}, daemon' = Single!Perform(c.effect),
             done' = Append(done, c.effect)
      PROVE  /\ Migration' /\ done' \in Seq(AllEffects) /\ Len(done') = sent'
             /\ daemon' \in Resources
             /\ daemon'.there => daemon'.parent
             /\ daemon'.used => daemon'.there
             /\ ActAhead => ~daemon'.image
  <2>1. c.effect \notin {"alias", "unpublish"} => daemon.there
    BY <1>9 DEF Single!Objections
  <2>2. /\ daemon.there => daemon.parent
        /\ daemon.used => daemon.there
    BY <1>5 DEF Single!TypeOK
  <2>3. /\ daemon' \in Resources
        /\ daemon'.there => daemon'.parent
        /\ daemon'.used => daemon'.there
        /\ c.effect \notin {"publish", "unpublish"} => daemon'.image = daemon.image
    BY <1>5, <1>8, <1>9, <2>1, <2>2, PerformTyped
  <2>4. ActAhead => ~daemon'.image
    BY <1>8, <2>3 DEF ActAhead, Single!Effects
  <2>5. operation'.state # "running"
    BY <1>5, <1>6 DEF Pending
  <2>6. Migration' /\ done' \in Seq(AllEffects) /\ Len(done') = Len(done) + 1
    BY <1>6, <1>8, <1>9, <2>5, MigrationAfter
  <2>. QED
    BY <1>5, <1>6, <2>3, <2>4, <2>6
<1>10. CASE /\ Single!Objections(c) = {} /\ daemon' = Single!Perform(c.effect)
            /\ done' = Append(done, c.effect) /\ Single!Continue /\ UNCHANGED clean
  <2>1. steps' = Tail(steps) /\ UNCHANGED <<status, reason>>
    BY <1>10 DEF Single!Continue
  <2>2. Shape'
    BY <1>3, <1>4, <1>5, <1>6, <1>9, <1>10, <2>1, ShapeAfter
  <2>3. Typed'
    BY <1>3, <1>5, <1>6, <1>9, <1>10, <2>1 DEF CallInv, Typed, Single!TypeOK, Resources
  <2>4. Books'
    <3>1. /\ operation'.state \notin {"running", "succeeded", "failed"} /\ stage' = "call"
          /\ status' = "none" /\ reason' = "none"
      BY <1>3, <1>4, <1>5, <1>6, <2>1 DEF Pending, Undecided
    <3>2. "none" \notin Single!Refusals /\ Len(done') = sent'
      BY <1>9, <1>10 DEF Single!Refusals
    <3>. QED
      BY <3>1, <3>2 DEF Books, Pending, Undecided
  <2>5. Rolled'
    BY <1>3, <1>4, <2>1 DEF Rolled, Undecided
  <2>6. Truthful'
    <3>1. Told(status)' /\ Told(reason)'
      BY <1>4, <2>1 DEF Told, Undecided
    <3>. QED
      BY <1>6, <1>7, <1>10, <3>1, TruthKept
  <2>. QED
    BY <1>9, <1>10, <2>2, <2>3, <2>4, <2>5, <2>6 DEF CallInv
<1>11. ASSUME NEW e \in Single!Errors, Single!Fail(e), Told(e)', clean' \in BOOLEAN,
              clean' => clean /\ UNCHANGED daemon,
              Migration', done' \in Seq(AllEffects), Len(done') \in Nat, Len(done') <= sent',
              e \in Single!Refusals => done' = done,
              daemon' \in Resources, daemon'.there => daemon'.parent,
              daemon'.used => daemon'.there
       PROVE  CallInv'
  <2>1. /\ ActAhead \/ PublishAhead => steps' = <<>> /\ status' = e /\ reason' = "none"
        /\ TagAhead => steps' = Single!Rollback /\ status' = "none" /\ reason' = e
        /\ steps' \in Seq(Single!Steps(method))
    BY <1>1, <1>4, <1>11, ChangeFails
  <2>2. e # "none" /\ e # "ok" /\ status' \in Single!Errors \cup {"none"}
        /\ reason' \in Single!Errors \cup {"none"}
    BY <1>4, <1>11, <2>1 DEF Single!Errors, Single!Refusals
  <2>3. Shape'
    BY <1>4, <2>1, <2>2 DEF Shape, Undecided
  <2>4. Typed'
    BY <1>3, <1>5, <1>6, <1>11, <2>1, <2>2 DEF CallInv, Typed, Single!TypeOK, Resources
  <2>5. /\ TagAhead => sent' >= 2
        /\ TagAhead => method \notin Single!PromisesConflict \cup {Single!MigrateInstance}
    BY <1>5, <1>6 DEF TagAhead, TagsAfter
  <2>6. ASSUME ~TagAhead, e \in Single!Refusals, sent' <= 1
        PROVE  done' = <<>>
    BY <1>5, <1>6, <1>11, <2>6
  <2>7. "none" \notin Single!Refusals
    BY DEF Single!Refusals
  <2>8. Books'
    <3>1. CASE TagAhead
      BY <1>3, <1>5, <1>6, <2>1, <2>2, <2>5, <2>7, <3>1 DEF Books, Pending, Undecided
    <3>2. CASE ~TagAhead
      BY <1>3, <1>4, <1>5, <1>6, <2>1, <2>2, <2>6, <3>2 DEF Books, Pending, Undecided
    <3>. QED
      BY <3>1, <3>2
  <2>9. Rolled'
    <3>1. CASE TagAhead
      BY <1>5, <1>6, <2>1, <2>2, <3>1, RollbackSteps DEF Rolled, Pending
    <3>2. CASE ActAhead \/ PublishAhead
      BY <1>5, <1>6, <1>11, <2>1, <2>2, <3>2 DEF Rolled, Pending, ActAhead, PublishAhead
    <3>. QED
      BY <1>4, <3>1, <3>2
  <2>10. Truthful'
    <3>1. Told(status)' /\ Told(reason)'
      BY <1>1, <1>6, <1>7, <1>11, ChangeTold
    <3>. QED
      BY <1>6, <1>7, <1>11, <3>1, TruthKept
  <2>. QED
    BY <1>11, <2>3, <2>4, <2>8, <2>9, <2>10 DEF CallInv
<1>12. ASSUME Single!Fail("error"), clean' = FALSE
       PROVE  CallInv'
  <2>1. "error" \in Single!Errors /\ "error" \notin Single!Refusals /\ Told("error")'
    BY <1>12 DEF Single!Errors, Single!Refusals, Told
  <2>2. CASE Single!Objections(c) = {} /\ daemon' = Single!Perform(c.effect)
             /\ done' = Append(done, c.effect)
    <3>1. Len(done') \in Nat /\ Len(done') <= sent'
      BY <1>5, <1>6, <1>9, <2>2
    <3>. QED
      BY <1>9, <1>11, <1>12, <2>1, <2>2, <3>1
  <2>3. CASE UNCHANGED <<daemon, done>>
    <3>1. /\ Migration' /\ done' \in Seq(AllEffects) /\ Len(done') \in Nat /\ Len(done') <= sent'
          /\ daemon' \in Resources
      BY <1>5, <1>6, <2>3 DEF CallInv, Migration
    <3>. QED
      BY <1>5, <1>11, <1>12, <2>1, <2>3, <3>1 DEF Single!TypeOK
  <2>. QED
    BY <1>6, <1>12, <2>2, <2>3
<1>13. ASSUME NEW e \in Single!Objections(c), Single!Fail(e), UNCHANGED <<clean, daemon, done>>
       PROVE  CallInv'
  <2>1. /\ e \in {"NotFound", "Conflict", "Invalid", "error"}
        /\ e = "Conflict" => e \in Single!Truths(daemon, seen)
        /\ e = "error" => method \notin Single!PromisesConflict
    BY <1>3, ObjectionsTrue
  <2>2. e \in Single!Errors
    BY <2>1 DEF Single!Errors, Single!Refusals
  <2>3. Told(e)'
    BY <1>6, <1>13, <2>1 DEF Told, CallInv, Truthful
  <2>4. /\ Migration' /\ done' \in Seq(AllEffects) /\ Len(done') \in Nat /\ Len(done') <= sent'
        /\ daemon' \in Resources
    BY <1>5, <1>6, <1>13 DEF CallInv, Migration
  <2>5. clean' \in BOOLEAN /\ (clean' => clean)
    BY <1>5, <1>13
  <2>. QED
    BY <1>5, <1>11, <1>13, <2>2, <2>3, <2>4, <2>5 DEF Single!TypeOK
<1>. QED
  BY <1>6, <1>10, <1>12, <1>13

\* A change that fails, and is not a tag, ends the request.
LEMMA FailureKeeps ==
  ASSUME CallInv, Single!Step("change"), NEW e \in Single!Errors, Single!Fail(e), Told(e)',
         steps[1].wait # "no",
         UNCHANGED <<method, stage, seen, client, daemon, done, outside>>,
         sent' \in Nat, sent' >= sent, operation' \in OpTypes(method),
         operation'.state = "running" => operation' = operation,
         operation'.state = "failed" => Told(operation.error)',
         operation'.state \in {"running", "succeeded", "failed"} => sent' > 0,
         Undecided /\ e \in Single!Refusals /\ sent' <= 1 =>
           done = <<>> /\ operation'.state # "running",
         clean' /\ client = "here" => ~daemon.image /\ operation'.state # "running",
         right \subseteq right', clean' \in BOOLEAN, clean' => clean
  PROVE  CallInv'
<1>1. /\ status = "none" /\ stage = "call" /\ sent \in Nat
      /\ Undecided \/ reason # "none"
      /\ Undecided => ActAhead \/ PublishAhead
  <2>1. ~TagAhead
    BY ChangingSteps DEF TagAhead
  <2>2. /\ status = "none" /\ stage = "call"
        /\ \/ Undecided /\ (ActAhead \/ PublishAhead \/ TagAhead)
           \/ reason # "none"
    BY AtChange
  <2>3. Undecided => reason = "none"
    BY DEF Undecided
  <2>4. sent \in Nat
    BY DEF CallInv, Typed
  <2>. QED
    BY <2>1, <2>2, <2>3, <2>4
<1>2. e # "none" /\ e # "ok" /\ "none" \notin Single!Refusals /\ "ok" \notin Single!Refusals
      /\ Single!Refusals \subseteq Single!Errors /\ "error" \in Single!Errors
      /\ "error" \notin Single!Refusals
  BY DEF Single!Errors, Single!Refusals
<1>3. /\ steps' = <<>> /\ steps' \in Seq(Single!Steps(method)) /\ reason' = reason
      /\ status' \in Single!Errors /\ status' # "none" /\ status' # "ok"
      /\ Undecided => status' = e
      /\ reason # "none" => sent >= 2
  <2>1. CASE Undecided
    BY <1>1, <1>2, <2>1, ChangeFails DEF Undecided
  <2>2. CASE reason # "none"
    <3>1. /\ steps' = <<>> /\ steps' \in Seq(Single!Steps(method)) /\ reason' = reason
          /\ status' \in ({reason, e} \cap Single!Refusals) \cup {"error"}
      BY <2>2, ChangeFails
    <3>2. sent >= 2
      BY <2>2 DEF CallInv, Books
    <3>. QED
      BY <1>2, <2>2, <3>1, <3>2 DEF Undecided
  <2>. QED
    BY <1>1, <2>1, <2>2
<1>4. Typed'
  <2>1. operation'.state \in {"none", "running", "succeeded", "failed", "over"}
    BY DEF OpTypes
  <2>2. /\ Single!TypeOK /\ done \in Seq(AllEffects) /\ Len(done) \in Nat /\ reason' = reason
        /\ seen \in [gone : BOOLEAN, taken : BOOLEAN, used : BOOLEAN, rev : Nat]
    BY <1>3, LenProperties DEF CallInv, Typed
  <2>3. Len(done') <= sent'
    BY <1>1, <2>2 DEF Single!TypeOK
  <2>4. Single!TypeOK'
    BY <1>3, <2>1, <2>2, <2>3 DEF Single!TypeOK
  <2>. QED
    BY <1>3, <2>2, <2>4 DEF Typed
<1>5. Books'
  <2>1. operation'.state = "running" => Len(done') < sent'
    BY <1>1 DEF CallInv, Books, Typed, Single!TypeOK
  <2>2. reason' # "none" => /\ sent' >= 2 /\ stage' = "call"
                            /\ method' \notin Single!PromisesConflict
                                              \cup {Single!MigrateInstance}
    BY <1>1, <1>3 DEF CallInv, Books
  <2>3. stage' = "call" /\ status' \in Single!Refusals /\ sent' <= 1 =>
          done' = <<>> /\ operation'.state # "running"
    BY <1>1, <1>3
  <2>4. stage' # "page" /\ status' # "ok" /\ ~(status' = "none" /\ reason' = "none")
    BY <1>1, <1>3
  <2>. QED
    BY <2>1, <2>2, <2>3, <2>4 DEF Books, Pending, Undecided
<1>6. Shape'
  BY <1>3 DEF Shape, Undecided
<1>7. Migration'
  BY DEF CallInv, Migration
<1>8. Rolled'
  BY <1>3 DEF Rolled
<1>9. Truthful'
  <2>1. Told(status)' /\ Told(reason)'
    BY ChangeTold
  <2>2. Single!Truths(daemon', seen') \subseteq right'
    BY DEF CallInv, Truthful
  <2>. QED
    BY <2>1, <2>2, TruthKept
<1>. QED
  BY <1>4, <1>5, <1>6, <1>7, <1>8, <1>9 DEF CallInv

\* The request for an operation.
LEMMA StartKeeps == CallInv /\ Single!StartOperation => CallInv'
<1> SUFFICES ASSUME CallInv, Single!StartOperation
             PROVE  CallInv'
  OBVIOUS
<1>1. Single!Step("change") /\ Single!Now.wait # "no"
  BY DEF Single!StartOperation
<1>2. PICK c : c = steps[1]
  OBVIOUS
<1>3. /\ status = "none" /\ steps # <<>> /\ stage = "call" /\ c \in AnyChange(method)
      /\ Head(steps) = c /\ Single!Now = c /\ c.wait # "no" /\ c.do = "change"
      /\ \/ Undecided /\ (ActAhead \/ PublishAhead \/ TagAhead)
         \/ reason # "none" /\ steps = Single!Rollback
  BY <1>1, <1>2, AtChange DEF Single!Step
<1>4. /\ UNCHANGED <<method, stage, seen, daemon, client, done, outside>> /\ sent' = sent + 1
      /\ operation.state \in {"none", "over"}
      /\ right' = right \cup (Single!Objections(c) \cap {"NotFound"})
      /\ \/ /\ Single!Objections(c) = {}
            /\ operation' = [state |-> "running", change |-> c]
            /\ UNCHANGED <<steps, status, reason, clean>>
         \/ /\ \E e \in Single!Objections(c) : Single!Fail(e)
            /\ UNCHANGED <<operation, clean>>
         \/ Single!Fail("error") /\ clean' = FALSE /\ UNCHANGED operation
  BY <1>3 DEF Single!StartOperation, Single!Untyped
<1>5. ~Pending /\ ~TagAhead /\ sent \in Nat /\ daemon \in Resources /\ clean \in BOOLEAN
      /\ operation \in OpTypes(method) /\ Single!TypeOK
      /\ done \in Seq(AllEffects) /\ Len(done) \in Nat /\ (done = <<>> <=> Len(done) = 0)
  <2>1. ~TagAhead
    BY <1>2, <1>3, ChangingSteps DEF TagAhead
  <2>. QED
    BY <1>4, <2>1, LenProperties, EmptySeq
    DEF CallInv, Typed, Single!TypeOK, Resources, Pending
<1>6. Undecided => Len(done) = sent /\ ~daemon.image
  <2>1. Undecided => Len(done) = sent
    BY <1>5 DEF CallInv, Books
  <2>2. Undecided => ~daemon.image
    BY <1>3, <1>4, <1>5 DEF ActAhead, PublishAhead, Undecided
  <2>. QED
    BY <2>1, <2>2
<1>7. CASE /\ Single!Objections(c) = {}
           /\ operation' = [state |-> "running", change |-> c]
           /\ UNCHANGED <<steps, status, reason, clean>>
  <2>1. /\ operation'.state = "running" /\ operation'.change = c
        /\ operation' \in OpTypes(method)
    BY <1>3, <1>7 DEF OpTypes
  <2>2. Typed'
    BY <1>4, <1>5, <1>7, <2>1 DEF CallInv, Typed, Single!TypeOK
  <2>3. Books'
    <3>1. Len(done') < sent' /\ sent' > 0
      BY <1>4, <1>5 DEF Single!TypeOK
    <3>2. Undecided' => Len(done') = sent' - 1
      BY <1>4, <1>5, <1>6, <1>7 DEF Undecided
    <3>3. reason' # "none" => /\ sent' >= 2 /\ stage' = "call"
                              /\ method' \notin Single!PromisesConflict
                                                \cup {Single!MigrateInstance}
      BY <1>4, <1>5, <1>7 DEF CallInv, Books
    <3>4. status' = "none" /\ stage' = "call" /\ "none" \notin Single!Refusals
      BY <1>3, <1>4, <1>7 DEF Single!Refusals
    <3>. QED
      BY <1>2, <1>3, <1>7, <2>1, <3>1, <3>2, <3>3, <3>4 DEF Books, Pending, Undecided
  <2>4. Shape'
    <3>1. ASSUME NEW a \in 0 .. Len(steps), NEW b \in 0 .. Len(steps),
                 NEW d \in 0 .. Len(steps), InFlow(a, b, d), Undecided
          PROVE  InFlow(a, b, d)'
      <4>1. a = 0
        BY <1>2, <1>3, <3>1, FlowChanges DEF InFlow, CallInv, Typed
      <4>. QED
        BY <1>4, <1>5, <1>6, <1>7, <3>1, <4>1 DEF InFlow
    <3>2. ASSUME NEW d \in 0 .. Len(steps), InTags(d)
          PROVE  InTags(d)'
      BY <1>4, <1>5, <1>7, <3>2 DEF InTags
    <3>. QED
      BY <1>3, <1>4, <1>7, <3>1, <3>2 DEF CallInv, Shape, Undecided
  <2>5. Migration'
    <3>1. ASSUME Undecided, done = <<>>, method = Single!MigrateInstance
          PROVE  c.effect = "create"
      <4>1. sent = 0
        BY <1>5, <1>6, <3>1
      <4>2. ActAhead
        BY <1>3, <1>5, <3>1 DEF PublishAhead, TagsAfter, Undecided
      <4>. QED
        BY <1>2, <3>1, <4>1, <4>2 DEF ActAhead
    <3>2. reason # "none" => method # Single!MigrateInstance
      BY DEF CallInv, Books
    <3>. QED
      BY <1>3, <1>4, <2>1, <3>1, <3>2 DEF CallInv, Migration
  <2>6. Rolled'
    <3>1. status' = "none" /\ steps' # <<>>
      BY <1>3, <1>7
    <3>2. reason' # "none" => c = Single!Rollback[1]
      BY <1>2, <1>3, <1>7 DEF Undecided
    <3>. QED
      BY <2>1, <3>1, <3>2 DEF Rolled
  <2>7. Truthful'
    <3>1. Told(status)' /\ Told(reason)'
      BY <1>4, <1>7 DEF CallInv, Truthful, Told
    <3>2. Single!Truths(daemon', seen') \subseteq right'
      BY <1>4 DEF CallInv, Truthful
    <3>3. (clean' => clean) /\ right \subseteq right'
      BY <1>4, <1>7
    <3>. QED
      BY <1>4, <2>1, <3>1, <3>2, <3>3, TruthKept
  <2>. QED
    BY <2>2, <2>3, <2>4, <2>5, <2>6, <2>7 DEF CallInv
<1>8. ASSUME NEW e \in Single!Objections(c), Single!Fail(e), UNCHANGED <<operation, clean>>
      PROVE  CallInv'
  <2>1. /\ e \in {"NotFound", "Conflict", "Invalid", "error"}
        /\ e = "Conflict" => e \in Single!Truths(daemon, seen)
        /\ e = "error" => method \notin Single!PromisesConflict
    BY <1>3, ObjectionsTrue
  <2>2. e \in Single!Errors
    BY <2>1 DEF Single!Errors, Single!Refusals
  <2>3. Told(e)'
    BY <1>4, <1>8, <2>1 DEF Told, CallInv, Truthful
  <2>4. ~daemon.image
    <3>1. reason # "none" => c = Single!Rollback[1]
      BY <1>2, <1>3 DEF Undecided
    <3>. QED
      BY <1>3, <1>6, <1>8, <3>1, RollbackObjections
  <2>5. Undecided /\ sent' <= 1 => done = <<>>
    BY <1>4, <1>5, <1>6
  <2>6. clean' \in BOOLEAN /\ (clean' => clean) /\ right \subseteq right'
    BY <1>4, <1>5, <1>8
  <2>7. /\ operation'.state \notin {"running", "succeeded", "failed"}
        /\ sent' \in Nat /\ sent' >= sent /\ operation' \in OpTypes(method)
    BY <1>4, <1>5, <1>8
  <2>. QED
    BY <1>1, <1>2, <1>3, <1>4, <1>8, <2>2, <2>3, <2>4, <2>5, <2>6, <2>7, FailureKeeps
<1>9. ASSUME Single!Fail("error"), clean' = FALSE, UNCHANGED operation
      PROVE  CallInv'
  <2>1. "error" \in Single!Errors /\ "error" \notin Single!Refusals /\ Told("error")'
    BY <1>9 DEF Single!Errors, Single!Refusals, Told
  <2>2. /\ operation'.state \notin {"running", "succeeded", "failed"}
        /\ sent' \in Nat /\ sent' >= sent /\ operation' \in OpTypes(method)
        /\ right \subseteq right'
    BY <1>4, <1>5, <1>9
  <2>. QED
    BY <1>1, <1>2, <1>3, <1>4, <1>9, <2>1, <2>2, FailureKeeps
<1>. QED
  BY <1>4, <1>7, <1>8, <1>9

\* What an operation carries.
LEMMA OpKinds ==
  ASSUME NEW m, NEW o \in OpTypes(m)
  PROVE  /\ o.state \in {"none", "running", "succeeded", "failed", "over"}
         /\ o.state = "running" => o.change \in AnyChange(m)
         /\ o.state = "failed" => o.error \in Single!Errors
<1>1. CASE o \in [state : {"none", "succeeded", "over"}]
  BY <1>1
<1>2. CASE o \in [state : {"running"}, change : AnyChange(m)]
  BY <1>2
<1>3. CASE o \in [state : {"failed"}, error : Single!Errors]
  BY <1>3
<1>. QED
  BY <1>1, <1>2, <1>3 DEF OpTypes

\* The daemon ends an operation, whether or not it is waited for.
LEMMA EndKeeps == CallInv /\ Single!EndOperation => CallInv'
<1> SUFFICES ASSUME CallInv, Single!EndOperation
             PROVE  CallInv'
  OBVIOUS
<1>1. PICK c : c = operation.change
  OBVIOUS
<1>2. /\ operation.state = "running" /\ c \in AnyChange(method)
      /\ sent \in Nat /\ daemon \in Resources /\ clean \in BOOLEAN /\ Single!TypeOK
      /\ done \in Seq(AllEffects) /\ Len(done) \in Nat /\ (done = <<>> <=> Len(done) = 0)
  BY <1>1, OpKinds, LenProperties, EmptySeq
  DEF Single!EndOperation, CallInv, Typed, Single!TypeOK, Resources
<1>3. /\ UNCHANGED <<method, steps, stage, seen, status, reason, sent, client, outside>>
      /\ right' = right \cup Single!Truths(daemon', seen)
                        \cup (Single!Objections(c) \cap {"NotFound"})
      /\ \/ /\ Single!Objections(c) = {}
            /\ daemon' = Single!Perform(c.effect)
            /\ done' = Append(done, c.effect)
            /\ operation' = [state |-> "succeeded"]
            /\ UNCHANGED clean
         \/ /\ \E e \in Single!Objections(c) :
                 operation' = [state |-> "failed", error |-> e]
            /\ UNCHANGED <<daemon, done, clean>>
         \/ /\ operation' = [state |-> "failed", error |-> "error"]
            /\ clean' = FALSE
            /\ UNCHANGED <<daemon, done>>
  BY <1>1 DEF Single!EndOperation, Single!request, Single!Untyped
<1>4. /\ Len(done) < sent /\ sent > 0 /\ stage # "page" /\ status # "ok"
      /\ ~(stage = "call" /\ status \in Single!Refusals /\ sent <= 1)
      /\ Undecided => /\ steps # <<>> /\ steps[1].do = "change" /\ steps[1].wait # "no"
                      /\ c = steps[1] /\ Len(done) = sent - 1
      /\ reason # "none" => /\ sent >= 2 /\ stage = "call"
                            /\ method \notin Single!PromisesConflict
                                              \cup {Single!MigrateInstance}
  BY <1>1, <1>2 DEF CallInv, Books, Pending
<1>5. /\ clean /\ client = "here" /\ stage = "call" /\ status = "none" /\ reason # "none" =>
           c = Single!Rollback[1] /\ steps # <<>>
      /\ clean /\ client = "here" /\ stage = "call" => status \in {"none", "ok"}
  BY <1>1, <1>2 DEF CallInv, Rolled
<1>6. Told(status)' /\ Told(reason)' /\ Single!Truths(daemon', seen') \subseteq right'
      /\ right \subseteq right' /\ (clean' => clean) /\ clean' \in BOOLEAN
  <2>1. right \subseteq right' /\ Single!Truths(daemon', seen') \subseteq right'
    BY <1>3
  <2>2. (clean' => clean) /\ clean' \in BOOLEAN
    <3>1. CASE UNCHANGED clean
      BY <1>2, <3>1
    <3>2. CASE clean' = FALSE
      BY <3>2
    <3>. QED
      BY <1>3, <3>1, <3>2
  <2>3. Told(status)' /\ Told(reason)'
    BY <1>3, <2>1, <2>2 DEF CallInv, Truthful, Told
  <2>. QED
    BY <2>1, <2>2, <2>3
<1>7. CASE /\ Single!Objections(c) = {}
           /\ daemon' = Single!Perform(c.effect)
           /\ done' = Append(done, c.effect)
           /\ operation' = [state |-> "succeeded"]
  <2>1. c.effect \in AllEffects
    BY <1>2, ChangingSteps DEF AnyChange, AllEffects
  <2>2. /\ daemon' \in Resources
        /\ daemon'.there => daemon'.parent
        /\ daemon'.used => daemon'.there
        /\ c.effect \notin {"publish", "unpublish"} => daemon'.image = daemon.image
        /\ c.effect = "unpublish" => ~daemon'.image
    <3>1. c.effect \notin {"alias", "unpublish"} => daemon.there
      BY <1>7 DEF Single!Objections
    <3>2. /\ daemon.there => daemon.parent
          /\ daemon.used => daemon.there
      BY <1>2 DEF Single!TypeOK
    <3>. QED
      BY <1>2, <1>7, <2>1, <3>1, <3>2, PerformTyped
  <2>3. operation'.state = "succeeded" /\ operation' \in OpTypes(method)
    BY <1>7 DEF OpTypes
  <2>4. Migration' /\ done' \in Seq(AllEffects) /\ Len(done') = Len(done) + 1
    <3>1. method = Single!MigrateInstance /\ done = <<>> => c.effect = "create"
      BY <1>1, <1>2 DEF CallInv, Migration
    <3>. QED
      BY <1>3, <1>7, <2>1, <2>3, <3>1, MigrationAfter
  <2>5. Typed'
    <3>1. Len(done') <= sent'
      BY <1>2, <1>3, <1>4, <2>4
    <3>2. Single!TypeOK'
      BY <1>2, <1>3, <2>2, <2>3, <3>1 DEF Single!TypeOK, Resources
    <3>. QED
      BY <1>3, <1>6, <2>3, <2>4, <3>2 DEF CallInv, Typed
  <2>6. Books'
    <3>1. Undecided' => Len(done') = sent' /\ steps' # <<>> /\ steps'[1].do = "change"
                          /\ steps'[1].wait # "no"
      BY <1>2, <1>3, <1>4, <2>4 DEF Undecided
    <3>. QED
      BY <1>3, <1>4, <2>3, <3>1 DEF Books, Pending
  <2>7. Shape'
    <3>1. ASSUME NEW a \in 0 .. Len(steps), NEW b \in 0 .. Len(steps),
                 NEW d \in 0 .. Len(steps), InFlow(a, b, d), Undecided
          PROVE  InFlow(a, b, d)'
      <4>1. /\ \/ b > 0 /\ steps[1] \in Single!Acts(method)
               \/ b = 0 /\ d > 0
            /\ a <= b /\ b <= d /\ ~daemon.image
        BY <1>2, <1>4, <3>1, FlowChanges DEF InFlow, CallInv, Typed
      <4>2. b > 0 => c.effect \in Single!Effects
        BY <1>4, <3>1, <4>1, ActSteps, ChangingSteps
      <4>3. b > 0 => ~daemon'.image
        BY <2>2, <4>1, <4>2 DEF Single!Effects
      <4>. QED
        BY <1>3, <2>3, <3>1, <4>1, <4>3 DEF InFlow
    <3>2. ASSUME NEW d \in 0 .. Len(steps), InTags(d)
          PROVE  InTags(d)'
      BY <1>3, <3>2 DEF InTags
    <3>. QED
      BY <1>3, <3>1, <3>2 DEF CallInv, Shape, Undecided
  <2>8. Rolled'
    BY <1>3, <1>5, <1>6, <2>2, <2>3, RollbackSteps DEF Rolled
  <2>9. Truthful'
    BY <1>3, <1>6, <2>3, TruthKept
  <2>. QED
    BY <2>4, <2>5, <2>6, <2>7, <2>8, <2>9 DEF CallInv
<1>8. ASSUME NEW e \in Single!Errors, operation' = [state |-> "failed", error |-> e],
             UNCHANGED <<daemon, done>>, Told(e)',
             clean' /\ c = Single!Rollback[1] => ~daemon.image
      PROVE  CallInv'
  <2>1. operation'.state = "failed" /\ operation'.error = e /\ operation' \in OpTypes(method)
    BY <1>8 DEF OpTypes
  <2>2. Typed'
    <3>1. Single!TypeOK'
      BY <1>2, <1>3, <1>8, <2>1 DEF Single!TypeOK
    <3>. QED
      BY <1>3, <1>6, <1>8, <2>1, <3>1 DEF CallInv, Typed
  <2>3. Books'
    BY <1>3, <1>4, <1>8, <2>1 DEF Books, Pending, Undecided
  <2>4. Shape'
    <3>1. ASSUME NEW a \in 0 .. Len(steps), NEW b \in 0 .. Len(steps),
                 NEW d \in 0 .. Len(steps), InFlow(a, b, d)
          PROVE  InFlow(a, b, d)'
      BY <1>2, <1>3, <1>8, <3>1 DEF InFlow
    <3>2. ASSUME NEW d \in 0 .. Len(steps), InTags(d)
          PROVE  InTags(d)'
      BY <1>3, <3>2 DEF InTags
    <3>. QED
      BY <1>3, <3>1, <3>2 DEF CallInv, Shape, Undecided
  <2>5. Migration'
    BY <1>3, <1>8, <2>1 DEF CallInv, Migration
  <2>6. Rolled'
    BY <1>3, <1>5, <1>6, <1>8, <2>1 DEF Rolled
  <2>7. Truthful'
    <3>1. Told(operation.error)'
      BY <1>8, <2>1 DEF Told
    <3>. QED
      BY <1>3, <1>6, <3>1, TruthKept
  <2>. QED
    BY <2>2, <2>3, <2>4, <2>5, <2>6, <2>7 DEF CallInv
<1>9. ASSUME NEW e \in Single!Objections(c), operation' = [state |-> "failed", error |-> e],
             UNCHANGED <<daemon, done, clean>>
      PROVE  CallInv'
  <2>1. /\ e \in {"NotFound", "Conflict", "Invalid", "error"}
        /\ e = "Conflict" => e \in Single!Truths(daemon, seen)
        /\ e = "error" => method \notin Single!PromisesConflict
    BY <1>2, ObjectionsTrue
  <2>2. e \in Single!Errors
    BY <2>1 DEF Single!Errors, Single!Refusals
  <2>3. Told(e)'
    BY <1>3, <1>9, <2>1 DEF Told, CallInv, Truthful
  <2>4. c = Single!Rollback[1] => ~daemon.image
    BY <1>9, RollbackObjections
  <2>. QED
    BY <1>8, <1>9, <2>2, <2>3, <2>4
<1>10. ASSUME operation' = [state |-> "failed", error |-> "error"], clean' = FALSE,
              UNCHANGED <<daemon, done>>
       PROVE  CallInv'
  <2>1. "error" \in Single!Errors /\ Told("error")'
    BY <1>10 DEF Single!Errors, Told
  <2>. QED
    BY <1>8, <1>10, <2>1
<1>. QED
  BY <1>3, <1>7, <1>9, <1>10

\* The method learns how its operation ended.
LEMMA WaitKeepsCall == CallInv /\ Single!WaitEnds => CallInv'
<1> SUFFICES ASSUME CallInv, Single!WaitEnds
             PROVE  CallInv'
  OBVIOUS
<1>1. /\ Single!Step("change") /\ operation.state \in {"running", "succeeded", "failed"}
      /\ \/ operation.state = "succeeded" /\ Single!Continue
         \/ operation.state = "failed" /\ Single!Fail(operation.error)
      /\ operation' = [state |-> "over"]
      /\ UNCHANGED <<method, stage, daemon, seen, client, sent, done, right, clean, outside>>
  BY DEF Single!WaitEnds, Single!Waiting, Single!Succeeded
<1>2. /\ status = "none" /\ steps # <<>> /\ stage = "call" /\ steps[1] \in AnyChange(method)
      /\ Tail(steps) \in Seq(Single!Steps(method))
      /\ \/ Undecided /\ (ActAhead \/ PublishAhead \/ TagAhead)
         \/ reason # "none" /\ steps = Single!Rollback
  BY <1>1, AtChange
<1>3. /\ Pending /\ sent > 0 /\ steps[1].wait # "no"
      /\ Undecided => Len(done) = IF operation.state = "succeeded" THEN sent ELSE sent - 1
  <2>1. Pending
    BY <1>1 DEF Pending
  <2>2. CASE Undecided
    BY <2>1, <2>2 DEF CallInv, Books
  <2>3. CASE ~Undecided
    BY <1>2, <2>1, <2>3, RollbackSteps DEF CallInv, Books
  <2>. QED
    BY <2>2, <2>3
<1>4. /\ sent \in Nat /\ clean \in BOOLEAN /\ Single!TypeOK
      /\ done \in Seq(AllEffects) /\ Len(done) \in Nat /\ (done = <<>> <=> Len(done) = 0)
      /\ operation.state = "failed" => operation.error \in Single!Errors
  BY OpKinds, LenProperties, EmptySeq DEF CallInv, Typed
<1>5. operation'.state = "over" /\ operation' \in OpTypes(method)
  BY <1>1 DEF OpTypes
<1>6. ~TagAhead
  BY <1>3, ChangingSteps DEF TagAhead
<1>7. ASSUME operation.state = "succeeded", Single!Continue
      PROVE  CallInv'
  <2>1. steps' = Tail(steps) /\ UNCHANGED <<status, reason>>
    BY <1>7 DEF Single!Continue
  <2>2. Typed'
    <3>1. Single!TypeOK'
      BY <1>1, <1>4, <1>5, <2>1 DEF Single!TypeOK
    <3>. QED
      BY <1>1, <1>2, <1>5, <2>1, <3>1 DEF CallInv, Typed
  <2>3. Books'
    <3>1. reason' # "none" => /\ sent' >= 2 /\ stage' = "call"
                              /\ method' \notin Single!PromisesConflict
                                                \cup {Single!MigrateInstance}
      BY <1>1, <2>1 DEF CallInv, Books
    <3>2. Undecided' => Len(done') = sent'
      BY <1>1, <1>3, <1>7, <2>1 DEF Undecided
    <3>3. status' = "none" /\ stage' = "call" /\ "none" \notin Single!Refusals
      BY <1>1, <1>2, <2>1 DEF Single!Refusals
    <3>. QED
      BY <1>5, <3>1, <3>2, <3>3 DEF Books, Pending
  <2>4. Shape'
    <3>1. CASE Undecided
      <4>1. sent' \in Nat /\ sent' > 0
        BY <1>1, <1>3, <1>4
      <4>2. (ActAhead /\ ~daemon'.image) \/ PublishAhead
        BY <1>1, <1>2, <1>6, <3>1 DEF ActAhead, Undecided
      <4>3. UNCHANGED <<method, stage, status, reason>>
        BY <1>1, <2>1
      <4>. QED
        BY <1>2, <2>1, <3>1, <4>1, <4>2, <4>3, ShapeAfter
    <3>2. CASE reason # "none"
      BY <1>2, <2>1, <3>2, RollbackSteps DEF Shape, Undecided
    <3>. QED
      BY <1>2, <3>1, <3>2 DEF Undecided
  <2>5. Migration'
    BY <1>1, <1>5 DEF CallInv, Migration
  <2>6. Rolled'
    BY <1>1, <1>2, <1>5, <1>7, <2>1 DEF CallInv, Rolled
  <2>7. Truthful'
    <3>1. Told(status)' /\ Told(reason)'
      BY <1>1, <2>1 DEF CallInv, Truthful, Told
    <3>2. Single!Truths(daemon', seen') \subseteq right'
      BY <1>1 DEF CallInv, Truthful
    <3>. QED
      BY <1>1, <1>5, <3>1, <3>2, TruthKept
  <2>. QED
    BY <2>2, <2>3, <2>4, <2>5, <2>6, <2>7 DEF CallInv
<1>8. ASSUME operation.state = "failed", Single!Fail(operation.error)
      PROVE  CallInv'
  <2>1. PICK e \in Single!Errors : e = operation.error
    BY <1>4, <1>8
  <2>2. Told(e)'
    BY <1>1, <1>8, <2>1 DEF CallInv, Truthful, Told
  <2>3. Undecided /\ sent' <= 1 => done = <<>>
    BY <1>1, <1>3, <1>4, <1>8
  <2>4. clean /\ client = "here" => ~daemon.image
    <3>1. CASE Undecided
      BY <1>2, <1>6, <1>8, <3>1 DEF ActAhead, PublishAhead, Undecided
    <3>2. CASE reason # "none"
      BY <1>2, <1>8, <3>2 DEF CallInv, Rolled
    <3>. QED
      BY <1>2, <3>1, <3>2
  <2>5. sent' \in Nat /\ sent' >= sent /\ clean' \in BOOLEAN /\ (clean' => clean)
        /\ (clean' /\ client = "here" => ~daemon.image /\ operation'.state # "running")
    BY <1>1, <1>4, <1>5, <2>4
  <2>6. Single!Fail(e) /\ right \subseteq right'
    BY <1>1, <1>8, <2>1
  <2>7. operation'.state \notin {"running", "succeeded", "failed"}
    BY <1>5
  <2>. QED
    BY <1>1, <1>3, <1>5, <2>2, <2>3, <2>5, <2>6, <2>7, FailureKeeps
<1>. QED
  BY <1>1, <1>7, <1>8

\* The method stops waiting: its client has left, or the connection is lost.
LEMMA AbandonKeeps == CallInv /\ (Single!WaitCanceled \/ Single!WaitLost) => CallInv'
<1> SUFFICES ASSUME CallInv, Single!WaitCanceled \/ Single!WaitLost
             PROVE  CallInv'
  OBVIOUS
<1>1. /\ Single!Step("change") /\ operation.state \in {"running", "succeeded", "failed"}
      /\ UNCHANGED <<method, stage, daemon, seen, client, sent, done, right, outside>>
  BY DEF Single!WaitCanceled, Single!WaitLost, Single!Waiting
<1>2. \/ /\ client = "left" /\ Single!Fail("canceled") /\ UNCHANGED clean
         /\ operation' = operation \/ operation' = [state |-> "over"]
      \/ Single!Fail("error") /\ clean' = FALSE /\ operation' = operation
  BY DEF Single!WaitCanceled, Single!WaitLost, Single!ContextEnds, Single!Untyped
<1>3. /\ status = "none" /\ steps # <<>>
      /\ \/ Undecided
         \/ reason # "none" /\ steps = Single!Rollback
  BY <1>1, AtChange
<1>4. sent > 0 /\ steps[1].wait # "no"
  <2>1. Pending
    BY <1>1 DEF Pending
  <2>2. CASE Undecided
    BY <2>1, <2>2 DEF CallInv, Books
  <2>3. CASE ~Undecided
    BY <1>3, <2>1, <2>3, RollbackSteps DEF CallInv, Books
  <2>. QED
    BY <2>2, <2>3
<1>5. sent \in Nat /\ clean \in BOOLEAN /\ operation \in OpTypes(method)
  BY DEF CallInv, Typed
<1>6. /\ operation' \in OpTypes(method)
      /\ operation'.state = "running" => operation' = operation
      /\ sent' \in Nat /\ sent' >= sent /\ sent' > 0
  <2>1. CASE operation' = operation
    BY <1>1, <1>4, <1>5, <2>1
  <2>2. CASE operation' = [state |-> "over"]
    BY <1>1, <1>4, <1>5, <2>2 DEF OpTypes
  <2>. QED
    BY <1>2, <2>1, <2>2
<1>7. (clean' => clean) /\ clean' \in BOOLEAN /\ right \subseteq right'
      /\ (clean' /\ client = "here" => ~daemon.image /\ operation'.state # "running")
  <2>1. CASE client = "left" /\ UNCHANGED clean
    BY <1>1, <1>5, <2>1
  <2>2. CASE clean' = FALSE
    BY <1>1, <2>2
  <2>. QED
    BY <1>2, <2>1, <2>2
<1>8. operation'.state = "failed" => Told(operation.error)'
  <2>1. CASE operation' = operation
    BY <1>1, <1>7, <2>1 DEF CallInv, Truthful, Told
  <2>2. CASE operation' = [state |-> "over"]
    BY <2>2
  <2>. QED
    BY <1>2, <2>1, <2>2
<1>9. ASSUME NEW e \in {"canceled", "error"}, Single!Fail(e), e = "error" => ~clean'
      PROVE  CallInv'
  <2>1. e \in Single!Errors /\ e \notin Single!Refusals
    BY DEF Single!Errors, Single!Refusals
  <2>2. Told(e)'
    BY <1>9 DEF Told
  <2>. QED
    BY <1>1, <1>4, <1>6, <1>7, <1>8, <1>9, <2>1, <2>2, FailureKeeps
<1>. QED
  BY <1>2, <1>9

\* The request ends.
LEMMA AnswerKeeps == CallInv /\ Single!Finish => CallInv'
<1> SUFFICES ASSUME CallInv, Single!Finish
             PROVE  CallInv'
  OBVIOUS
<1>1. /\ status = "none" /\ steps = <<>>
      /\ status' = IF reason = "none" THEN "ok" ELSE reason
      /\ UNCHANGED <<method, steps, stage, seen, reason, client, sent, right, clean, daemon,
                     operation, done, outside>>
  BY DEF Single!Finish, Single!Resources
<1>2. /\ reason \in Single!Errors \cup {"none"} /\ "ok" \notin Single!Errors
      /\ "none" \notin Single!Errors /\ "ok" \notin Single!Refusals
  BY DEF CallInv, Typed, Single!TypeOK, Single!Errors, Single!Refusals
<1>3. Typed'
  BY <1>1, <1>2 DEF CallInv, Typed, Single!TypeOK
<1>4. CASE reason = "none"
  <2>1. ~Pending /\ Len(done) = sent
    BY <1>1, <1>4 DEF CallInv, Books, Undecided
  <2>2. status' = "ok" /\ ~Undecided'
    BY <1>1, <1>4 DEF Undecided
  <2>3. Books'
    BY <1>1, <1>2, <1>4, <2>1, <2>2 DEF CallInv, Books, Pending
  <2>4. Shape' /\ Migration' /\ Rolled'
    BY <1>1, <2>2 DEF CallInv, Shape, Migration, Rolled
  <2>5. Told(status)' /\ Told(reason)'
    BY <1>1, <1>4, <2>2 DEF Told
  <2>. QED
    BY <1>3, <2>3, <2>4, <2>5, <1>1, TruthKept DEF CallInv, Truthful
<1>5. CASE reason # "none"
  <2>1. /\ status' = reason /\ reason' = reason /\ status' # "none" /\ status' # "ok"
        /\ sent \in Nat
    BY <1>1, <1>2, <1>5 DEF CallInv, Typed
  <2>2. sent >= 2 /\ stage = "call"
    BY <1>5 DEF CallInv, Books
  <2>3. Books'
    BY <1>1, <2>1, <2>2 DEF CallInv, Books, Pending, Undecided
  <2>4. Shape' /\ Migration'
    BY <1>1, <2>1 DEF CallInv, Shape, Migration, Undecided
  <2>5. Rolled'
    BY <1>1, <1>5, <2>1 DEF CallInv, Rolled
  <2>6. Told(status)' /\ Told(reason)'
    BY <1>1, <2>1 DEF CallInv, Truthful, Told
  <2>. QED
    BY <1>3, <2>3, <2>4, <2>5, <2>6, <1>1, TruthKept DEF CallInv, Truthful
<1>. QED
  BY <1>4, <1>5

\* The client leaves.
LEMMA LeaveKeeps == CallInv /\ Single!Leave => CallInv'
<1> SUFFICES ASSUME CallInv, Single!Leave
             PROVE  CallInv'
  OBVIOUS
<1>1. /\ client' = "left"
      /\ UNCHANGED <<method, steps, stage, seen, status, reason, sent, right, clean, daemon,
                     operation, done, outside>>
  BY DEF Single!Leave, Single!request, Single!Resources
<1>2. Typed'
  BY <1>1 DEF CallInv, Typed, Single!TypeOK
<1>3. Books' /\ Migration' /\ Rolled'
  BY <1>1 DEF CallInv, Books, Migration, Rolled, Pending, Undecided
<1>4. Shape'
  BY <1>1 DEF CallInv, Shape, InFlow, InTags, Undecided
<1>5. Truthful'
  BY <1>1 DEF CallInv, Truthful, Told, Single!Truths
<1>. QED
  BY <1>2, <1>3, <1>4, <1>5 DEF CallInv

\* Others are at work.
LEMMA OutsideKeeps == CallInv /\ Single!Outside => CallInv'
<1> SUFFICES ASSUME CallInv, Single!Outside
             PROVE  CallInv'
  OBVIOUS
<1>1. /\ UNCHANGED <<method, steps, stage, seen, status, reason, sent, client, clean, operation,
                     done>>
      /\ outside < MaxOutside /\ outside' = outside + 1
      /\ right' = right \cup Single!Truths(daemon', seen)
  BY DEF Single!Outside, Single!request
<1>2. daemon \in Resources /\ outside \in 0 .. MaxOutside /\ MaxOutside \in Nat
      /\ (daemon.there => daemon.parent) /\ (daemon.used => daemon.there)
  BY RequestsAssumption DEF CallInv, Typed, Single!TypeOK, Resources
<1>3. /\ daemon' \in Resources /\ (daemon'.image => daemon.image)
      /\ daemon'.there => daemon'.parent
      /\ daemon'.used => daemon'.there
  <2>. USE <1>2 DEF Resources
  <2>1. CASE daemon' = [daemon EXCEPT !.there = FALSE, !.used = FALSE]
    BY <2>1
  <2>2. CASE daemon' = [daemon EXCEPT !.there = FALSE, !.used = FALSE,
                                      !.parent = FALSE, !.taken = FALSE]
    BY <2>2
  <2>3. CASE ~daemon.there /\ daemon.parent
             /\ daemon' = [daemon EXCEPT !.there = TRUE, !.rev = daemon.rev + 1]
    <3>1. daemon.rev + 1 \in Nat
      OBVIOUS
    <3>. QED
      BY <2>3, <3>1
  <2>4. CASE daemon.there /\ daemon' = [daemon EXCEPT !.used = ~daemon.used]
    <3>1. (~daemon.used) \in BOOLEAN
      OBVIOUS
    <3>. QED
      BY <2>4, <3>1
  <2>5. CASE daemon' = [daemon EXCEPT !.taken = ~daemon.taken]
    <3>1. (~daemon.taken) \in BOOLEAN
      OBVIOUS
    <3>. QED
      BY <2>5, <3>1
  <2>6. CASE daemon' = [daemon EXCEPT !.rev = daemon.rev + 1]
    <3>1. daemon.rev + 1 \in Nat
      OBVIOUS
    <3>. QED
      BY <2>6, <3>1
  <2>7. CASE daemon' = [daemon EXCEPT !.image = FALSE]
    BY <2>7
  <2>. QED
    BY <2>1, <2>2, <2>3, <2>4, <2>5, <2>6, <2>7 DEF Single!Outside
<1>4. Typed'
  <2>1. outside' \in 0 .. MaxOutside
    BY <1>1, <1>2
  <2>2. Single!TypeOK'
    BY <1>1, <1>3, <2>1 DEF CallInv, Typed, Single!TypeOK, Resources
  <2>. QED
    BY <1>1, <2>2 DEF CallInv, Typed
<1>5. Books' /\ Migration'
  BY <1>1 DEF CallInv, Books, Migration, Pending, Undecided
<1>6. Rolled'
  BY <1>1, <1>3 DEF CallInv, Rolled
<1>7. Shape'
  <2>1. ASSUME NEW a \in 0 .. Len(steps), NEW b \in 0 .. Len(steps),
               NEW d \in 0 .. Len(steps), InFlow(a, b, d)
        PROVE  InFlow(a, b, d)'
    BY <1>1, <1>3, <2>1 DEF InFlow
  <2>2. ASSUME NEW d \in 0 .. Len(steps), InTags(d)
        PROVE  InTags(d)'
    BY <1>1, <2>2 DEF InTags
  <2>. QED
    BY <1>1, <2>1, <2>2 DEF CallInv, Shape, Undecided
<1>8. Truthful'
  <2>1. right \subseteq right' /\ Single!Truths(daemon', seen') \subseteq right'
    BY <1>1
  <2>2. Told(status)' /\ Told(reason)'
    BY <1>1, <2>1 DEF CallInv, Truthful, Told
  <2>. QED
    BY <1>1, <2>1, <2>2, TruthKept
<1>. QED
  BY <1>4, <1>5, <1>6, <1>7, <1>8 DEF CallInv

\* A call before its first step: its program is well formed.
LEMMA CallStarts == Single!Init => CallInv
<1> SUFFICES ASSUME Single!Init
             PROVE  CallInv
  OBVIOUS
<1>1. PICK p \in Routes!Changes \cup Routes!Reads : method = p.call /\ steps = p.steps
  BY DEF Single!Init
<1>2. /\ steps \in Seq(Single!Steps(method))
      /\ \E d \in 0 .. Len(steps) : \E b \in 0 .. d : \E a \in 0 .. b :
           /\ Single!Flow(method, steps, a, b, d)
           /\ Single!CopiesFirst(method, steps, a, b, d)
  BY <1>1, RequestsAssumption DEF Single!WellFormed
<1>3. /\ stage = "call" /\ seen = Single!Snapshot(daemon) /\ operation.state = "none"
      /\ operation = [state |-> "none"] /\ status = "none" /\ reason = "none"
      /\ client = "here" /\ sent = 0 /\ done = <<>> /\ right = Single!Truths(daemon, seen)
      /\ clean = TRUE /\ outside = 0
  BY DEF Single!Init, Single!NoOp
<1>4. /\ daemon \in Resources /\ ~daemon.image
      /\ daemon.there => daemon.parent
      /\ daemon.used => daemon.there
  BY DEF Single!Init, Resources
<1>5. Len(done) = 0 /\ done \in Seq(AllEffects)
  BY <1>3, EmptySeq
<1>6. Typed
  <2>1. seen \in [gone : BOOLEAN, taken : BOOLEAN, used : BOOLEAN, rev : Nat]
    BY <1>3, <1>4, SnapshotTyped
  <2>2. operation \in OpTypes(method)
    BY <1>3 DEF OpTypes
  <2>3. Single!TypeOK
    BY <1>3, <1>4, <1>5, RequestsAssumption DEF Single!TypeOK, Resources
  <2>. QED
    BY <1>2, <1>3, <1>5, <2>1, <2>2, <2>3 DEF Typed
<1>7. Books
  BY <1>3, <1>5 DEF Books, Pending, Undecided, Single!Refusals
<1>8. Shape
  <2>1. PICK d \in 0 .. Len(steps) : \E b \in 0 .. d : \E a \in 0 .. b :
           /\ Single!Flow(method, steps, a, b, d)
           /\ Single!CopiesFirst(method, steps, a, b, d)
    BY <1>2
  <2>2. PICK b \in 0 .. d : \E a \in 0 .. b :
           /\ Single!Flow(method, steps, a, b, d)
           /\ Single!CopiesFirst(method, steps, a, b, d)
    BY <2>1
  <2>3. PICK a \in 0 .. b :
           /\ Single!Flow(method, steps, a, b, d)
           /\ Single!CopiesFirst(method, steps, a, b, d)
    BY <2>2
  <2>4. a \in 0 .. Len(steps) /\ b \in 0 .. Len(steps) /\ a <= b /\ b <= d
    <3>1. Len(steps) \in Nat
      BY <1>2, LenProperties
    <3>. QED
      BY <2>1, <2>2, <2>3, <3>1
  <2>5. InFlow(a, b, d)
    BY <1>3, <1>4, <2>3, <2>4 DEF InFlow, Single!CopiesFirst
  <2>6. \E a1, b1, d1 \in 0 .. Len(steps) : InFlow(a1, b1, d1)
    BY <2>1, <2>4, <2>5
  <2>. QED
    BY <1>3, <2>6 DEF Shape, Undecided
<1>9. Migration /\ Rolled
  BY <1>3, <1>4 DEF Migration, Rolled
<1>10. Truthful
  <2>1. /\ seen.gone <=> ~daemon.there
        /\ seen.taken <=> daemon.taken
        /\ seen.used <=> daemon.used
    BY <1>3 DEF Single!Snapshot
  <2>2. Told("none")
    BY DEF Told
  <2>. QED
    BY <1>3, <2>1, <2>2 DEF Truthful, Single!Truths
<1>. QED
  BY <1>6, <1>7, <1>8, <1>9, <1>10 DEF CallInv

\* Every step of a call, the daemon, the client and others keeps the invariant.
LEMMA CallKept == CallInv /\ [Single!Next]_call => CallInv'
<1> SUFFICES ASSUME CallInv, [Single!Next]_call
             PROVE  CallInv'
  OBVIOUS
<1>1. CASE UNCHANGED call
  <2>1. UNCHANGED <<method, steps, stage, daemon, seen, operation, status, reason, client, sent,
                    done, right, clean, outside>>
    BY <1>1 DEF call
  <2>2. Typed' /\ Books' /\ Migration' /\ Rolled'
    BY <2>1 DEF CallInv, Typed, Single!TypeOK, Books, Migration, Rolled, Pending, Undecided
  <2>3. Shape'
    BY <2>1 DEF CallInv, Shape, InFlow, InTags, Undecided
  <2>4. Truthful'
    BY <2>1 DEF CallInv, Truthful, Told, Single!Truths
  <2>. QED
    BY <2>2, <2>3, <2>4 DEF CallInv
<1>2. CASE \/ Single!DoLocally \/ Single!Skip \/ Single!DoGet \/ Single!DoAbsent
           \/ Single!DoRefuse \/ Single!DoWhen \/ Single!DoMaybe \/ Single!DoPick
  BY <1>2, LocallyKeeps, GetKeeps, AbsentKeeps, RefuseKeeps, ChooseKeeps
<1>3. CASE \/ Single!ReadPage \/ Single!SendChange \/ Single!StartOperation
           \/ Single!WaitEnds \/ Single!WaitCanceled \/ Single!Finish
  BY <1>3, PageKeeps, SendKeeps, StartKeeps, WaitKeepsCall, AbandonKeeps, AnswerKeeps
<1>4. CASE Single!WaitLost \/ Single!EndOperation \/ Single!Leave \/ Single!Outside
  BY <1>4, AbandonKeeps, EndKeeps, LeaveKeeps, OutsideKeeps
<1>5. CASE Single!Next
  BY <1>2, <1>3, <1>4, <1>5 DEF Single!Next, Single!Lexi
<1>. QED
  BY <1>1, <1>5

\* What the invariant says of the answer.
LEMMA CallInvImplies ==
  ASSUME CallInv
  PROVE  /\ Single!TypeOK
         /\ Single!AnswerWasTrue /\ Single!AnswerTellsDone /\ Single!HalfDoneIsUndone
<1>1. Single!TypeOK
  BY DEF CallInv, Typed
<1>2. Single!AnswerWasTrue
  BY DEF CallInv, Truthful, Told, Single!AnswerWasTrue
<1>3. Single!AnswerTellsDone
  BY DEF CallInv, Books, Single!AnswerTellsDone
<1>4. Single!SourceSurvives
  BY DEF CallInv, Migration, Single!SourceSurvives
<1>5. Single!ImageRolledBack
  BY DEF CallInv, Rolled, Single!ImageRolledBack
<1>. QED
  BY <1>1, <1>2, <1>3, <1>4, <1>5 DEF Single!HalfDoneIsUndone

\* A bulk action and a download make no call.
RequestInv == /\ request = "call" => CallInv
              /\ request # "call" => NoCall

\* Without a call there is nothing to say of one.
LEMMA NoCallImplies ==
  ASSUME NoCall
  PROVE  Single!AnswerWasTrue /\ Single!AnswerTellsDone /\ Single!HalfDoneIsUndone
<1>1. status = "none" /\ done = <<>> /\ Len(done) = 0 /\ sent = 0 /\ stage = "call"
  BY DEF NoCall
<1>2. Single!AnswerWasTrue
  BY <1>1 DEF Single!AnswerWasTrue
<1>3. Single!AnswerTellsDone
  BY <1>1 DEF Single!AnswerTellsDone, Single!Refusals
<1>4. Single!HalfDoneIsUndone
  BY <1>1 DEF Single!HalfDoneIsUndone, Single!SourceSurvives, Single!ImageRolledBack
<1>. QED
  BY <1>2, <1>3, <1>4

\* The invariant holds of every request.
LEMMA RequestInvHolds == RequestSpec => []RequestInv
<1>1. RequestInit => RequestInv
  BY CallStarts DEF RequestInit, RequestInv
<1>2. RequestInv /\ [RequestNext]_<<request, vars, download, call>> => RequestInv'
  <2> SUFFICES ASSUME RequestInv, [RequestNext]_<<request, vars, download, call>>
               PROVE  RequestInv'
    OBVIOUS
  <2>1. request' = request
    BY DEF RequestNext
  <2>2. CASE request = "call"
    <3>1. [Single!Next]_call
      BY <2>2 DEF RequestNext
    <3>. QED
      BY <2>1, <2>2, <3>1, CallKept DEF RequestInv
  <2>3. CASE request # "call"
    <3>1. UNCHANGED call
      BY <2>3 DEF RequestNext
    <3>2. NoCall'
      BY <2>3, <3>1 DEF RequestInv, NoCall, call
    <3>. QED
      BY <2>1, <2>3, <3>2 DEF RequestInv
  <2>. QED
    BY <2>2, <2>3
<1>. QED
  BY <1>1, <1>2, PTL DEF RequestSpec

\* The states are as they are declared: the semaphore and the wait group in
\* their ranges, a download at one of its steps, no more changes performed than
\* asked for.
THEOREM RequestsTyped == RequestSpec => []RequestsTypeOK
<1>1. RequestInit => BulkInv /\ ExportInv
  BY BulkStarts, ExportStarts DEF RequestInit
<1>2. BulkInv /\ ExportInv /\ [RequestNext]_<<request, vars, download, call>>
        => BulkInv' /\ ExportInv'
  BY BulkKept, ExportKept DEF RequestNext
<1>3. BulkInv /\ ExportInv /\ RequestInv => RequestsTypeOK
  BY BulkInvImplies, CallInvImplies DEF ExportInv, RequestInv, RequestsTypeOK
<1>. QED
  BY <1>1, <1>2, <1>3, RequestInvHolds, PTL DEF RequestSpec

\* An answer of not found or of a conflict was true at some time of its request,
\* and what is in use is refused as a conflict, whoever else was at work
\* (mapErr, statusFor, DeleteProfile and its like).
THEOREM AnswersWereTrue == RequestSpec => []AnswerWasTrue
<1>1. RequestInv => AnswerWasTrue
  BY CallInvImplies, NoCallImplies DEF RequestInv, AnswerWasTrue
<1>. QED
  BY <1>1, RequestInvHolds, PTL

\* A page or a redirection follows what was done, and a refusal what was not,
\* whatever was lost and whoever left (waitOp, mapErr).
THEOREM AnswersTellWhatIsDone == RequestSpec => []AnswerTellsDone
<1>1. RequestInv => AnswerTellsDone
  BY CallInvImplies, NoCallImplies DEF RequestInv, AnswerTellsDone
<1>. QED
  BY <1>1, RequestInvHolds, PTL

\* A migration deletes its source after the copy only, and an image that could
\* not be tagged is deleted again (MigrateInstance, createAlias).
THEOREM NoHalfIsLeft == RequestSpec => []HalfDoneIsUndone
<1>1. RequestInv => HalfDoneIsUndone
  BY CallInvImplies, NoCallImplies DEF RequestInv, HalfDoneIsUndone
<1>. QED
  BY <1>1, RequestInvHolds, PTL

\* A change that the daemon performs is one the method may make, and it met no
\* objection.
LEMMA PerformedChange ==
  ASSUME CallInv, Single!Next, Len(done') > Len(done)
  PROVE  \E c \in AnyChange(method) :
           Single!Objections(c) = {} /\ done' = Append(done, c.effect)
<1>1. done' # done
  <2>1. Len(done) \in Nat
    BY LenProperties DEF CallInv, Typed
  <2>. QED
    BY <2>1
<1>2. Single!SendChange \/ Single!EndOperation
  BY <1>1 DEF Single!Next, Single!Lexi, Single!DoLocally, Single!Skip, Single!DoGet,
     Single!DoAbsent, Single!DoRefuse, Single!DoWhen, Single!DoMaybe, Single!DoPick,
     Single!ReadPage, Single!StartOperation, Single!WaitEnds, Single!WaitCanceled,
     Single!Finish, Single!WaitLost, Single!Leave, Single!Outside, Single!Resources
<1>3. CASE Single!SendChange
  <2>1. Single!Step("change")
    BY <1>3 DEF Single!SendChange
  <2>2. Single!Now \in AnyChange(method)
    BY <2>1, AtChange
  <2>3. Single!Objections(Single!Now) = {} /\ done' = Append(done, Single!Now.effect)
    BY <1>1, <1>3 DEF Single!SendChange
  <2>. QED
    BY <2>2, <2>3
<1>4. CASE Single!EndOperation
  <2>1. operation.change \in AnyChange(method)
    BY <1>4, OpKinds DEF Single!EndOperation, CallInv, Typed
  <2>2. Single!Objections(operation.change) = {}
        /\ done' = Append(done, operation.change.effect)
    BY <1>1, <1>4 DEF Single!EndOperation
  <2>. QED
    BY <2>1, <2>2
<1>. QED
  BY <1>2, <1>3, <1>4

\* What was read is sent back over nothing newer, whatever others have done in
\* between: the daemon compares the version that goes with it (mutateInstance,
\* UpdateImage, UpdateCertificate).
THEOREM NothingIsOverwritten == RequestSpec => NoOverwrite
<1>1. RequestInv /\ [RequestNext]_<<request, vars, download, call>>
        => [request = "call" => Single!OverNothingNewer]_call
  <2> SUFFICES ASSUME RequestInv, [RequestNext]_<<request, vars, download, call>>,
                      request = "call", call' # call,
                      Len(done') > Len(done), done'[Len(done')] = "update",
                      method # Single!UpdateNetworkForward
               PROVE  daemon.rev = seen.rev
    BY DEF Single!OverNothingNewer
  <2>1. Single!Next /\ CallInv
    BY DEF RequestNext, RequestInv
  <2>2. PICK c \in AnyChange(method) :
          Single!Objections(c) = {} /\ done' = Append(done, c.effect)
    BY <2>1, PerformedChange
  <2>3. c.effect = "update"
    <3>1. done \in Seq(AllEffects) /\ c.effect \in AllEffects
      BY <2>1, ChangingSteps DEF CallInv, Typed, AnyChange, AllEffects
    <3>2. done'[Len(done')] = c.effect
      BY <2>2, <3>1, AppendProperties, LenProperties
    <3>. QED
      BY <3>2
  <2>4. c.version = "read"
    BY <2>3 DEF AnyChange, Single!Changing
  <2>. QED
    BY <2>2, <2>3, <2>4 DEF Single!Objections, Single!IfMatch
<1>. QED
  BY <1>1, RequestInvHolds, PTL DEF RequestSpec, NoOverwrite
=============================================================================
