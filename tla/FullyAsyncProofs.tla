-------------------------- MODULE FullyAsyncProofs --------------------------
(***************************************************************************)
(* Proofs about FullyAsync, for any numbers of samples, tasks and steps.   *)
(***************************************************************************)
EXTENDS FullyAsync, FiniteSetTheorems, SequenceTheorems, TLAPS

-----------------------------------------------------------------------------
(* Sequences and sets of samples. *)

LEMMA TailOnce ==
  ASSUME NEW R, NEW q \in Seq(R), q # <<>>
  PROVE  /\ Tail(q) \in Seq(R) /\ Head(q) \in R /\ Head(q) \in ToSet(q)
         /\ IsInjective(q) => IsInjective(Tail(q))
         /\ IsInjective(q) => ToSet(Tail(q)) = ToSet(q) \ {Head(q)}
<1>1. /\ Tail(q) \in Seq(R) /\ Head(q) = q[1] /\ Head(q) \in R
      /\ Len(q) \in Nat /\ Len(q) > 0 /\ Len(Tail(q)) = Len(q) - 1
      /\ DOMAIN q = 1 .. Len(q) /\ DOMAIN Tail(q) = 1 .. Len(q) - 1
      /\ \A i \in 1 .. Len(q) - 1 : Tail(q)[i] = q[i + 1]
  OBVIOUS
<1> DEFINE t == Tail(q)
           n == Len(q)
<1> HIDE DEF t, n
<1>2. /\ n \in Nat /\ n > 0 /\ DOMAIN q = 1 .. n /\ DOMAIN t = 1 .. n - 1
      /\ \A i \in 1 .. n - 1 : t[i] = q[i + 1]
  BY <1>1 DEF t, n
<1>3. q[1] \in ToSet(q)
  BY <1>2 DEF ToSet
<1>4. ASSUME IsInjective(q) PROVE IsInjective(t)
  <2> SUFFICES ASSUME NEW a \in DOMAIN t, NEW b \in DOMAIN t, t[a] = t[b]
               PROVE  a = b
    BY DEF IsInjective
  <2>1. q[a + 1] = q[b + 1] /\ a + 1 \in DOMAIN q /\ b + 1 \in DOMAIN q
    BY <1>2
  <2>2. a + 1 = b + 1
    BY <1>4, <2>1 DEF IsInjective
  <2> QED
    BY <1>2, <2>2
<1>5. ASSUME IsInjective(q) PROVE ToSet(t) = ToSet(q) \ {q[1]}
  <2>1. ASSUME NEW i \in DOMAIN t PROVE t[i] \in ToSet(q) /\ t[i] # q[1]
    <3>1. t[i] = q[i + 1] /\ i + 1 \in DOMAIN q /\ 1 \in DOMAIN q /\ i + 1 # 1
      BY <1>2
    <3> QED
      BY <1>5, <3>1 DEF IsInjective, ToSet
  <2>2. ASSUME NEW i \in DOMAIN q, q[i] # q[1] PROVE q[i] \in ToSet(t)
    <3>1. i - 1 \in DOMAIN t /\ t[i - 1] = q[i]
      BY <1>2, <2>2
    <3> QED
      BY <3>1 DEF ToSet
  <2> QED
    BY <2>1, <2>2 DEF ToSet
<1> QED
  BY <1>1, <1>3, <1>4, <1>5 DEF t

LEMMA AppendOnce ==
  ASSUME NEW R, NEW q \in Seq(R), NEW x \in R
  PROVE  /\ Append(q, x) \in Seq(R) /\ ToSet(Append(q, x)) = ToSet(q) \cup {x}
         /\ IsInjective(q) /\ x \notin ToSet(q) => IsInjective(Append(q, x))
<1> DEFINE m == Append(q, x)
           n == Len(q)
<1>1. /\ m \in Seq(R) /\ n \in Nat /\ DOMAIN q = 1 .. n /\ DOMAIN m = 1 .. n + 1
      /\ m[n + 1] = x /\ \A i \in 1 .. n : m[i] = q[i]
  OBVIOUS
<1> HIDE DEF m, n
<1>2. ToSet(m) = ToSet(q) \cup {x}
  <2>1. ToSet(m) = {m[i] : i \in 1 .. n + 1} /\ ToSet(q) = {m[i] : i \in 1 .. n}
    BY <1>1 DEF ToSet
  <2>2. 1 .. n + 1 = 1 .. n \cup {n + 1} /\ m[n + 1] = x
    BY <1>1
  <2> QED
    BY <2>1, <2>2, Zenon
<1>3. ASSUME IsInjective(q), x \notin ToSet(q) PROVE IsInjective(m)
  <2> SUFFICES ASSUME NEW a \in 1 .. n + 1, NEW b \in 1 .. n + 1, m[a] = m[b]
               PROVE  a = b
    BY <1>1 DEF IsInjective
  <2>1. \A i \in 1 .. n : m[i] # x
    BY <1>1, <1>3 DEF ToSet
  <2>2. CASE a \in 1 .. n /\ b \in 1 .. n
    BY <1>1, <1>3, <2>2 DEF IsInjective
  <2>3. CASE a = n + 1 \/ b = n + 1
    BY <1>1, <2>1, <2>3
  <2> QED
    BY <1>1, <2>2, <2>3
<1> QED
  BY <1>1, <1>2, <1>3 DEF m

LEMMA SubsetsOfSamples ==
  ASSUME NEW S \in SUBSET Samples
  PROVE  IsFiniteSet(S) /\ Cardinality(S) \in Nat
<1>1. IsFiniteSet(Samples)
  BY SizesAssumption, FS_Interval DEF Samples
<1> QED
  BY <1>1, FS_Subset, FS_CardinalityType

LEMMA SmallerSet ==
  ASSUME NEW T \in SUBSET Samples, NEW S \in SUBSET T
  PROVE  Cardinality(S) <= Cardinality(T)
BY SubsetsOfSamples, FS_Subset

\* set_max_required_samples makes the bound at least one training interval.
LEMMA PositiveBound ==
  /\ MaxRequired \in Nat /\ MaxRequired > 0
  /\ MaxConcurrent \in Nat /\ MaxConcurrent > 0 /\ MaxConcurrent <= MaxRequired
<1>1. MaxConcurrent \in 1 .. MaxRequired /\ MaxRequired \in Nat
  BY SizesAssumption
<1> QED
  BY <1>1

LEMMA ActiveSizeIs ==
  ASSUME TypeOK
  PROVE  /\ ActiveSize \in Nat
         /\ ActiveSize > 0 <=> spent > 0 \/ UnderWay # {}
<1>1. UnderWay \in SUBSET Samples
  BY DEF UnderWay
<1>2. /\ Cardinality(UnderWay) \in Nat
      /\ Cardinality(UnderWay) = 0 <=> UnderWay = {}
  BY <1>1, SubsetsOfSamples, FS_EmptySet
<1> QED
  BY <1>2 DEF TypeOK, ActiveSize
-----------------------------------------------------------------------------
(* Types. *)

Threads == {"proc", "sync", "monitor", "main"}

\* The lock is left alone, left by its holder, or entered or queued for.
LockMoves ==
  \/ lock' = lock
  \/ lock # <<>> /\ lock' = Tail(lock)
  \/ \E x \in Threads : lock' = Append(lock, x)

LEMMA LockStep ==
  ASSUME Next
  PROVE  LockMoves
<1>1. \A x : <<x>> = Append(<<>>, x)
  OBVIOUS
<1>2. CASE Processor
  BY <1>1, <1>2 DEF Processor, LockMoves, Threads, Enqueue, Leave, Hold,
     ProcWaits, StopTaking, TakeCancelled, WaitPending, TakePending, MarkPaused, Drain,
     AwaitTasks, CollectTasks, WaitResume, WakeUp, Submit
<1>3. CASE Sync
  BY <1>1, <1>3 DEF Sync, LockMoves, Threads, Enqueue, Leave, Hold,
     SyncWaits, PauseBegin, CancelServers, PauseEnd, Transfer, UpdateBegin, QueueSize,
     UpdateEnd, ResumeBegin, ResumeServers, ResumeEnd
<1>4. CASE Monitor
  BY <1>1, <1>4 DEF Monitor, LockMoves, Threads, Enqueue, Leave, Hold,
     MonitorWaits, MonitorTop, MonitorChecks, MonitorResumes
<1>5. CASE Main
  BY <1>1, <1>5 DEF Main, LockMoves, Threads, Enqueue, Leave, Hold,
     PutFinish, MainWaits, StopRunning
<1>6. CASE Trainer
  BY <1>1, <1>6 DEF Trainer, LockMoves, Threads, Enqueue, Leave, Hold,
     GetSample, GetFinish, Train, StartSync, Ending, LastWait
<1>7. ASSUME NEW s \in Samples, Task(s) \/ Raises(s)
      PROVE  LockMoves
  BY <1>7 DEF Task, Generated, Label, Put, Interrupted, Raises, LockMoves
<1>8. CASE Over
  BY <1>8 DEF Over, vars, LockMoves
<1> QED
  BY <1>2, <1>3, <1>4, <1>5, <1>6, <1>7, <1>8 DEF Next

Booleans ==
  /\ partial \in Modes /\ paused \in BOOLEAN /\ trigger \in BOOLEAN /\ running \in BOOLEAN
  /\ seen \in BOOLEAN /\ raised \in BOOLEAN /\ cut \in BOOLEAN

Scalars ==
  /\ staleness \in Nat /\ paramVersion \in Nat
  /\ proc \in {"loop", "getting", "pauseLock", "drain", "drainLock", "drainWait", "condLock",
               "waiting", "notified", "exited", "dead"}
  /\ why \in {"pause", "limit", "done"}
  /\ hand \in 0 .. Total /\ next \in 1 .. Total + 1 /\ fed \in 1 .. Total + 1
  /\ spent \in Nat
  /\ call \in {"idle", "pauseLock", "cancel", "gather", "transfer", "updateLock", "size",
               "updateEnd", "resumeLock", "servers", "resumeEnd"}
  /\ sum \in Nat /\ weights \in Nat
  /\ monitor \in {"top", "sleep", "resume", "ended"} /\ main \in {"run", "stop", "stopped"}
  /\ trainer \in {"collect", "train", "wait", "sync", "ending", "finalSync", "lastWait", "stopped"}
  /\ step \in 1 .. SyncSteps /\ version \in Nat

Containers ==
  /\ at \in [Samples -> Places] /\ label \in [Samples -> Nat]
  /\ cancelQueue \in Seq(Samples) /\ queue \in Seq(0 .. Total)

LEMMA TypeOKParts == TypeOK <=> Booleans /\ Scalars /\ Containers /\ lock \in Seq(Threads)
BY Zenon DEF TypeOK, Booleans, Scalars, Containers, Threads

LEMMA HeadOf ==
  ASSUME NEW R, NEW q \in Seq(R), q # <<>>
  PROVE  Head(q) \in R /\ Tail(q) \in Seq(R)
OBVIOUS

LEMMA HeadSample ==
  ASSUME Containers
  PROVE  /\ cancelQueue # <<>> => /\ Head(cancelQueue) \in Samples
                                  /\ Tail(cancelQueue) \in Seq(Samples)
         /\ queue # <<>> => /\ Head(queue) \in 0 .. Total /\ Tail(queue) \in Seq(0 .. Total)
                           /\ (Head(queue) # Finish => Head(queue) \in Samples)
         /\ Len(queue) \in Nat /\ Len(cancelQueue) \in Nat
         /\ \A s \in Samples : s \in 0 .. Total /\ s # Finish
<1>1. cancelQueue \in Seq(Samples) /\ queue \in Seq(0 .. Total)
  BY DEF Containers
<1>2. \A s \in Samples : s \in 0 .. Total /\ s # Finish
  BY SizesAssumption DEF Samples, Finish
<1>3. \A i \in 0 .. Total : i # Finish => i \in Samples
  BY SizesAssumption DEF Samples, Finish
<1>4. cancelQueue # <<>> => Head(cancelQueue) \in Samples /\ Tail(cancelQueue) \in Seq(Samples)
  BY <1>1, HeadOf
<1>5. queue # <<>> => Head(queue) \in 0 .. Total /\ Tail(queue) \in Seq(0 .. Total)
  BY <1>1, HeadOf
<1> QED
  BY <1>1, <1>2, <1>3, <1>4, <1>5

LEMMA FilledIs ==
  ASSUME Scalars
  PROVE  /\ Filled \in 1 .. Total + 1
         /\ Filled >= PendingSize \/ Filled = Total + 1
<1>1. next \in 1 .. Total + 1 /\ Total \in Nat /\ PendingSize \in Nat \ {0}
  BY SizesAssumption, PendingAssumption DEF Scalars
<1> QED
  BY <1>1 DEF Filled

LEMMA BooleansStep ==
  ASSUME TypeOK, Next
  PROVE  Booleans'
<1> USE DEF flags, procs, pending_queue, tasks, syncs, train
<1>1. Booleans
  BY TypeOKParts
<1>2. CASE Processor
  <2>1. CASE ProcWaits \/ StopTaking \/ TakeCancelled \/ WaitPending \/ TakePending
    BY <1>1, <2>1, Zenon DEF Booleans, ProcWaits, StopTaking, TakeCancelled, WaitPending,
       TakePending
  <2>2. CASE MarkPaused \/ Drain \/ AwaitTasks \/ CollectTasks
    BY <1>1, <2>2, Zenon DEF Booleans, MarkPaused, Drain, AwaitTasks, CollectTasks
  <2>3. CASE WaitResume \/ WakeUp \/ Submit
    BY <1>1, <2>3, Zenon DEF Booleans, WaitResume, WakeUp, Submit
  <2> QED
    BY <1>2, <2>1, <2>2, <2>3 DEF Processor
<1>3. CASE Sync
  <2>1. CASE SyncWaits \/ PauseBegin \/ CancelServers \/ PauseEnd
    BY <1>1, <2>1, Zenon DEF Booleans, SyncWaits, PauseBegin, CancelServers, PauseEnd
  <2>2. CASE Transfer \/ UpdateBegin \/ QueueSize \/ UpdateEnd
    BY <1>1, <2>2, Zenon DEF Booleans, Transfer, UpdateBegin, QueueSize, UpdateEnd
  <2>3. CASE ResumeBegin \/ ResumeServers \/ ResumeEnd
    BY <1>1, <2>3, Zenon DEF Booleans, ResumeBegin, ResumeServers, ResumeEnd
  <2> QED
    BY <1>3, <2>1, <2>2, <2>3 DEF Sync
<1>4. CASE Monitor
  BY <1>1, <1>4, Zenon DEF Booleans, Monitor,
     MonitorWaits, MonitorTop, MonitorChecks, MonitorResumes
<1>5. CASE Main
  BY <1>1, <1>5, Zenon DEF Booleans, Main,
     PutFinish, MainWaits, StopRunning
<1>6. CASE Trainer
  BY <1>1, <1>6, Zenon DEF Booleans, Trainer,
     GetSample, GetFinish, Train, StartSync, Ending, LastWait
<1>7. ASSUME NEW s \in Samples, Task(s) \/ Raises(s)
      PROVE  Booleans'
  BY <1>1, <1>7, Zenon DEF Task, Generated, Label, Put, Interrupted, Raises, Booleans
<1>8. CASE Over
  BY <1>1, <1>8, Zenon DEF Over, vars, Booleans
<1> QED
  BY <1>2, <1>3, <1>4, <1>5, <1>6, <1>7, <1>8 DEF Next

LEMMA ScalarsStep ==
  ASSUME TypeOK, Next
  PROVE  Scalars'
<1> USE DEF flags, procs, pending_queue, tasks, syncs, train
<1>1. Scalars /\ Containers
  BY TypeOKParts
<1>2. ActiveSize \in Nat
  BY ActiveSizeIs
<1>3. CASE Processor
  <2>1. CASE ProcWaits
    BY <1>1, <1>2, <2>1, HeadSample, SizesAssumption, FilledIs DEF ProcWaits, Refill, Scalars,
       NotifyAll, Samples
  <2>2. CASE StopTaking
    BY <1>1, <1>2, <2>2, HeadSample, SizesAssumption DEF StopTaking, Scalars, NotifyAll, Samples
  <2>3. CASE TakeCancelled
    BY <1>1, <1>2, <2>3, HeadSample, SizesAssumption DEF TakeCancelled, Scalars, NotifyAll,
       Samples
  <2>4. CASE TakePending
    BY <1>1, <1>2, <2>4, HeadSample, SizesAssumption DEF TakePending, Scalars, NotifyAll, Samples
  <2>5. CASE MarkPaused
    BY <1>1, <1>2, <2>5, HeadSample, SizesAssumption DEF MarkPaused, Scalars, NotifyAll, Samples
  <2>6. CASE Drain
    BY <1>1, <1>2, <2>6, HeadSample, SizesAssumption DEF Drain, Scalars, NotifyAll, Samples
  <2>7. CASE AwaitTasks
    BY <1>1, <1>2, <2>7, HeadSample, SizesAssumption, FilledIs DEF AwaitTasks, Refill, Scalars,
       NotifyAll, Samples
  <2>8. CASE CollectTasks
    BY <1>1, <1>2, <2>8, HeadSample, SizesAssumption DEF CollectTasks, Scalars, NotifyAll, Samples
  <2>9. CASE WaitResume
    BY <1>1, <1>2, <2>9, HeadSample, SizesAssumption, FilledIs DEF WaitResume, Refill, Scalars,
       NotifyAll, Samples
  <2>10. CASE WakeUp
    BY <1>1, <1>2, <2>10, HeadSample, SizesAssumption DEF WakeUp, Scalars, NotifyAll, Samples
  <2>11. CASE Submit
    BY <1>1, <1>2, <2>11, HeadSample, SizesAssumption DEF Submit, Scalars, NotifyAll, Samples
  <2>12. CASE WaitPending
    BY <1>1, <1>2, <2>12, FilledIs DEF WaitPending, Refill, Scalars
  <2> QED
    BY <1>3, <2>1, <2>2, <2>3, <2>4, <2>5, <2>6, <2>7, <2>8, <2>9, <2>10, <2>11,
       <2>12 DEF Processor
<1>4. CASE Sync
  <2>1. CASE SyncWaits
    BY <1>1, <1>2, <2>1, HeadSample, SizesAssumption DEF SyncWaits, Scalars, NotifyAll, Samples
  <2>2. CASE PauseBegin
    BY <1>1, <1>2, <2>2, HeadSample, SizesAssumption DEF PauseBegin, Scalars, NotifyAll, Samples
  <2>3. CASE CancelServers
    BY <1>1, <1>2, <2>3, HeadSample, SizesAssumption DEF CancelServers, Scalars, NotifyAll,
       Samples
  <2>4. CASE PauseEnd
    BY <1>1, <1>2, <2>4, HeadSample, SizesAssumption DEF PauseEnd, Scalars, NotifyAll, Samples
  <2>5. CASE Transfer
    BY <1>1, <1>2, <2>5, HeadSample, SizesAssumption DEF Transfer, Scalars, NotifyAll, Samples
  <2>6. CASE UpdateBegin
    BY <1>1, <1>2, <2>6, HeadSample, SizesAssumption DEF UpdateBegin, Scalars, NotifyAll, Samples
  <2>7. CASE QueueSize
    BY <1>1, <1>2, <2>7, HeadSample, SizesAssumption DEF QueueSize, Scalars, NotifyAll, Samples
  <2>8. CASE UpdateEnd
    BY <1>1, <1>2, <2>8, HeadSample, SizesAssumption DEF UpdateEnd, Scalars, NotifyAll, Samples
  <2>9. CASE ResumeBegin
    BY <1>1, <1>2, <2>9, HeadSample, SizesAssumption DEF ResumeBegin, Scalars, NotifyAll, Samples
  <2>10. CASE ResumeServers
    BY <1>1, <1>2, <2>10, HeadSample, SizesAssumption DEF ResumeServers, Scalars, NotifyAll,
       Samples
  <2>11. CASE ResumeEnd
    BY <1>1, <1>2, <2>11, HeadSample, SizesAssumption DEF ResumeEnd, Scalars, NotifyAll, Samples
  <2> QED
    BY <1>4, <2>1, <2>2, <2>3, <2>4, <2>5, <2>6, <2>7, <2>8, <2>9, <2>10, <2>11 DEF Sync
<1>5. CASE Monitor
  <2>1. CASE MonitorWaits
    BY <1>1, <1>2, <2>1, HeadSample, SizesAssumption DEF MonitorWaits, Scalars, NotifyAll, Samples
  <2>2. CASE MonitorTop
    BY <1>1, <1>2, <2>2, HeadSample, SizesAssumption DEF MonitorTop, Scalars, NotifyAll, Samples
  <2>3. CASE MonitorChecks
    BY <1>1, <1>2, <2>3, HeadSample, SizesAssumption DEF MonitorChecks, Scalars, NotifyAll,
       Samples
  <2>4. CASE MonitorResumes
    BY <1>1, <1>2, <2>4, HeadSample, SizesAssumption DEF MonitorResumes, Scalars, NotifyAll,
       Samples
  <2> QED
    BY <1>5, <2>1, <2>2, <2>3, <2>4 DEF Monitor
<1>6. CASE Main
  <2>1. CASE PutFinish
    BY <1>1, <1>2, <2>1, HeadSample, SizesAssumption DEF PutFinish, Scalars, NotifyAll, Samples
  <2>2. CASE MainWaits
    BY <1>1, <1>2, <2>2, HeadSample, SizesAssumption DEF MainWaits, Scalars, NotifyAll, Samples
  <2>3. CASE StopRunning
    BY <1>1, <1>2, <2>3, HeadSample, SizesAssumption DEF StopRunning, Scalars, NotifyAll, Samples
  <2> QED
    BY <1>6, <2>1, <2>2, <2>3 DEF Main
<1>7. CASE Trainer
  <2>1. CASE GetSample
    BY <1>1, <1>2, <2>1, HeadSample, SizesAssumption DEF GetSample, Scalars, NotifyAll, Samples
  <2>2. CASE GetFinish
    BY <1>1, <1>2, <2>2, HeadSample, SizesAssumption DEF GetFinish, Scalars, NotifyAll, Samples
  <2>3. CASE Train
    BY <1>1, <1>2, <2>3, HeadSample, SizesAssumption DEF Train, Scalars, NotifyAll, Samples
  <2>4. CASE StartSync
    BY <1>1, <1>2, <2>4, HeadSample, SizesAssumption DEF StartSync, Scalars, NotifyAll, Samples
  <2>5. CASE Ending
    BY <1>1, <1>2, <2>5, HeadSample, SizesAssumption DEF Ending, Scalars, NotifyAll, Samples
  <2>6. CASE LastWait
    BY <1>1, <1>2, <2>6, HeadSample, SizesAssumption DEF LastWait, Scalars, NotifyAll, Samples
  <2> QED
    BY <1>7, <2>1, <2>2, <2>3, <2>4, <2>5, <2>6 DEF Trainer
<1>8. ASSUME NEW s \in Samples, Task(s) \/ Raises(s)
      PROVE  Scalars'
  <2>1. CASE Generated(s)
    BY <1>1, <2>1 DEF Generated, Scalars
  <2>4. CASE Label(s)
    BY <1>1, <2>4 DEF Label, Scalars
  <2>3. CASE Put(s) \/ Interrupted(s)
    <3>1. spent' = spent + 1 /\ spent' \in Nat
      BY <1>1, <2>3 DEF Put, Interrupted, Scalars
    <3>2. CASE Put(s)
      BY <1>1, <3>1, <3>2 DEF Put, Scalars
    <3>3. CASE Interrupted(s)
      BY <1>1, <3>1, <3>3 DEF Interrupted, Scalars
    <3> QED
      BY <2>3, <3>2, <3>3
  <2>2. CASE Raises(s)
    BY <1>1, <2>2 DEF Raises, Scalars, Places
  <2> QED
    BY <1>8, <2>1, <2>2, <2>3, <2>4 DEF Task
<1>9. CASE Over
  BY <1>1, <1>9 DEF Over, vars, Scalars
<1> QED
  BY <1>3, <1>4, <1>5, <1>6, <1>7, <1>8, <1>9 DEF Next

LEMMA ContainersStep ==
  ASSUME TypeOK, Next
  PROVE  Containers'
<1> USE DEF flags, procs, pending_queue, tasks, syncs, train
<1>1. Scalars /\ Containers
  BY TypeOKParts
<1>2. ASSUME UNCHANGED tasks, UNCHANGED queue
      PROVE  Containers'
  BY <1>1, <1>2 DEF Containers
<1>3. CASE Processor
  <2>1. UNCHANGED <<label, queue>>
    BY <1>3 DEF Processor, ProcWaits, StopTaking, TakeCancelled, WaitPending, TakePending,
       MarkPaused, Drain, AwaitTasks, CollectTasks, WaitResume, WakeUp, Submit
  <2>2. cancelQueue' \in Seq(Samples)
    BY <1>1, <1>3, HeadSample DEF Processor, Containers, ProcWaits, StopTaking, TakeCancelled,
       WaitPending, TakePending, MarkPaused, Drain, AwaitTasks, CollectTasks, WaitResume,
       WakeUp, Submit
  <2>3. at' \in [Samples -> Places]
    BY <1>1, <1>3 DEF Processor, Containers, Places, ProcWaits, StopTaking, TakeCancelled,
       WaitPending, TakePending, MarkPaused, Drain, AwaitTasks, CollectTasks, WaitResume,
       WakeUp, Submit
  <2> QED
    BY <1>1, <2>1, <2>2, <2>3 DEF Containers
<1>4. CASE Sync
  <2>1. UNCHANGED <<label, queue, cancelQueue>>
    BY <1>4 DEF Sync, SyncWaits, PauseBegin, CancelServers, PauseEnd, Transfer, UpdateBegin,
       QueueSize, UpdateEnd, ResumeBegin, ResumeServers, ResumeEnd
  <2>2. at' \in [Samples -> Places]
    BY <1>1, <1>4 DEF Sync, Containers, Places, SyncWaits, PauseBegin, CancelServers, PauseEnd,
       Transfer, UpdateBegin, QueueSize, UpdateEnd, ResumeBegin, ResumeServers, ResumeEnd
  <2> QED
    BY <1>1, <2>1, <2>2 DEF Containers
<1>5. CASE Monitor
  BY <1>2, <1>5 DEF Monitor, MonitorWaits, MonitorTop, MonitorChecks, MonitorResumes
<1>6. ASSUME NEW x \in 0 .. Total
      PROVE  Appended(x) \in Seq(0 .. Total)
  <2>1. CASE Full
    <3>1. queue # <<>>
      BY <1>1, <2>1, SizesAssumption, PositiveBound DEF Full, Containers
    <3>2. Tail(queue) \in Seq(0 .. Total)
      BY <1>1, <3>1 DEF Containers
    <3> QED
      BY <2>1, <3>2, <1>6 DEF Appended
  <2>2. CASE ~Full
    BY <2>2, <1>1, <1>6 DEF Appended, Containers
  <2> QED
    BY <2>1, <2>2
<1>7. CASE Main
  <2>1. CASE PutFinish
    <3>1. queue' \in Seq(0 .. Total)
      BY <1>6, <2>1, SizesAssumption DEF PutFinish, Finish
    <3> QED
      BY <1>1, <2>1, <3>1 DEF PutFinish, Containers, Places
  <2> QED
    BY <1>2, <1>7, <2>1 DEF Main, MainWaits, StopRunning
<1>8. CASE Trainer
  <2>1. CASE GetSample \/ GetFinish
    <3>1. queue # <<>> /\ queue' = Tail(queue)
      BY <2>1 DEF GetSample, GetFinish
    <3>2. queue' \in Seq(0 .. Total)
      BY <1>1, <3>1 DEF Containers
    <3> QED
      BY <3>2, <1>1, <2>1, <3>1 DEF GetSample, GetFinish, Containers, Places
  <2>2. CASE Train
    BY <1>1, <2>2 DEF Train, Containers, Places
  <2> QED
    BY <1>2, <1>8, <2>1, <2>2 DEF Trainer, StartSync, Ending, LastWait
<1>9. ASSUME NEW s \in Samples, Task(s) \/ Raises(s)
      PROVE  Containers'
  <2>1. CASE Put(s)
    <3>1. queue' \in Seq(0 .. Total)
      BY <1>1, <1>6, <2>1, HeadSample DEF Put
    <3> QED
      BY <1>1, <2>1, <3>1 DEF Put, Containers, Places
  <2>2. CASE Interrupted(s)
    BY <1>1, <2>2 DEF Interrupted, Containers, Places
  <2>3. CASE Generated(s) \/ Raises(s)
    BY <1>1, <2>3 DEF Generated, Raises, Containers, Places
  <2>4. CASE Label(s)
    BY <1>1, <2>4 DEF Label, Containers, Places, Scalars
  <2> QED
    BY <1>9, <2>1, <2>2, <2>3, <2>4 DEF Task
<1>10. CASE Over
  BY <1>2, <1>10 DEF Over, vars
<1> QED
  BY <1>3, <1>4, <1>5, <1>7, <1>8, <1>9, <1>10 DEF Next

LEMMA TypeStep ==
  ASSUME TypeOK, [Next]_vars
  PROVE  TypeOK'
<1>1. CASE Next
  <2>1. Scalars' /\ Containers'
    BY <1>1, ScalarsStep, ContainersStep
  <2>2. lock' \in Seq(Threads)
    <3>1. lock \in Seq(Threads)
      BY TypeOKParts
    <3>2. LockMoves
      BY <1>1, LockStep
    <3> QED
      BY <3>1, <3>2 DEF LockMoves
  <2>3. Booleans'
    BY <1>1, BooleansStep
  <2> QED
    BY <2>1, <2>2, <2>3, Zenon DEF TypeOK, Booleans, Scalars, Containers, Threads
<1>2. CASE UNCHANGED vars
  <2>1. UNCHANGED <<partial, paused, trigger, running, seen, raised, cut>>
    BY <1>2 DEF vars, flags, procs, pending_queue, tasks, syncs
  <2>2. Booleans'
    BY <2>1, TypeOKParts, Zenon DEF Booleans
  <2>3. Scalars' /\ Containers' /\ lock' \in Seq(Threads)
    BY <1>2, TypeOKParts DEF vars, flags, procs, pending_queue, tasks, syncs, train, Scalars,
       Containers
  <2> QED
    BY <2>2, <2>3, Zenon DEF TypeOK, Booleans, Scalars, Containers, Threads
<1> QED
  BY <1>1, <1>2

LEMMA TypeInit ==
  ASSUME Init
  PROVE  TypeOK
<1>1. Booleans
  BY Zenon DEF Init, Booleans
<1>2. Scalars
  BY SizesAssumption, PendingAssumption DEF Init, Scalars, Filled
<1>3. Containers /\ lock \in Seq(Threads)
  BY DEF Init, Containers, Places
<1> QED
  BY <1>1, <1>2, <1>3, TypeOKParts

(* Every variable keeps a value of its kind, for any sizes: no sample is   *)
(* taken from the feeder after its last, no step passes the interval.      *)
THEOREM AsyncTypeCorrect == Spec => []TypeOK
BY TypeInit, TypeStep, PTL DEF Spec

-----------------------------------------------------------------------------
(* The lock. *)

\* A call of the synchronizer that waits for others keeps the lock meanwhile,
\* and so does the processor while it waits for tasks.
LockInv ==
  /\ call \in {"cancel", "gather", "size", "updateEnd", "servers", "resumeEnd"} =>
       lock # <<>> /\ Head(lock) = "sync"
  /\ proc = "drainWait" => lock # <<>> /\ Head(lock) = "proc"

LEMMA HeadStays ==
  ASSUME NEW l \in Seq(Threads), NEW x
  PROVE  /\ Append(l, x) # <<>> /\ l # <<>> => Head(Append(l, x)) = Head(l)
         /\ <<x>> # <<>> /\ Head(<<x>>) = x
OBVIOUS

LEMMA LockInvStep ==
  ASSUME TypeOK, LockInv, Next
  PROVE  LockInv'
<1> USE DEF flags, procs, pending_queue, tasks, syncs, train
<1>1. lock \in Seq(Threads)
  BY TypeOKParts
<1>2. CASE Processor
  <2>1. CASE ProcWaits
    BY <1>1, <2>1, HeadStays DEF ProcWaits, LockInv, Enqueue, Enter, Leave, Hold, NotifyAll
  <2>2. CASE StopTaking
    BY <1>1, <2>2, HeadStays DEF StopTaking, LockInv, Enqueue, Enter, Leave, Hold, NotifyAll
  <2>3. CASE TakeCancelled
    BY <1>1, <2>3, HeadStays DEF TakeCancelled, LockInv, Enqueue, Enter, Leave, Hold, NotifyAll
  <2>4. CASE TakePending
    BY <1>1, <2>4, HeadStays DEF TakePending, LockInv, Enqueue, Enter, Leave, Hold, NotifyAll
  <2>5. CASE MarkPaused
    BY <1>1, <2>5, HeadStays DEF MarkPaused, LockInv, Enqueue, Enter, Leave, Hold, NotifyAll
  <2>6. CASE Drain
    BY <1>1, <2>6, HeadStays DEF Drain, LockInv, Enqueue, Enter, Leave, Hold, NotifyAll
  <2>7. CASE AwaitTasks
    BY <1>1, <2>7, HeadStays DEF AwaitTasks, LockInv, Enqueue, Enter, Leave, Hold, NotifyAll
  <2>8. CASE CollectTasks
    BY <1>1, <2>8, HeadStays DEF CollectTasks, LockInv, Enqueue, Enter, Leave, Hold, NotifyAll
  <2>9. CASE WaitResume
    BY <1>1, <2>9, HeadStays DEF WaitResume, LockInv, Enqueue, Enter, Leave, Hold, NotifyAll
  <2>10. CASE WakeUp
    BY <1>1, <2>10, HeadStays DEF WakeUp, LockInv, Enqueue, Enter, Leave, Hold, NotifyAll
  <2>11. CASE Submit
    BY <1>1, <2>11, HeadStays DEF Submit, LockInv, Enqueue, Enter, Leave, Hold, NotifyAll
  <2>12. CASE WaitPending
    BY <1>1, <2>12 DEF WaitPending, LockInv
  <2> QED
    BY <1>2, <2>1, <2>2, <2>3, <2>4, <2>5, <2>6, <2>7, <2>8, <2>9, <2>10, <2>11,
       <2>12 DEF Processor
<1>3. CASE Sync
  <2>1. CASE SyncWaits
    BY <1>1, <2>1, HeadStays DEF SyncWaits, LockInv, Enqueue, Enter, Leave, Hold, NotifyAll
  <2>2. CASE PauseBegin
    BY <1>1, <2>2, HeadStays DEF PauseBegin, LockInv, Enqueue, Enter, Leave, Hold, NotifyAll
  <2>3. CASE CancelServers
    BY <1>1, <2>3, HeadStays DEF CancelServers, LockInv, Enqueue, Enter, Leave, Hold, NotifyAll
  <2>4. CASE PauseEnd
    BY <1>1, <2>4, HeadStays DEF PauseEnd, LockInv, Enqueue, Enter, Leave, Hold, NotifyAll
  <2>5. CASE Transfer
    BY <1>1, <2>5, HeadStays DEF Transfer, LockInv, Enqueue, Enter, Leave, Hold, NotifyAll
  <2>6. CASE UpdateBegin
    BY <1>1, <2>6, HeadStays DEF UpdateBegin, LockInv, Enqueue, Enter, Leave, Hold, NotifyAll
  <2>7. CASE QueueSize
    BY <1>1, <2>7, HeadStays DEF QueueSize, LockInv, Enqueue, Enter, Leave, Hold, NotifyAll
  <2>8. CASE UpdateEnd
    BY <1>1, <2>8, HeadStays DEF UpdateEnd, LockInv, Enqueue, Enter, Leave, Hold, NotifyAll
  <2>9. CASE ResumeBegin
    BY <1>1, <2>9, HeadStays DEF ResumeBegin, LockInv, Enqueue, Enter, Leave, Hold, NotifyAll
  <2>10. CASE ResumeServers
    BY <1>1, <2>10, HeadStays DEF ResumeServers, LockInv, Enqueue, Enter, Leave, Hold, NotifyAll
  <2>11. CASE ResumeEnd
    BY <1>1, <2>11, HeadStays DEF ResumeEnd, LockInv, Enqueue, Enter, Leave, Hold, NotifyAll
  <2> QED
    BY <1>3, <2>1, <2>2, <2>3, <2>4, <2>5, <2>6, <2>7, <2>8, <2>9, <2>10, <2>11 DEF Sync
<1>4. CASE Monitor
  <2>1. CASE MonitorWaits
    BY <1>1, <2>1, HeadStays DEF MonitorWaits, LockInv, Enqueue, Enter, Leave, Hold, NotifyAll
  <2>2. CASE MonitorTop
    BY <1>1, <2>2, HeadStays DEF MonitorTop, LockInv, Enqueue, Enter, Leave, Hold, NotifyAll
  <2>3. CASE MonitorChecks
    BY <1>1, <2>3, HeadStays DEF MonitorChecks, LockInv, Enqueue, Enter, Leave, Hold, NotifyAll
  <2>4. CASE MonitorResumes
    BY <1>1, <2>4, HeadStays DEF MonitorResumes, LockInv, Enqueue, Enter, Leave, Hold, NotifyAll
  <2> QED
    BY <1>4, <2>1, <2>2, <2>3, <2>4 DEF Monitor
<1>5. CASE Main
  <2>1. CASE PutFinish
    BY <1>1, <2>1, HeadStays DEF PutFinish, LockInv, Enqueue, Enter, Leave, Hold, NotifyAll
  <2>2. CASE MainWaits
    BY <1>1, <2>2, HeadStays DEF MainWaits, LockInv, Enqueue, Enter, Leave, Hold, NotifyAll
  <2>3. CASE StopRunning
    BY <1>1, <2>3, HeadStays DEF StopRunning, LockInv, Enqueue, Enter, Leave, Hold, NotifyAll
  <2> QED
    BY <1>5, <2>1, <2>2, <2>3 DEF Main
<1>6. CASE Trainer
  <2>1. CASE GetSample
    BY <1>1, <2>1, HeadStays DEF GetSample, LockInv, Enqueue, Enter, Leave, Hold, NotifyAll
  <2>2. CASE GetFinish
    BY <1>1, <2>2, HeadStays DEF GetFinish, LockInv, Enqueue, Enter, Leave, Hold, NotifyAll
  <2>3. CASE Train
    BY <1>1, <2>3, HeadStays DEF Train, LockInv, Enqueue, Enter, Leave, Hold, NotifyAll
  <2>4. CASE StartSync
    BY <1>1, <2>4, HeadStays DEF StartSync, LockInv, Enqueue, Enter, Leave, Hold, NotifyAll
  <2>5. CASE Ending
    BY <1>1, <2>5, HeadStays DEF Ending, LockInv, Enqueue, Enter, Leave, Hold, NotifyAll
  <2>6. CASE LastWait
    BY <1>1, <2>6, HeadStays DEF LastWait, LockInv, Enqueue, Enter, Leave, Hold, NotifyAll
  <2> QED
    BY <1>6, <2>1, <2>2, <2>3, <2>4, <2>5, <2>6 DEF Trainer
<1>7. ASSUME NEW s \in Samples, Task(s) \/ Raises(s)
      PROVE  LockInv'
  BY <1>7 DEF Task, Generated, Label, Put, Interrupted, Raises, LockInv
<1>8. CASE Over
  BY <1>8 DEF Over, vars, LockInv
<1> QED
  BY <1>2, <1>3, <1>4, <1>5, <1>6, <1>7, <1>8 DEF Next

-----------------------------------------------------------------------------
(* The sample in hand, and the end of the processor. *)

HandInv ==
  /\ proc \in {"loop", "getting", "pauseLock", "exited"} => hand = 0
  /\ why # "limit" => hand = 0
  /\ proc \in {"drain", "drainLock", "drainWait", "condLock", "waiting", "notified"}
       /\ why = "limit" => hand # 0
  /\ why = "done" => /\ next = Total + 1
                     /\ proc \in {"drain", "drainLock", "drainWait", "exited", "dead"}
  /\ proc = "exited" => why = "done" /\ UnderWay = {}

LEMMA HandInvStep ==
  ASSUME TypeOK, HandInv, Next
  PROVE  HandInv'
<1> USE DEF flags, procs, pending_queue, tasks, syncs, train
<1>1. Scalars /\ Containers
  BY TypeOKParts
<1>2. ActiveSize \in Nat /\ (ActiveSize > 0 <=> spent > 0 \/ UnderWay # {})
  BY ActiveSizeIs
<1>3. CASE Processor
  <2>1. CASE ProcWaits
    BY <1>1, <1>2, <2>1 DEF ProcWaits, HandInv, UnderWay
  <2>2. CASE StopTaking
    BY <1>1, <1>2, <2>2 DEF StopTaking, HandInv, UnderWay
  <2>3. CASE TakeCancelled
    BY <1>1, <1>2, <2>3, HeadSample DEF TakeCancelled, HandInv, UnderWay, Containers, Samples
  <2>4. CASE TakePending
    BY <1>1, <1>2, <2>4, SizesAssumption, PositiveBound DEF TakePending, MayTakePending,
       HandInv, UnderWay,
                                                            Scalars
  <2>5. CASE MarkPaused
    BY <1>1, <1>2, <2>5 DEF MarkPaused, HandInv, UnderWay
  <2>6. CASE Drain
    BY <1>1, <1>2, <2>6, SizesAssumption, PositiveBound DEF Drain, HandInv, MustDrain, Scalars,
       UnderWay
  <2>7. CASE AwaitTasks
    BY <1>1, <1>2, <2>7 DEF AwaitTasks, HandInv, UnderWay
  <2>8. CASE CollectTasks
    BY <1>1, <1>2, <2>8 DEF CollectTasks, HandInv, UnderWay
  <2>9. CASE WaitResume
    BY <1>1, <1>2, <2>9 DEF WaitResume, HandInv, UnderWay
  <2>10. CASE WakeUp
    BY <1>1, <1>2, <2>10 DEF WakeUp, HandInv, UnderWay
  <2>11. CASE Submit
    BY <1>1, <1>2, <2>11 DEF Submit, HandInv, UnderWay
  <2>12. CASE WaitPending
    BY <1>1, <1>2, <2>12 DEF WaitPending, HandInv, UnderWay
  <2> QED
    BY <1>3, <2>1, <2>2, <2>3, <2>4, <2>5, <2>6, <2>7, <2>8, <2>9, <2>10, <2>11,
       <2>12 DEF Processor
<1>4. CASE Sync
  <2>1. CASE SyncWaits
    BY <1>1, <1>2, <2>1 DEF SyncWaits, HandInv, UnderWay
  <2>2. CASE PauseBegin
    BY <1>1, <1>2, <2>2 DEF PauseBegin, HandInv, UnderWay
  <2>3. CASE CancelServers
    BY <1>1, <1>2, <2>3 DEF CancelServers, HandInv, UnderWay
  <2>4. CASE PauseEnd
    BY <1>1, <1>2, <2>4 DEF PauseEnd, HandInv, UnderWay
  <2>5. CASE Transfer
    BY <1>1, <1>2, <2>5 DEF Transfer, HandInv, UnderWay
  <2>6. CASE UpdateBegin
    BY <1>1, <1>2, <2>6 DEF UpdateBegin, HandInv, UnderWay
  <2>7. CASE QueueSize
    BY <1>1, <1>2, <2>7 DEF QueueSize, HandInv, UnderWay
  <2>8. CASE UpdateEnd
    BY <1>1, <1>2, <2>8 DEF UpdateEnd, HandInv, UnderWay
  <2>9. CASE ResumeBegin
    BY <1>1, <1>2, <2>9 DEF ResumeBegin, HandInv, UnderWay
  <2>10. CASE ResumeServers
    BY <1>1, <1>2, <2>10 DEF ResumeServers, HandInv, UnderWay
  <2>11. CASE ResumeEnd
    BY <1>1, <1>2, <2>11 DEF ResumeEnd, HandInv, UnderWay, NotifyAll
  <2> QED
    BY <1>4, <2>1, <2>2, <2>3, <2>4, <2>5, <2>6, <2>7, <2>8, <2>9, <2>10, <2>11 DEF Sync
<1>5. CASE Monitor
  <2>1. CASE MonitorWaits
    BY <1>1, <1>2, <2>1 DEF MonitorWaits, HandInv, UnderWay
  <2>2. CASE MonitorTop
    BY <1>1, <1>2, <2>2 DEF MonitorTop, HandInv, UnderWay
  <2>3. CASE MonitorChecks
    BY <1>1, <1>2, <2>3 DEF MonitorChecks, HandInv, UnderWay
  <2>4. CASE MonitorResumes
    BY <1>1, <1>2, <2>4 DEF MonitorResumes, HandInv, UnderWay, NotifyAll
  <2> QED
    BY <1>5, <2>1, <2>2, <2>3, <2>4 DEF Monitor
<1>6. CASE Main
  <2>1. CASE PutFinish
    BY <1>1, <1>2, <2>1 DEF PutFinish, HandInv, UnderWay
  <2>2. CASE MainWaits
    BY <1>1, <1>2, <2>2 DEF MainWaits, HandInv, UnderWay
  <2>3. CASE StopRunning
    BY <1>1, <1>2, <2>3 DEF StopRunning, HandInv, UnderWay
  <2> QED
    BY <1>6, <2>1, <2>2, <2>3 DEF Main
<1>7. CASE Trainer
  <2>1. CASE GetSample
    BY <1>1, <1>2, <2>1, HeadSample DEF GetSample, HandInv, UnderWay
  <2>2. CASE GetFinish
    BY <1>1, <1>2, <2>2 DEF GetFinish, HandInv, UnderWay
  <2>3. CASE Train
    BY <1>1, <1>2, <2>3 DEF Train, HandInv, UnderWay
  <2>4. CASE StartSync
    BY <1>1, <1>2, <2>4 DEF StartSync, HandInv, UnderWay
  <2>5. CASE Ending
    BY <1>1, <1>2, <2>5 DEF Ending, HandInv, UnderWay
  <2>6. CASE LastWait
    BY <1>1, <1>2, <2>6 DEF LastWait, HandInv, UnderWay
  <2> QED
    BY <1>7, <2>1, <2>2, <2>3, <2>4, <2>5, <2>6 DEF Trainer
<1>8. ASSUME NEW s \in Samples, Task(s) \/ Raises(s)
      PROVE  HandInv'
  BY <1>1, <1>8 DEF Task, Generated, Label, Put, Interrupted, Raises, HandInv, UnderWay,
     Containers
<1>9. CASE Over
  BY <1>9 DEF Over, vars, HandInv, UnderWay
<1> QED
  BY <1>3, <1>4, <1>5, <1>6, <1>7, <1>8, <1>9 DEF Next

-----------------------------------------------------------------------------
(* Where the samples are. *)

In(p) == {s \in Samples : at[s] = p}

PlaceInv ==
  /\ SamplesAccounted
  /\ \A s \in Samples : s >= next => at[s] = "source"
  /\ main = "run" => Finish \notin ToSet(queue)

LEMMA AccountedIs ==
  SamplesAccounted <=>
    /\ IsInjective(cancelQueue) /\ ToSet(cancelQueue) = In("cancelled")
    /\ IsInjective(queue) /\ ToSet(queue) \ {Finish} = In("queued")
    /\ In("hand") = {hand} \ {0}
BY Zenon DEF SamplesAccounted, In

LEMMA AppendedToQueue ==
  ASSUME NEW q \in Seq(0 .. Total), NEW x \in 0 .. Total
  PROVE  /\ ToSet(Append(q, x)) = ToSet(q) \cup {x}
         /\ IsInjective(q) /\ x \notin ToSet(q) => IsInjective(Append(q, x))
<1> DEFINE Elements == 0 .. Total
<1>1. q \in Seq(Elements) /\ x \in Elements
  OBVIOUS
<1> HIDE DEF Elements
<1>2. /\ Append(q, x) \in Seq(Elements) /\ ToSet(Append(q, x)) = ToSet(q) \cup {x}
      /\ IsInjective(q) /\ x \notin ToSet(q) => IsInjective(Append(q, x))
  BY <1>1, AppendOnce
<1> QED
  BY <1>2

\* put_sample drops the oldest sample of a full queue for the new one.
LEMMA AppendedOnce ==
  ASSUME Containers, IsInjective(queue), NEW x \in 0 .. Total, x \notin ToSet(queue)
  PROVE  /\ IsInjective(Appended(x)) /\ Oldest \subseteq ToSet(queue)
         /\ ToSet(Appended(x)) = (ToSet(queue) \ Oldest) \cup {x}
<1>1. queue \in Seq(0 .. Total)
  BY DEF Containers
<1>2. CASE Full
  <2>1. queue # <<>>
    BY <1>1, <1>2, PositiveBound DEF Full
  <2>2. /\ Tail(queue) \in Seq(0 .. Total) /\ Head(queue) \in ToSet(queue)
        /\ IsInjective(Tail(queue)) /\ ToSet(Tail(queue)) = ToSet(queue) \ {Head(queue)}
    BY <1>1, <2>1, TailOnce
  <2>3. /\ IsInjective(Append(Tail(queue), x))
        /\ ToSet(Append(Tail(queue), x)) = ToSet(Tail(queue)) \cup {x}
    <3>1. x \notin ToSet(Tail(queue))
      BY <2>2
    <3> QED
      BY <2>2, <3>1, AppendedToQueue
  <2>4. Appended(x) = Append(Tail(queue), x) /\ Oldest = {Head(queue)}
    BY <1>2 DEF Appended, Oldest
  <2> QED
    BY <2>2, <2>3, <2>4
<1>3. CASE ~Full
  <2>1. Appended(x) = Append(queue, x) /\ Oldest = {}
    BY <1>3 DEF Appended, Oldest
  <2>2. /\ IsInjective(Append(queue, x))
        /\ ToSet(Append(queue, x)) = ToSet(queue) \cup {x}
    BY <1>1, AppendedToQueue
  <2> QED
    BY <2>1, <2>2
<1> QED
  BY <1>2, <1>3

LEMMA PlacesKept ==
  ASSUME PlaceInv, UNCHANGED <<cancelQueue, queue, hand, next>>,
         main' = "run" => main = "run",
         \A s \in Samples : \A p \in {"source", "hand", "cancelled", "queued"} :
           at'[s] = p <=> at[s] = p
  PROVE  PlaceInv'
<1>1. /\ In("cancelled")' = In("cancelled") /\ In("queued")' = In("queued")
      /\ In("hand")' = In("hand")
  BY DEF In
<1>2. SamplesAccounted'
  BY <1>1, AccountedIs DEF PlaceInv, SamplesAccounted, In
<1>3. \A s \in Samples : s >= next' => at'[s] = "source"
  BY DEF PlaceInv
<1> QED
  BY <1>2, <1>3 DEF PlaceInv

LEMMA TakeCancelledPlaces ==
  ASSUME TypeOK, HandInv, PlaceInv, TakeCancelled
  PROVE  PlaceInv'
<1> DEFINE h == Head(cancelQueue)
<1>1. /\ cancelQueue # <<>> /\ cancelQueue' = Tail(cancelQueue) /\ hand' = h
      /\ at' = [at EXCEPT ![h] = "hand"] /\ UNCHANGED <<next, queue, main>> /\ hand = 0
  BY DEF TakeCancelled, HandInv, pending_queue
<1>2. /\ cancelQueue \in Seq(Samples) /\ at \in [Samples -> Places]
      /\ IsInjective(cancelQueue) /\ ToSet(cancelQueue) = In("cancelled")
      /\ IsInjective(queue) /\ ToSet(queue) \ {Finish} = In("queued")
      /\ In("hand") = {}
  BY <1>1, AccountedIs, TypeOKParts DEF PlaceInv, Containers
<1>3. /\ h \in Samples /\ h \in In("cancelled") /\ IsInjective(Tail(cancelQueue))
      /\ ToSet(Tail(cancelQueue)) = In("cancelled") \ {h}
  BY <1>1, <1>2, TailOnce
<1> HIDE DEF h
<1>4. /\ In("cancelled")' = In("cancelled") \ {h} /\ In("queued")' = In("queued")
      /\ In("hand")' = {h}
  BY <1>1, <1>2, <1>3 DEF In
<1>5. h # 0
  BY <1>3 DEF Samples
<1>6. \A s \in Samples : s >= next => at'[s] = "source"
  BY <1>1, <1>2, <1>3 DEF PlaceInv, In
<1>7. SamplesAccounted'
  <2>1. /\ IsInjective(cancelQueue)' /\ ToSet(cancelQueue)' = In("cancelled")'
        /\ IsInjective(queue)' /\ ToSet(queue)' \ {Finish} = In("queued")'
        /\ In("hand")' = {hand'} \ {0}
    BY <1>1, <1>2, <1>3, <1>4, <1>5
  <2> QED
    BY <2>1, Zenon DEF SamplesAccounted, In
<1> QED
  BY <1>1, <1>6, <1>7 DEF PlaceInv

LEMMA TakePendingPlaces ==
  ASSUME TypeOK, HandInv, PlaceInv, TakePending
  PROVE  PlaceInv'
<1>1. CASE next <= Total
  <2>1. /\ hand' = next /\ next' = next + 1 /\ at' = [at EXCEPT ![next] = "hand"]
        /\ UNCHANGED <<cancelQueue, queue, main>> /\ hand = 0 /\ next \in 1 .. Total + 1
    BY <1>1, TypeOKParts DEF TakePending, MayTakePending, HandInv, tasks, Scalars
  <2>2. at \in [Samples -> Places] /\ next \in Samples /\ next # 0
    BY <1>1, <2>1, SizesAssumption, TypeOKParts DEF Containers, Samples
  <2>3. /\ IsInjective(cancelQueue) /\ ToSet(cancelQueue) = In("cancelled")
        /\ IsInjective(queue) /\ ToSet(queue) \ {Finish} = In("queued")
        /\ In("hand") = {}
    BY <2>1, AccountedIs DEF PlaceInv
  <2>4. at[next] = "source"
    BY <2>2 DEF PlaceInv, Samples
  <2>5. /\ In("cancelled")' = In("cancelled") /\ In("queued")' = In("queued")
        /\ In("hand")' = {next}
    BY <2>1, <2>2, <2>3, <2>4 DEF In
  <2>6. SamplesAccounted'
    <3>1. /\ IsInjective(cancelQueue)' /\ ToSet(cancelQueue)' = In("cancelled")'
          /\ IsInjective(queue)' /\ ToSet(queue)' \ {Finish} = In("queued")'
          /\ In("hand")' = {hand'} \ {0}
      BY <2>1, <2>2, <2>3, <2>5
    <3> QED
      BY <3>1, Zenon DEF SamplesAccounted, In
  <2>7. \A s \in Samples : s >= next' => at'[s] = "source"
    BY <2>1, <2>2, SizesAssumption DEF PlaceInv, Samples
  <2> QED
    BY <2>1, <2>6, <2>7 DEF PlaceInv
<1>2. CASE ~(next <= Total)
  BY <1>2, PlacesKept DEF TakePending, tasks
<1> QED
  BY <1>1, <1>2

LEMMA SubmitPlaces ==
  ASSUME TypeOK, HandInv, PlaceInv, Submit
  PROVE  PlaceInv'
<1>1. CASE why = "limit"
  <2>1. /\ hand' = 0 /\ hand # 0 /\ UNCHANGED <<next, cancelQueue, queue, main>>
        /\ \E p \in {"interrupted", "generating"} : at' = [at EXCEPT ![hand] = p]
    BY <1>1 DEF Submit, HandInv, pending_queue
  <2>2. /\ at \in [Samples -> Places]
        /\ IsInjective(cancelQueue) /\ ToSet(cancelQueue) = In("cancelled")
        /\ IsInjective(queue) /\ ToSet(queue) \ {Finish} = In("queued")
        /\ In("hand") = {hand}
    BY <2>1, AccountedIs, TypeOKParts DEF PlaceInv, Containers
  <2>3. /\ In("cancelled")' = In("cancelled") /\ In("queued")' = In("queued")
        /\ In("hand")' = {}
    BY <2>1, <2>2 DEF In
  <2>4. SamplesAccounted'
    <3>1. /\ IsInjective(cancelQueue)' /\ ToSet(cancelQueue)' = In("cancelled")'
          /\ IsInjective(queue)' /\ ToSet(queue)' \ {Finish} = In("queued")'
          /\ In("hand")' = {hand'} \ {0}
      BY <2>1, <2>2, <2>3
    <3> QED
      BY <3>1, Zenon DEF SamplesAccounted, In
  <2>5. \A s \in Samples : s >= next' => at'[s] = "source"
    BY <2>1, <2>2 DEF PlaceInv, In
  <2> QED
    BY <2>1, <2>4, <2>5 DEF PlaceInv
<1>2. CASE why # "limit"
  BY <1>2, PlacesKept DEF Submit, pending_queue
<1> QED
  BY <1>1, <1>2

LEMMA PutPlaces ==
  ASSUME TypeOK, PlaceInv, NEW s \in Samples, Put(s)
  PROVE  PlaceInv'
<1>1. /\ at[s] = "putting" /\ queue' = Appended(s)
      /\ at' = [x \in Samples |->
                  IF x \in Oldest THEN "dropped" ELSE IF x = s THEN "queued" ELSE at[x]]
      /\ UNCHANGED <<hand, next, cancelQueue, main>>
  BY DEF Put, procs, pending_queue
<1>2. /\ IsInjective(cancelQueue) /\ ToSet(cancelQueue) = In("cancelled")
      /\ IsInjective(queue) /\ ToSet(queue) \ {Finish} = In("queued")
      /\ In("hand") = {hand} \ {0} /\ Containers
  BY AccountedIs, TypeOKParts DEF PlaceInv
<1>3. s \in 0 .. Total /\ s # Finish /\ s \notin ToSet(queue)
  BY <1>1, <1>2, HeadSample DEF In
<1>4. /\ IsInjective(Appended(s)) /\ Oldest \subseteq ToSet(queue)
      /\ ToSet(Appended(s)) = (ToSet(queue) \ Oldest) \cup {s}
  BY <1>2, <1>3, AppendedOnce
<1>5. \A x \in Samples : x \in Oldest => at[x] = "queued"
  <2>1. Finish \notin Samples
    BY DEF Finish, Samples
  <2> QED
    BY <1>2, <1>4, <2>1 DEF In
<1>6. /\ In("cancelled")' = In("cancelled") /\ In("hand")' = In("hand")
      /\ In("queued")' = (In("queued") \ Oldest) \cup {s}
  BY <1>1, <1>3, <1>4, <1>5 DEF In
<1>7. SamplesAccounted'
  <2>1. /\ IsInjective(cancelQueue)' /\ ToSet(cancelQueue)' = In("cancelled")'
        /\ IsInjective(queue)' /\ ToSet(queue)' \ {Finish} = In("queued")'
        /\ In("hand")' = {hand'} \ {0}
    BY <1>1, <1>2, <1>3, <1>4, <1>6
  <2> QED
    BY <2>1, Zenon DEF SamplesAccounted, In
<1>8. \A x \in Samples : x >= next' => at'[x] = "source"
  BY <1>1, <1>5 DEF PlaceInv
<1> QED
  BY <1>1, <1>3, <1>4, <1>7, <1>8 DEF PlaceInv

LEMMA InterruptedPlaces ==
  ASSUME TypeOK, PlaceInv, NEW s \in Samples, Interrupted(s)
  PROVE  PlaceInv'
<1>1. /\ at[s] = "interrupted" /\ cancelQueue' = Append(cancelQueue, s)
      /\ at' = [at EXCEPT ![s] = "cancelled"] /\ UNCHANGED <<hand, next, queue, main>>
  BY DEF Interrupted, procs, pending_queue
<1>2. /\ IsInjective(cancelQueue) /\ ToSet(cancelQueue) = In("cancelled")
      /\ IsInjective(queue) /\ ToSet(queue) \ {Finish} = In("queued")
      /\ In("hand") = {hand} \ {0}
      /\ cancelQueue \in Seq(Samples) /\ at \in [Samples -> Places]
  BY AccountedIs, TypeOKParts DEF PlaceInv, Containers
<1>3. s \notin ToSet(cancelQueue)
  BY <1>1, <1>2 DEF In
<1>4. /\ IsInjective(Append(cancelQueue, s))
      /\ ToSet(Append(cancelQueue, s)) = ToSet(cancelQueue) \cup {s}
  BY <1>2, <1>3, AppendOnce
<1>5. /\ In("cancelled")' = In("cancelled") \cup {s} /\ In("hand")' = In("hand")
      /\ In("queued")' = In("queued")
  BY <1>1, <1>2 DEF In
<1>6. SamplesAccounted'
  <2>1. /\ IsInjective(cancelQueue)' /\ ToSet(cancelQueue)' = In("cancelled")'
        /\ IsInjective(queue)' /\ ToSet(queue)' \ {Finish} = In("queued")'
        /\ In("hand")' = {hand'} \ {0}
    BY <1>1, <1>2, <1>4, <1>5
  <2> QED
    BY <2>1, Zenon DEF SamplesAccounted, In
<1>7. \A x \in Samples : x >= next' => at'[x] = "source"
  BY <1>1, <1>2 DEF PlaceInv
<1> QED
  BY <1>1, <1>6, <1>7 DEF PlaceInv

LEMMA GetPlaces ==
  ASSUME TypeOK, PlaceInv, GetSample \/ GetFinish
  PROVE  PlaceInv'
<1> DEFINE h == Head(queue)
<1>1. /\ queue # <<>> /\ queue' = Tail(queue) /\ UNCHANGED <<hand, next, cancelQueue, main>>
      /\ \/ h # Finish /\ at' = [at EXCEPT ![h] = "batch"]
         \/ h = Finish /\ at' = at
  BY DEF GetSample, GetFinish, procs, pending_queue, tasks
<1>2. /\ IsInjective(cancelQueue) /\ ToSet(cancelQueue) = In("cancelled")
      /\ IsInjective(queue) /\ ToSet(queue) \ {Finish} = In("queued")
      /\ In("hand") = {hand} \ {0}
      /\ queue \in Seq(0 .. Total) /\ at \in [Samples -> Places]
  BY AccountedIs, TypeOKParts DEF PlaceInv, Containers
<1>3. /\ h \in ToSet(queue) /\ IsInjective(Tail(queue))
      /\ ToSet(Tail(queue)) = ToSet(queue) \ {h}
  BY <1>1, <1>2, TailOnce
<1> HIDE DEF h
<1>4. /\ In("cancelled")' = In("cancelled") /\ In("hand")' = In("hand")
      /\ In("queued")' = In("queued") \ {h}
  <2>1. CASE h # Finish
    <3>1. h \in In("queued")
      BY <1>2, <1>3, <2>1
    <3> QED
      BY <1>1, <1>2, <2>1, <3>1 DEF In
  <2>2. CASE h = Finish
    <3>1. h \notin In("queued")
      BY <2>2 DEF In, Finish, Samples
    <3> QED
      BY <1>1, <2>2, <3>1 DEF In
  <2> QED
    BY <2>1, <2>2
<1>5. SamplesAccounted'
  <2>1. /\ IsInjective(cancelQueue)' /\ ToSet(cancelQueue)' = In("cancelled")'
        /\ IsInjective(queue)' /\ ToSet(queue)' \ {Finish} = In("queued")'
        /\ In("hand")' = {hand'} \ {0}
    BY <1>1, <1>2, <1>3, <1>4
  <2> QED
    BY <2>1, Zenon DEF SamplesAccounted, In
<1>6. \A x \in Samples : x >= next' => at'[x] = "source"
  BY <1>1, <1>2, <1>3 DEF PlaceInv, In
<1> QED
  BY <1>1, <1>3, <1>5, <1>6 DEF PlaceInv

LEMMA PutFinishPlaces ==
  ASSUME TypeOK, PlaceInv, PutFinish
  PROVE  PlaceInv'
<1>1. /\ main = "run" /\ main' = "stop" /\ queue' = Appended(Finish)
      /\ at' = [x \in Samples |-> IF x \in Oldest THEN "dropped" ELSE at[x]]
      /\ UNCHANGED <<hand, next, cancelQueue>>
  BY DEF PutFinish, procs, pending_queue
<1>2. /\ IsInjective(cancelQueue) /\ ToSet(cancelQueue) = In("cancelled")
      /\ IsInjective(queue) /\ ToSet(queue) \ {Finish} = In("queued")
      /\ In("hand") = {hand} \ {0} /\ Containers
  BY AccountedIs, TypeOKParts DEF PlaceInv
<1>3. Finish \in 0 .. Total /\ Finish \notin ToSet(queue) /\ Finish \notin Samples
  BY <1>1, SizesAssumption DEF PlaceInv, Finish, Samples
<1>4. /\ IsInjective(Appended(Finish)) /\ Oldest \subseteq ToSet(queue)
      /\ ToSet(Appended(Finish)) = (ToSet(queue) \ Oldest) \cup {Finish}
  BY <1>2, <1>3, AppendedOnce
<1>5. \A x \in Samples : x \in Oldest => at[x] = "queued"
  BY <1>2, <1>3, <1>4 DEF In
<1>6. /\ In("cancelled")' = In("cancelled") /\ In("hand")' = In("hand")
      /\ In("queued")' = In("queued") \ Oldest
  BY <1>1, <1>5 DEF In
<1>7. SamplesAccounted'
  <2>1. /\ IsInjective(cancelQueue)' /\ ToSet(cancelQueue)' = In("cancelled")'
        /\ IsInjective(queue)' /\ ToSet(queue)' \ {Finish} = In("queued")'
        /\ In("hand")' = {hand'} \ {0}
    BY <1>1, <1>2, <1>3, <1>4, <1>6
  <2> QED
    BY <2>1, Zenon DEF SamplesAccounted, In
<1>8. \A x \in Samples : x >= next' => at'[x] = "source"
  BY <1>1, <1>5 DEF PlaceInv
<1> QED
  BY <1>1, <1>7, <1>8 DEF PlaceInv

LEMMA PlaceInvStep ==
  ASSUME TypeOK, HandInv, PlaceInv, Next
  PROVE  PlaceInv'
<1> USE DEF flags, procs, pending_queue, tasks, syncs, train
<1>1. CASE UNCHANGED <<at, cancelQueue, queue, hand, next>> /\ (main' = "run" => main = "run")
  BY <1>1, PlacesKept
<1>2. CASE Processor
  BY <1>1, <1>2, TakeCancelledPlaces, TakePendingPlaces, SubmitPlaces
     DEF Processor, ProcWaits, StopTaking, WaitPending, MarkPaused, Drain, AwaitTasks, CollectTasks,
         WaitResume, WakeUp
<1>3. CASE CancelServers
  BY <1>3, PlacesKept, TypeOKParts DEF CancelServers, Containers
<1>4. CASE Sync
  BY <1>1, <1>3, <1>4
     DEF Sync, SyncWaits, PauseBegin, PauseEnd, Transfer, UpdateBegin, QueueSize, UpdateEnd,
         ResumeBegin, ResumeServers, ResumeEnd
<1>5. CASE Monitor
  BY <1>1, <1>5 DEF Monitor, MonitorWaits, MonitorTop, MonitorChecks, MonitorResumes
<1>6. CASE Main
  BY <1>1, <1>6, PutFinishPlaces DEF Main, MainWaits, StopRunning
<1>7. CASE Train
  BY <1>7, PlacesKept, TypeOKParts DEF Train, Containers
<1>8. CASE Trainer
  BY <1>1, <1>7, <1>8, GetPlaces DEF Trainer, StartSync, Ending, LastWait
<1>9. ASSUME NEW s \in Samples, Task(s) \/ Raises(s)
      PROVE  PlaceInv'
  <2>1. CASE Generated(s) \/ Raises(s) \/ Label(s)
    BY <2>1, PlacesKept, TypeOKParts DEF Generated, Raises, Label, Containers
  <2> QED
    BY <1>9, <2>1, PutPlaces, InterruptedPlaces DEF Task
<1>10. CASE Over
  BY <1>1, <1>10 DEF Over, vars
<1> QED
  BY <1>2, <1>4, <1>5, <1>6, <1>8, <1>9, <1>10 DEF Next

LEMMA PlaceInit ==
  ASSUME Init
  PROVE  LockInv /\ HandInv /\ PlaceInv
<1>1. LockInv /\ HandInv
  BY DEF Init, LockInv, HandInv
<1>2. ToSet(<<>>) = {} /\ IsInjective(<<>>)
  BY DEF ToSet, IsInjective
<1>3. cancelQueue = <<>> /\ queue = <<>> /\ hand = 0 /\ \A s \in Samples : at[s] = "source"
  BY DEF Init
<1>4. In("cancelled") = {} /\ In("queued") = {} /\ In("hand") = {}
  BY <1>3 DEF In
<1>5. SamplesAccounted
  BY <1>2, <1>3, <1>4, AccountedIs
<1> QED
  BY <1>1, <1>2, <1>3, <1>5 DEF PlaceInv

LEMMA PlaceUnchanged ==
  ASSUME LockInv, HandInv, PlaceInv, UNCHANGED vars
  PROVE  (LockInv /\ HandInv /\ PlaceInv)'
<1> USE DEF vars, flags, procs, pending_queue, tasks, syncs, train
<1>1. LockInv' /\ HandInv'
  BY DEF LockInv, HandInv, UnderWay
<1>2. PlaceInv'
  BY PlacesKept
<1> QED
  BY <1>1, <1>2

LEMMA PlaceAlways == Spec => [](LockInv /\ HandInv /\ PlaceInv)
<1>1. Init => LockInv /\ HandInv /\ PlaceInv
  BY PlaceInit
<1>2. TypeOK /\ LockInv /\ HandInv /\ PlaceInv /\ [Next]_vars => (LockInv /\ HandInv /\ PlaceInv)'
  BY LockInvStep, HandInvStep, PlaceInvStep, PlaceUnchanged
<1> QED
  BY <1>1, <1>2, AsyncTypeCorrect, PTL DEF Spec

(* A sample is in one place: however pauses cut generation short and a    *)
(* full queue drops samples, no sample is in a queue twice or in two.     *)
THEOREM EverySampleAccounted == Spec => []SamplesAccounted
<1>1. PlaceInv => SamplesAccounted
  BY DEF PlaceInv
<1> QED
  BY <1>1, PlaceAlways, PTL

(* The None is the last thing the rollouter puts: the processor that has   *)
(* taken DONE leaves no task behind.                                       *)
THEOREM NothingAfterFinish == Spec => []FinishIsLast
<1>1. HandInv => FinishIsLast
  BY DEF HandInv, FinishIsLast
<1> QED
  BY <1>1, PlaceAlways, PTL

-----------------------------------------------------------------------------
(* Paused servers. *)

\* From the cancel of the servers to their resume nothing is generated.
Cutting == {"gather", "transfer", "updateLock", "size", "updateEnd", "resumeLock", "servers"}

CutInv ==
  /\ cut => \A s \in Samples : at[s] # "generating"
  /\ partial /\ call \in Cutting => cut

LEMMA CutInvStep ==
  ASSUME TypeOK, CutInv, Next
  PROVE  CutInv'
<1> USE DEF flags, procs, pending_queue, tasks, syncs, train
<1>1. Booleans /\ Containers
  BY TypeOKParts
<1>2. CASE UNCHANGED <<partial, cut, call>>
  <2>1. cut' => \A s \in Samples : at'[s] # "generating"
    <3>1. CASE Submit
      BY <1>1, <1>2, <3>1 DEF Submit, CutInv, Containers
    <3>2. CASE UNCHANGED at
      BY <1>2, <3>2 DEF CutInv
    <3>3. ASSUME NEW s \in Samples, Task(s) \/ Raises(s)
          PROVE  \A x \in Samples : at'[x] = "generating" => at[x] = "generating"
      BY <1>1, <3>3 DEF Task, Generated, Label, Put, Interrupted, Raises, Containers
    <3>4. ASSUME PutFinish \/ GetSample \/ Train \/ TakeCancelled \/ TakePending
          PROVE  \A x \in Samples : at'[x] = "generating" => at[x] = "generating"
      BY <1>1, <3>4 DEF PutFinish, GetSample, Train, TakeCancelled, TakePending, Containers
    <3> QED
      BY <1>2, <3>1, <3>2, <3>3, <3>4
         DEF CutInv, Next, Processor, Sync, Monitor, Main, Trainer, Over, vars,
         ProcWaits, StopTaking, WaitPending, MarkPaused, Drain, AwaitTasks, CollectTasks,
         WaitResume, WakeUp, SyncWaits, PauseBegin, CancelServers, PauseEnd, Transfer,
         UpdateBegin, QueueSize, UpdateEnd, ResumeBegin, ResumeServers, ResumeEnd,
         MonitorWaits, MonitorTop, MonitorChecks, MonitorResumes, MainWaits, StopRunning,
         GetFinish, StartSync, Ending, LastWait
  <2>2. partial' = partial /\ cut' = cut /\ call' = call
    BY <1>2, Zenon
  <2>3. partial' /\ call' \in Cutting => cut'
    BY <2>2, Zenon DEF CutInv
  <2> QED
    BY <2>1, <2>3, Zenon DEF CutInv
<1>3. CASE Sync
  <2>1. CASE CancelServers
    <3>1. cut' = TRUE /\ \A s \in Samples : at'[s] # "generating"
      BY <1>1, <2>1 DEF CancelServers, Containers
    <3> QED
      BY <3>1, Zenon DEF CutInv
  <2>2. CASE PauseBegin
    <3>1. UNCHANGED <<partial, cut, at>> /\ call' \in {"cancel", "gather"}
          /\ (partial => call' = "cancel")
      BY <2>2, Zenon DEF PauseBegin
    <3>2. partial' /\ call' \in Cutting => FALSE
      BY <3>1 DEF Cutting
    <3> QED
      BY <3>1, <3>2, Zenon DEF CutInv
  <2>3. CASE ResumeServers
    <3>1. cut' = FALSE /\ call' \notin Cutting
      BY <2>3 DEF ResumeServers, Cutting
    <3> QED
      BY <3>1, Zenon DEF CutInv
  <2>4. CASE ResumeBegin \/ ResumeEnd
    <3>1. UNCHANGED <<partial, cut, at>> /\ call \in Cutting \cup {"resumeEnd"}
          /\ (call' \in Cutting => call \in Cutting)
      BY <2>4 DEF ResumeBegin, ResumeEnd, Cutting
    <3> QED
      BY <3>1, Zenon DEF CutInv
  <2>5. ASSUME SyncWaits \/ PauseEnd \/ Transfer \/ UpdateBegin \/ QueueSize \/ UpdateEnd
        PROVE  CutInv'
    <3>1. UNCHANGED <<partial, cut, at>> /\ (call' \in Cutting => call \in Cutting)
      BY <2>5 DEF SyncWaits, PauseEnd, Transfer, UpdateBegin, QueueSize, UpdateEnd, Cutting
    <3> QED
      BY <3>1, Zenon DEF CutInv
  <2> QED
    BY <1>3, <2>1, <2>2, <2>3, <2>4, <2>5 DEF Sync
<1>4. CASE StartSync \/ Ending
  BY <1>2, <1>4 DEF StartSync, Ending, CutInv, Cutting
<1> QED
  BY <1>2, <1>3, <1>4 DEF Next, Processor, Monitor, Main, Trainer, Over, vars, Task,
     ProcWaits, StopTaking, TakeCancelled, WaitPending, TakePending, MarkPaused, Drain,
     AwaitTasks,
     CollectTasks, WaitResume, WakeUp, Submit, MonitorWaits, MonitorTop, MonitorChecks,
     MonitorResumes, PutFinish, MainWaits, StopRunning, GetSample, GetFinish, Train, LastWait,
     Generated, Label, Put, Interrupted, Raises

LEMMA CutAlways == Spec => []CutInv
<1>1. Init => CutInv
  BY Zenon DEF Init, CutInv, Cutting
<1>2. TypeOK /\ CutInv /\ [Next]_vars => CutInv'
  <2>1. CutInv /\ UNCHANGED vars => CutInv'
    <3>1. UNCHANGED vars => partial' = partial /\ cut' = cut /\ call' = call /\ at' = at
      BY Zenon DEF vars, flags, tasks, syncs
    <3> QED
      BY <3>1, Zenon DEF CutInv
  <2> QED
    BY <2>1, CutInvStep
<1> QED
  BY <1>1, <1>2, AsyncTypeCorrect, PTL DEF Spec

(* With partial_rollout the weights are replaced while nothing is          *)
(* generated, although the monitor may let tasks be added at that moment.  *)
THEOREM WeightsReplacedAtRest == Spec => []WeightsNotInUse
<1>1. CutInv => WeightsNotInUse
  BY Zenon DEF CutInv, Cutting, WeightsNotInUse
<1> QED
  BY <1>1, CutAlways, PTL

-----------------------------------------------------------------------------
(* The life of a sample. *)

Move(s) ==
  \/ at'[s] = at[s]
  \/ TakePending /\ at[s] = "source" /\ at'[s] = "hand"
  \/ TakeCancelled /\ at[s] = "cancelled" /\ at'[s] = "hand"
  \/ Submit /\ s = hand /\ at[s] = "hand" /\ at'[s] \in {"interrupted", "generating"}
  \/ at[s] = "generating" /\ at'[s] \in {"generated", "interrupted"}
  \/ at[s] = "generated" /\ at'[s] = "putting"
  \/ /\ <<at[s], at'[s]>> \in {<<"generating", "failed">>, <<"putting", "queued">>,
                               <<"interrupted", "cancelled">>}
     /\ spent' = spent + 1
  \/ at[s] = "queued" /\ at'[s] \in {"dropped", "batch"}
  \/ at[s] = "batch" /\ at'[s] = "trained"

LEMMA OldestQueued ==
  ASSUME TypeOK, PlaceInv
  PROVE  \A x \in Samples : x \in Oldest \/ (queue # <<>> /\ x = Head(queue)) => at[x] = "queued"
<1>1. /\ queue \in Seq(0 .. Total) /\ ToSet(queue) \ {Finish} = In("queued")
      /\ Finish \notin Samples
  BY AccountedIs, TypeOKParts DEF PlaceInv, Containers, Finish, Samples
<1>2. Full => queue # <<>>
  BY <1>1, PositiveBound DEF Full
<1>3. queue # <<>> => Head(queue) \in ToSet(queue)
  BY <1>1, TailOnce
<1> QED
  BY <1>1, <1>2, <1>3 DEF Oldest, In

LEMMA Life ==
  ASSUME TypeOK, HandInv, PlaceInv, Next, NEW s \in Samples
  PROVE  Move(s)
<1>1. Scalars /\ Containers
  BY TypeOKParts
<1> USE <1>1 DEF Containers, Move
<1>2. CASE UNCHANGED at
  BY <1>2
<1>3. CASE TakePending
  <2>1. next \in Samples => at[next] = "source"
    BY DEF PlaceInv, Scalars
  <2>2. next <= Total => next \in Samples
    BY DEF Scalars, Samples
  <2> QED
    BY <1>3, <2>1, <2>2 DEF TakePending
<1>4. CASE TakeCancelled
  <2>1. Head(cancelQueue) \in In("cancelled")
    BY <1>4, AccountedIs, TailOnce DEF TakeCancelled, PlaceInv
  <2> QED
    BY <1>4, <2>1 DEF TakeCancelled, In
<1>5. CASE Submit /\ why = "limit"
  <2>1. hand \in In("hand")
    BY <1>5, AccountedIs DEF Submit, PlaceInv, HandInv
  <2> QED
    BY <1>5, <2>1 DEF Submit, In
<1>6. CASE CancelServers
  BY <1>6 DEF CancelServers
<1>7. CASE PutFinish
  <2>1. at'[s] = IF s \in Oldest THEN "dropped" ELSE at[s]
    BY <1>7 DEF PutFinish
  <2>2. s \in Oldest => at[s] = "queued"
    BY OldestQueued
  <2> QED
    BY <2>1, <2>2
<1>8. CASE GetSample
  BY <1>8, OldestQueued DEF GetSample
<1>9. CASE Train
  BY <1>9 DEF Train
<1>10. ASSUME NEW x \in Samples, Task(x) \/ Raises(x)
       PROVE  Move(s)
  <2>1. CASE Put(x)
    <3>1. /\ at'[s] = IF s \in Oldest THEN "dropped" ELSE IF s = x THEN "queued" ELSE at[s]
          /\ at[x] = "putting" /\ spent' = spent + 1
      BY <2>1 DEF Put
    <3>2. s \in Oldest => at[s] = "queued"
      BY OldestQueued
    <3> QED
      BY <3>1, <3>2
  <2> QED
    BY <1>10, <2>1 DEF Task, Generated, Label, Interrupted, Raises
<1> QED
  BY <1>2, <1>3, <1>4, <1>5, <1>6, <1>7, <1>8, <1>9, <1>10
     DEF Next, Processor, Sync, Monitor, Main, Trainer, Over, vars, tasks,
     ProcWaits, StopTaking, WaitPending, MarkPaused, Drain, AwaitTasks, CollectTasks, WaitResume,
     WakeUp, Submit,
     SyncWaits, PauseBegin, PauseEnd, Transfer, UpdateBegin, QueueSize, UpdateEnd, ResumeBegin,
     ResumeServers, ResumeEnd, MonitorWaits, MonitorTop, MonitorChecks, MonitorResumes, MainWaits,
     StopRunning, GetFinish, StartSync, Ending, LastWait

-----------------------------------------------------------------------------
(* The processor. *)

Active == spent > 0 \/ UnderWay # {}
Failed == \E s \in Samples : at[s] = "failed"

\* Until done_tasks is assigned nobody but the processor has had the lock, the
\* tasks it waits for are there, and there was no reason to pause without one.
Unseen ==
  /\ proc \in {"loop", "pauseLock", "drain", "drainLock", "drainWait", "condLock"}
  /\ call \in {"idle", "pauseLock"} /\ monitor = "top" /\ main = "run"
  /\ proc # "drainWait" => lock = <<>>
  /\ proc \in {"pauseLock", "drainLock"} => Active
  /\ proc \in {"drain", "condLock"} /\ why = "pause" => Active
  /\ proc = "condLock" => why = "limit"
  /\ proc = "loop" /\ ~Active => staleness = 0
  /\ ~Active => queue = <<>>
  /\ paused => why = "pause" /\ proc \in {"drain", "drainLock", "drainWait"}

\* Until then every sample taken is a task or in hand, so that pending_queue is
\* not empty before as many tasks run as are allowed.
Supplied ==
  /\ next <= (IF hand = 0 THEN ActiveSize + 1 ELSE ActiveSize + 2)
  /\ proc = "loop" => ActiveSize <= MaxConcurrent
  /\ proc = "condLock" => ActiveSize < MaxConcurrent

Narrow == MaxConcurrent < PendingSize

SurviveInv ==
  /\ fed >= PendingSize \/ fed = Total + 1
  /\ raised => Failed
  /\ proc = "dead" => Failed \/ (~Narrow /\ ~seen)
  /\ Narrow => seen \/ proc \in {"exited", "dead"} \/ (Unseen /\ Supplied)

LEMMA FailedStays ==
  ASSUME TypeOK, HandInv, PlaceInv, Next, Failed
  PROVE  Failed'
<1>1. PICK s \in Samples : at[s] = "failed"
  BY DEF Failed
<1>2. at'[s] = "failed"
  BY <1>1, Life DEF Move
<1> QED
  BY <1>2 DEF Failed

LEMMA SetsUnderWay ==
  /\ UnderWay \in SUBSET Samples /\ IsFiniteSet(UnderWay) /\ Cardinality(UnderWay) \in Nat
<1>1. UnderWay \in SUBSET Samples
  BY DEF UnderWay
<1> QED
  BY <1>1, SubsetsOfSamples

\* Tasks leave active_tasks only when they are collected.
LEMMA SpentGrows ==
  ASSUME TypeOK, Next, ~CollectTasks, ~PauseEnd
  PROVE  spent' \in Nat /\ spent' >= spent
<1> USE DEF tasks
<1>1. spent \in Nat
  BY TypeOKParts DEF Scalars
<1>2. CASE UNCHANGED spent
  BY <1>1, <1>2
<1>3. ASSUME NEW s \in Samples, Task(s) \/ Raises(s)
      PROVE  spent' = spent \/ spent' = spent + 1
  BY <1>3 DEF Task, Generated, Label, Put, Interrupted, Raises
<1>4. CASE Processor
  BY <1>2, <1>4, Zenon DEF Processor, ProcWaits, StopTaking, TakeCancelled, WaitPending,
     TakePending,
     MarkPaused, Drain, AwaitTasks, WaitResume, WakeUp, Submit
<1>5. CASE Sync
  BY <1>2, <1>5, Zenon DEF Sync, SyncWaits, PauseBegin, CancelServers, Transfer, UpdateBegin,
     QueueSize, UpdateEnd, ResumeBegin, ResumeServers, ResumeEnd
<1>6. CASE Monitor
  BY <1>2, <1>6, Zenon DEF Monitor, MonitorWaits, MonitorTop, MonitorChecks, MonitorResumes
<1>7. CASE Main
  BY <1>2, <1>7, Zenon DEF Main, PutFinish, MainWaits, StopRunning
<1>8. CASE Trainer
  BY <1>2, <1>8, Zenon DEF Trainer, GetSample, GetFinish, Train, StartSync, Ending, LastWait
<1>9. CASE Over
  BY <1>2, <1>9 DEF Over, vars
<1> QED
  BY <1>1, <1>3, <1>4, <1>5, <1>6, <1>7, <1>8, <1>9 DEF Next

LEMMA ActiveStays ==
  ASSUME TypeOK, HandInv, PlaceInv, Next, ~CollectTasks, ~PauseEnd, Active
  PROVE  Active'
<1>1. spent \in Nat /\ spent' \in Nat /\ spent' >= spent
  BY SpentGrows, TypeOKParts DEF Scalars
<1>2. CASE spent > 0
  BY <1>1, <1>2 DEF Active
<1>3. CASE UnderWay # {}
  <2>1. PICK s \in Samples : at[s] \in {"generating", "generated", "interrupted", "putting"}
    BY <1>3 DEF UnderWay
  <2>2. \/ at'[s] \in {"generating", "generated", "interrupted", "putting"}
        \/ spent' = spent + 1
    BY <2>1, Life DEF Move
  <2> QED
    BY <1>1, <2>2 DEF Active, UnderWay
<1> QED
  BY <1>2, <1>3 DEF Active

LEMMA UnseenKept ==
  ASSUME Unseen, Active => Active', paused' => paused,
         UNCHANGED <<proc, why, staleness, monitor, main>>,
         call' \in {"idle", "pauseLock"},
         queue' # <<>> => queue # <<>> \/ Active',
         proc # "drainWait" => lock' = <<>>
  PROVE  Unseen'
BY DEF Unseen

LEMMA UnseenProcessor ==
  ASSUME TypeOK, LockInv, HandInv, PlaceInv, ~seen, Unseen, Processor, ~WaitPending
  PROVE  seen' \/ proc' = "exited" \/ Unseen'
<1>1. Scalars /\ Containers /\ ActiveSize \in Nat /\ (ActiveSize > 0 <=> Active)
  BY ActiveSizeIs, TypeOKParts DEF Active
<1>2. ~CollectTasks => (Active => Active')
  BY ActiveStays DEF Next, PauseEnd, Unseen
<1>3. ~Waits("proc") \/ proc = "drainWait"
  BY DEF Unseen, Waits, ToSet
<1> USE DEF flags, procs, pending_queue, tasks, syncs
<1>4. CASE ProcWaits
  BY <1>4 DEF ProcWaits, Enqueue, Unseen
<1>5. CASE StopTaking
  <2>1. /\ proc = "loop" /\ proc' = "pauseLock" /\ ~CollectTasks
        /\ UNCHANGED <<call, monitor, main, lock, queue>>
    BY <1>5 DEF StopTaking, CollectTasks
  <2>2. paused' => paused
    BY <1>5, Zenon DEF StopTaking
  <2>3. ~paused /\ ShouldPause
    BY <1>5, <2>1 DEF StopTaking, Unseen
  <2>4. Active
    <3>1. Len(queue) >= MaxRequired => queue # <<>>
      BY <1>1, PositiveBound DEF Containers
    <3> QED
      BY <1>1, <2>1, <2>3, <3>1, PositiveBound DEF ShouldPause, Unseen, Scalars
  <2> QED
    BY <1>2, <2>1, <2>2, <2>3, <2>4 DEF Unseen
<1>6. CASE TakeCancelled \/ TakePending
  <2>1. /\ proc = "loop" /\ proc' = "drain" /\ why' \in {"limit", "done"} /\ ~CollectTasks
        /\ UNCHANGED <<call, monitor, main, lock, queue>>
    BY <1>6 DEF TakeCancelled, TakePending, MayTakePending, CollectTasks, Unseen
  <2>2. paused' => paused
    BY <1>6, Zenon DEF TakeCancelled, TakePending
  <2>3. ~paused
    BY <1>6 DEF TakeCancelled, TakePending, MayTakePending, Unseen
  <2> QED
    BY <1>2, <2>1, <2>2, <2>3 DEF Unseen
<1>7. CASE MarkPaused
  <2>1. /\ proc = "pauseLock" /\ proc' = "drain" /\ why' = "pause" /\ ~CollectTasks
        /\ lock' = lock /\ UNCHANGED <<call, monitor, main, queue>>
    BY <1>7 DEF MarkPaused, CollectTasks, Leave, Unseen
  <2> QED
    BY <1>2, <2>1 DEF Unseen
<1>8. CASE Drain
  <2>1. /\ proc = "drain" /\ ~CollectTasks /\ UNCHANGED <<why, call, monitor, main, lock, queue>>
        /\ proc' = IF MustDrain THEN "drainLock" ELSE IF why = "done" THEN "exited" ELSE "condLock"
    BY <1>8 DEF Drain, CollectTasks
  <2>2. paused' => paused
    BY <1>8, Zenon DEF Drain
  <2>3. CASE MustDrain
    <3>1. Active
      BY <1>1, <2>3, PositiveBound DEF MustDrain
    <3> QED
      BY <1>2, <2>1, <2>2, <2>3, <3>1 DEF Unseen
  <2>4. CASE ~MustDrain /\ why # "done"
    <3>1. why # "pause"
      BY <1>1, <2>1, <2>4, PositiveBound DEF MustDrain, Unseen
    <3>2. why = "limit" /\ ~paused
      BY <1>1, <2>4, <3>1 DEF Scalars, Unseen
    <3> QED
      BY <1>2, <2>1, <2>2, <2>4, <3>2 DEF Unseen
  <2> QED
    BY <2>1, <2>3, <2>4
<1>9. CASE AwaitTasks
  <2>1. proc = "drainLock" /\ Active /\ ~CollectTasks
    BY <1>9 DEF AwaitTasks, CollectTasks, Unseen
  <2>2. proc' = "drainWait" /\ UNCHANGED <<why, staleness, call, monitor, main, queue>>
    BY <1>1, <1>9, <2>1 DEF AwaitTasks
  <2>3. paused' => paused
    BY <1>9, Zenon DEF AwaitTasks
  <2> QED
    BY <1>2, <2>1, <2>2, <2>3 DEF Unseen
<1>10. CASE CollectTasks
  BY <1>10, Zenon DEF CollectTasks
<1>11. CASE WaitResume \/ WakeUp
  BY <1>11 DEF WaitResume, WakeUp, Unseen
<1>12. CASE Submit
  <2>1. /\ proc = "condLock" /\ proc' = "loop" /\ why = "limit" /\ ~CollectTasks /\ ~paused
        /\ lock' = lock /\ UNCHANGED <<call, monitor, main, queue>>
    BY <1>12 DEF Submit, CollectTasks, Leave, Unseen
  <2>2. paused' => paused
    BY <1>12, Zenon DEF Submit
  <2>3. Active'
    <3>1. hand \in Samples
      BY <1>1, <2>1 DEF HandInv, Scalars, Samples
    <3>2. at'[hand] \in {"generating", "interrupted"}
      BY <1>1, <1>12, <2>1, <3>1 DEF Submit, Containers
    <3> QED
      BY <3>1, <3>2 DEF Active, UnderWay
  <2> QED
    BY <2>1, <2>2, <2>3 DEF Unseen
<1> QED
  BY <1>4, <1>5, <1>6, <1>7, <1>8, <1>9, <1>10, <1>11, <1>12 DEF Processor

LEMMA UnseenOthers ==
  ASSUME TypeOK, LockInv, HandInv, PlaceInv, Unseen, Next, ~Processor
  PROVE  Unseen'
<1> USE DEF flags, procs, pending_queue, tasks, syncs, train
<1>1. Scalars /\ Containers
  BY TypeOKParts
<1>2. ~CollectTasks /\ ~PauseEnd
  BY DEF Processor, PauseEnd, Unseen
<1>3. Active => Active'
  BY <1>2, ActiveStays
<1>4. /\ ~Busy => proc = "drainWait"
      /\ \A x : Enqueue(x) => proc = "drainWait"
      /\ ~(~Busy /\ Enter("sync")) /\ ~(~Busy /\ Enter("monitor"))
  BY DEF Unseen, Busy, Waits, Enqueue, Enter, LockInv, ToSet
<1>5. CASE Sync
  <2>1. CASE SyncWaits
    <3>1. paused' => paused
      BY <2>1, Zenon DEF SyncWaits
    <3> QED
      BY <1>3, <1>4, <2>1, <3>1, UnseenKept DEF SyncWaits, Unseen
  <2> QED
    BY <1>4, <1>5, <2>1 DEF Sync, Unseen, PauseBegin, CancelServers, PauseEnd, Transfer,
       UpdateBegin, QueueSize, UpdateEnd, ResumeBegin, ResumeServers, ResumeEnd
<1>6. CASE Monitor
  <2>1. CASE MonitorWaits
    <3>1. paused' => paused
      BY <2>1, Zenon DEF MonitorWaits
    <3> QED
      BY <1>3, <1>4, <2>1, <3>1, UnseenKept DEF MonitorWaits, Unseen
  <2> QED
    BY <1>4, <1>6, <2>1 DEF Monitor, Unseen, MonitorTop, MonitorChecks, MonitorResumes
<1>7. CASE Main
  BY <1>7 DEF Main, PutFinish, MainWaits, StopRunning, Unseen
<1>8. CASE Trainer
  <2>1. paused' => paused
    BY <1>8, Zenon DEF Trainer, GetSample, GetFinish, Train, StartSync, Ending, LastWait
  <2>2. /\ UNCHANGED <<lock, staleness, proc, why, monitor, main>>
        /\ call' \in {"idle", "pauseLock"} /\ (queue' # <<>> => queue # <<>>)
    BY <1>8 DEF Trainer, GetSample, GetFinish, Train, StartSync, Ending, LastWait, Unseen
  <2> QED
    BY <1>3, <2>1, <2>2, UnseenKept DEF Unseen
<1>9. ASSUME NEW s \in Samples, Task(s) \/ Raises(s)
      PROVE  Unseen'
  <2>1. paused' => paused
    BY <1>9, Zenon DEF Task, Generated, Label, Put, Interrupted, Raises
  <2>2. /\ UNCHANGED <<lock, staleness, proc, why, monitor, main, call>>
        /\ queue' = queue \/ spent' = spent + 1
    BY <1>9 DEF Task, Generated, Label, Put, Interrupted, Raises
  <2>3. queue' # <<>> => queue # <<>> \/ Active'
    BY <1>1, <2>2 DEF Active, Scalars
  <2> QED
    BY <1>3, <2>1, <2>2, <2>3, UnseenKept DEF Unseen
<1>10. CASE Over
  BY <1>10 DEF Over, Unseen
<1> QED
  BY <1>5, <1>6, <1>7, <1>8, <1>9, <1>10 DEF Next

LEMMA DeadStays ==
  ASSUME Next, proc' = "dead", ~CollectTasks
  PROVE  seen' = seen
<1> USE DEF flags, procs, pending_queue, tasks, syncs, train
<1> QED
  BY Zenon DEF Next, Processor, Sync, Monitor, Main, Trainer, Over, vars, Task, ProcWaits,
     StopTaking, TakeCancelled, WaitPending, TakePending, MarkPaused, Drain, AwaitTasks,
     WaitResume, WakeUp, Submit, SyncWaits,
     PauseBegin, CancelServers, PauseEnd, Transfer, UpdateBegin, QueueSize, UpdateEnd,
     ResumeBegin,
     ResumeServers, ResumeEnd, MonitorWaits, MonitorTop, MonitorChecks, MonitorResumes, PutFinish,
     MainWaits, StopRunning, GetSample, GetFinish, Train, StartSync, Ending, LastWait, Generated,
     Label, Put, Interrupted, Raises

LEMMA SeenStays ==
  ASSUME Next
  PROVE  /\ seen => seen'
         /\ proc \in {"exited", "dead"} => proc' = proc
<1> USE DEF flags, procs, pending_queue, tasks, syncs, train, NotifyAll
<1>1. CASE Processor
  <2>1. seen => seen'
    BY <1>1, Zenon DEF Processor, ProcWaits, StopTaking, TakeCancelled, WaitPending,
       TakePending, MarkPaused,
       Drain, AwaitTasks, CollectTasks, WaitResume, WakeUp, Submit
  <2>2. proc \notin {"exited", "dead"} \/ proc' = proc
    BY <1>1 DEF Processor, MayTakePending, ProcWaits, StopTaking, TakeCancelled, WaitPending,
       TakePending, MarkPaused,
       Drain, AwaitTasks, CollectTasks, WaitResume, WakeUp, Submit
  <2> QED
    BY <2>1, <2>2
<1>2. CASE ResumeEnd \/ MonitorResumes
  <2>1. seen' = seen /\ (proc' = IF proc = "waiting" THEN "notified" ELSE proc)
    BY <1>2, Zenon DEF ResumeEnd, MonitorResumes
  <2>2. proc \in {"exited", "dead"} => proc' = proc
    BY <2>1
  <2> QED
    BY <2>1, <2>2, Zenon
<1>3. CASE UNCHANGED <<seen, proc>>
  <2>1. seen' = seen /\ proc' = proc
    BY <1>3, Zenon
  <2> QED
    BY <2>1, Zenon
<1> QED
  BY <1>1, <1>2, <1>3 DEF Next, Sync, Monitor, Main, Trainer, Over, vars, Task, SyncWaits,
     PauseBegin, CancelServers, PauseEnd, Transfer, UpdateBegin, QueueSize, UpdateEnd,
     ResumeBegin,
     ResumeServers, MonitorWaits, MonitorTop, MonitorChecks, PutFinish, MainWaits, StopRunning,
     GetSample, GetFinish, Train, StartSync, Ending, LastWait, Generated, Label, Put, Interrupted,
     Raises

LEMMA RaisedOnce ==
  ASSUME TypeOK, Next
  PROVE  /\ raised' => raised \/ Failed'
         /\ proc' = "dead" => \/ proc = "dead" \/ raised
                              \/ proc = "drainLock" /\ ~seen /\ ~(ActiveSize > 0)
<1> USE DEF flags, procs, pending_queue, tasks, syncs, train, NotifyAll
<1>1. Containers
  BY TypeOKParts
<1>2. ASSUME NEW s \in Samples, Task(s) \/ Raises(s)
      PROVE  (raised' => raised \/ Failed') /\ proc' = proc
  <2>1. CASE Raises(s)
    BY <1>1, <2>1 DEF Raises, Failed, Containers
  <2>2. CASE Task(s)
    <3>1. raised' = raised /\ proc' = proc
      BY <2>2, Zenon DEF Task, Generated, Label, Put, Interrupted
    <3> QED
      BY <3>1, Zenon
  <2> QED
    BY <1>2, <2>1, <2>2
<1>3. CASE Processor
  <2>1. raised' => raised
    BY <1>3, Zenon DEF Processor, ProcWaits, StopTaking, TakeCancelled, WaitPending,
       TakePending, MarkPaused,
       Drain, AwaitTasks, CollectTasks, WaitResume, WakeUp, Submit
  <2>2. CASE AwaitTasks
    BY <2>1, <2>2 DEF AwaitTasks
  <2>3. CASE CollectTasks
    BY <2>1, <2>3 DEF CollectTasks
  <2>4. CASE ~AwaitTasks /\ ~CollectTasks
    <3>1. proc' # "dead"
      BY <1>3, <2>4 DEF Processor, ProcWaits, StopTaking, TakeCancelled, WaitPending,
         TakePending, MarkPaused,
         Drain, WaitResume, WakeUp, Submit
    <3> QED
      BY <2>1, <3>1
  <2> QED
    BY <2>2, <2>3, <2>4
<1>4. CASE Sync \/ Monitor \/ Main \/ Trainer \/ Over
  <2>1. raised' => raised
    BY <1>4, Zenon DEF Sync, Monitor, Main, Trainer, Over, vars, SyncWaits,
       PauseBegin, CancelServers, PauseEnd, Transfer, UpdateBegin, QueueSize, UpdateEnd,
       ResumeBegin, ResumeServers, ResumeEnd, MonitorWaits, MonitorTop, MonitorChecks,
       MonitorResumes, PutFinish, MainWaits, StopRunning, GetSample, GetFinish, Train, StartSync,
       Ending, LastWait
  <2>2. proc' = "dead" => proc = "dead"
    BY <1>4 DEF Sync, Monitor, Main, Trainer, Over, vars, SyncWaits,
       PauseBegin, CancelServers, PauseEnd, Transfer, UpdateBegin, QueueSize, UpdateEnd,
       ResumeBegin, ResumeServers, ResumeEnd, MonitorWaits, MonitorTop, MonitorChecks,
       MonitorResumes, PutFinish, MainWaits, StopRunning, GetSample, GetFinish, Train, StartSync,
       Ending, LastWait
  <2> QED
    BY <2>1, <2>2
<1> QED
  BY <1>2, <1>3, <1>4 DEF Next

\* The size of active_tasks changes with a submission, a collection and a pause.
LEMMA ActiveSizeKept ==
  ASSUME TypeOK, HandInv, PlaceInv, Next, ~CollectTasks, ~PauseEnd
  PROVE  /\ ~Submit => ActiveSize' = ActiveSize
         /\ Submit /\ why = "limit" => ActiveSize' = ActiveSize + 1
<1> USE DEF flags, procs, pending_queue, tasks, syncs, train
<1>1. /\ Scalars /\ Containers /\ IsFiniteSet(UnderWay) /\ Cardinality(UnderWay) \in Nat
      /\ spent \in Nat
  BY TypeOKParts, SetsUnderWay DEF Scalars
<1>2. CASE UNCHANGED spent /\ UnderWay' = UnderWay /\ ~Submit
  BY <1>2 DEF ActiveSize
<1>3. ASSUME NEW s \in Samples, Put(s) \/ Interrupted(s) \/ Raises(s)
      PROVE  ActiveSize' = ActiveSize /\ ~Submit
  <2>1. /\ at[s] \in {"generating", "interrupted", "putting"} /\ spent' = spent + 1
        /\ proc' = proc
    BY <1>3 DEF Put, Interrupted, Raises
  <2>2. UnderWay' = UnderWay \ {s} /\ s \in UnderWay
    <3>1. \A x \in Samples : x \in Oldest => at[x] = "queued"
      BY OldestQueued, Zenon
    <3> QED
      BY <1>1, <1>3, <2>1, <3>1 DEF Put, Interrupted, Raises, UnderWay, Containers
  <2>3. Cardinality(UnderWay') = Cardinality(UnderWay) - 1
    BY <1>1, <2>2, FS_RemoveElement
  <2> QED
    BY <1>1, <2>1, <2>3 DEF ActiveSize, Submit
<1>4. CASE Submit
  <2>1. CASE why = "limit"
    <3>1. hand \in Samples /\ at[hand] = "hand" /\ spent' = spent
      BY <1>1, <1>4, <2>1, AccountedIs DEF Submit, HandInv, PlaceInv, In, Scalars, Samples
    <3>2. UnderWay' = UnderWay \cup {hand} /\ hand \notin UnderWay
      BY <1>1, <1>4, <2>1, <3>1 DEF Submit, UnderWay, Containers
    <3>3. Cardinality(UnderWay') = Cardinality(UnderWay) + 1
      BY <1>1, <3>2, FS_AddElement
    <3>4. ActiveSize' = ActiveSize + 1
      BY <1>1, <3>1, <3>3 DEF ActiveSize
    <3> QED
      BY <1>4, <3>4, Zenon
  <2>2. CASE why # "limit"
    BY <1>4, <2>2, Zenon
  <2> QED
    BY <2>1, <2>2, Zenon
<1>5. ASSUME ~Submit, \A s \in Samples : ~(Put(s) \/ Interrupted(s) \/ Raises(s))
      PROVE  spent' = spent /\ UnderWay' = UnderWay
  <2>0. spent' = spent
    BY <1>5 DEF Next, Processor, Sync, Monitor, Main, Trainer, Over, vars, Task,
     ProcWaits, StopTaking, TakeCancelled, WaitPending, TakePending, MarkPaused, Drain,
     AwaitTasks,
     WaitResume, WakeUp, SyncWaits, PauseBegin, CancelServers,
     Transfer, UpdateBegin, QueueSize, UpdateEnd, ResumeBegin, ResumeServers, ResumeEnd,
     MonitorWaits, MonitorTop, MonitorChecks, MonitorResumes, PutFinish, MainWaits, StopRunning,
     GetSample, GetFinish, Train, StartSync, Ending, LastWait, Generated, Label
  <2>1. \A s \in Samples :
          (at'[s] \in {"generating", "generated", "interrupted", "putting"}) <=>
          (at[s] \in {"generating", "generated", "interrupted", "putting"})
    <3>1. ASSUME NEW s \in Samples
          PROVE  (at'[s] \in {"generating", "generated", "interrupted", "putting"}) <=>
                 (at[s] \in {"generating", "generated", "interrupted", "putting"})
      <4>1. Move(s)
        BY Life
      <4>2. spent' # spent + 1
        BY <1>1, <2>0
      <4> QED
        BY <1>5, <4>1, <4>2 DEF Move
    <3> QED
      BY <3>1
  <2>2. UnderWay' = UnderWay
    BY <2>1 DEF UnderWay
  <2> QED
    BY <2>0, <2>2
<1> QED
  BY <1>2, <1>3, <1>4, <1>5

LEMMA FedStep ==
  ASSUME TypeOK, Next, fed >= PendingSize \/ fed = Total + 1
  PROVE  fed' >= PendingSize \/ fed' = Total + 1
<1> USE DEF flags, procs, pending_queue, tasks, syncs, train, Refill
<1>1. Filled >= PendingSize \/ Filled = Total + 1
  BY FilledIs, TypeOKParts
<1>2. fed' = fed \/ fed' = Filled
  BY DEF Next, Processor, Sync, Monitor, Main, Trainer, Over, vars, Task,
     ProcWaits, StopTaking, TakeCancelled, WaitPending, TakePending, MarkPaused, Drain,
     AwaitTasks,
     CollectTasks, WaitResume, WakeUp, Submit, SyncWaits, PauseBegin, CancelServers, PauseEnd,
     Transfer, UpdateBegin, QueueSize, UpdateEnd, ResumeBegin, ResumeServers, ResumeEnd,
     MonitorWaits, MonitorTop, MonitorChecks, MonitorResumes, PutFinish, MainWaits, StopRunning,
     GetSample, GetFinish, Train, StartSync, Ending, LastWait, Generated, Label, Put, Interrupted,
     Raises
<1> QED
  BY <1>1, <1>2

\* In a narrow rollouter the processor finds a sample as long as it has not waited.
LEMMA NoWaitPending ==
  ASSUME TypeOK, HandInv, SurviveInv, Narrow, Unseen, Supplied
  PROVE  ~WaitPending
<1>1. SUFFICES ASSUME WaitPending PROVE FALSE
  OBVIOUS
<1>2. proc = "loop" /\ hand = 0 /\ fed < next
  BY <1>1 DEF WaitPending, HandInv
<1>3. /\ next <= ActiveSize + 1 /\ ActiveSize <= MaxConcurrent /\ ActiveSize \in Nat
      /\ next \in 1 .. Total + 1 /\ fed \in 1 .. Total + 1
      /\ fed >= PendingSize \/ fed = Total + 1
  BY <1>2, ActiveSizeIs, TypeOKParts DEF Supplied, SurviveInv, Scalars
<1> QED
  BY <1>2, <1>3, PositiveBound, PendingAssumption, SizesAssumption DEF Narrow

LEMMA SuppliedStep ==
  ASSUME TypeOK, LockInv, HandInv, PlaceInv, Unseen, Supplied, Next, ~CollectTasks, ~WaitPending
  PROVE  Supplied'
<1> USE DEF flags, procs, pending_queue, tasks, syncs, train
<1>1. /\ Scalars /\ ActiveSize \in Nat /\ next \in Nat /\ hand \in Nat /\ Containers
      /\ MaxConcurrent \in Nat
  <2>1. Scalars /\ Containers /\ ActiveSize \in Nat /\ MaxConcurrent \in Nat
    BY ActiveSizeIs, TypeOKParts, PositiveBound, Zenon
  <2>2. next \in Nat /\ hand \in Nat
    BY <2>1, SizesAssumption DEF Scalars
  <2> QED
    BY <2>1, <2>2
<1>2. /\ ~Submit => ActiveSize' = ActiveSize
      /\ Submit /\ why = "limit" => ActiveSize' = ActiveSize + 1
  BY ActiveSizeKept DEF PauseEnd, Unseen
<1>3. CASE Submit
  <2>1. /\ proc = "condLock" /\ why = "limit" /\ proc' = "loop" /\ hand # 0 /\ hand' = 0
        /\ next' = next
    BY <1>3 DEF Submit, Unseen, HandInv
  <2> QED
    BY <1>1, <1>2, <1>3, <2>1 DEF Supplied
<1>4. CASE TakePending
  <2>1. /\ proc' = "drain" /\ hand = 0
        /\ \/ next' = next + 1 /\ hand' = next /\ next # 0
           \/ next' = next /\ hand' = hand
    BY <1>1, <1>4 DEF TakePending, MayTakePending, HandInv, Scalars
  <2>2. ActiveSize' = ActiveSize
    BY <1>2, <2>1 DEF Submit
  <2> QED
    BY <1>1, <2>1, <2>2 DEF Supplied
<1>5. CASE TakeCancelled
  <2>1. proc' = "drain" /\ hand = 0 /\ next' = next /\ hand' \in Samples
    BY <1>1, <1>5, HeadSample DEF TakeCancelled, HandInv
  <2>2. ActiveSize' = ActiveSize
    BY <1>2, <2>1 DEF Submit
  <2> QED
    BY <1>1, <2>1, <2>2 DEF Supplied, Samples
<1>6. CASE Drain
  <2>1. /\ proc = "drain" /\ proc' # "loop" /\ next' = next /\ hand' = hand
        /\ proc' = "condLock" => ~MustDrain /\ why # "done"
    BY <1>6 DEF Drain
  <2>2. ActiveSize' = ActiveSize
    BY <1>2, <2>1 DEF Submit
  <2>3. proc' = "condLock" => ActiveSize < MaxConcurrent
    BY <1>1, <2>1, PositiveBound DEF MustDrain
  <2> QED
    BY <1>1, <2>1, <2>2, <2>3 DEF Supplied
<1>7. CASE ~Submit /\ ~TakePending /\ ~TakeCancelled /\ ~Drain
  <2>1. next' = next /\ hand' = hand
    BY <1>7, Zenon DEF Next, Processor, Sync, Monitor, Main, Trainer, Over, vars, Task,
     ProcWaits, StopTaking, MarkPaused, AwaitTasks, Unseen,
     WaitResume, WakeUp, SyncWaits, PauseBegin, CancelServers, PauseEnd,
     Transfer, UpdateBegin, QueueSize, UpdateEnd, ResumeBegin, ResumeServers, ResumeEnd,
     MonitorWaits, MonitorTop, MonitorChecks, MonitorResumes, PutFinish, MainWaits, StopRunning,
     GetSample, GetFinish, Train, StartSync, Ending, LastWait, Generated, Label, Put, Interrupted,
     Raises
  <2>2. proc' \in {"loop", "condLock"} => proc' = proc
    <3>1. CASE Processor
      BY <1>7, <3>1 DEF Processor, ProcWaits, StopTaking, MarkPaused, AwaitTasks, WaitResume,
         WakeUp,
         Unseen
    <3>2. CASE Sync \/ Monitor
      BY <3>2, Zenon DEF NotifyAll, Sync, Monitor, SyncWaits, PauseBegin, CancelServers, PauseEnd,
         Transfer, UpdateBegin, QueueSize, UpdateEnd, ResumeBegin, ResumeServers, ResumeEnd,
         MonitorWaits, MonitorTop, MonitorChecks, MonitorResumes
    <3>3. CASE Main \/ Trainer \/ Over \/ \E s \in Samples : Task(s) \/ Raises(s)
      BY <3>3, Zenon DEF Main, Trainer, Over, vars, Task, PutFinish, MainWaits, StopRunning,
         GetSample, GetFinish, Train, StartSync, Ending, LastWait, Generated, Label, Put,
         Interrupted, Raises
    <3> QED
      BY <3>1, <3>2, <3>3 DEF Next
  <2> QED
    BY <1>1, <1>2, <1>7, <2>1, <2>2 DEF Supplied
<1> QED
  BY <1>3, <1>4, <1>5, <1>6, <1>7

LEMMA SurviveInvStep ==
  ASSUME TypeOK, LockInv, HandInv, PlaceInv, SurviveInv, Next
  PROVE  SurviveInv'
<1>1. raised' => Failed'
  BY FailedStays, RaisedOnce DEF SurviveInv
<1>2. ASSUME proc' = "dead"
      PROVE  Failed' \/ (~Narrow /\ ~seen')
  <2>1. CASE proc = "dead"
    <3>1. seen' = seen
      BY <1>2, <2>1, DeadStays, Zenon DEF CollectTasks
    <3> QED
      BY <2>1, <3>1, FailedStays DEF SurviveInv
  <2>2. CASE raised
    BY <2>2, FailedStays DEF SurviveInv
  <2>3. ASSUME proc = "drainLock", ~seen, ~(ActiveSize > 0), proc' = "dead"
        PROVE  ~Narrow /\ ~seen'
    <3>1. ~Narrow
      BY <2>3, ActiveSizeIs DEF SurviveInv, Unseen, Active
    <3>2. seen' = seen
      BY <2>3, DeadStays, Zenon DEF CollectTasks
    <3> QED
      BY <2>3, <3>1, <3>2
  <2> QED
    BY <1>2, <2>1, <2>2, <2>3, RaisedOnce
<1>3. ASSUME Narrow
      PROVE  seen' \/ proc' \in {"exited", "dead"} \/ (Unseen' /\ Supplied')
  <2>1. CASE seen \/ proc \in {"exited", "dead"}
    BY <2>1, SeenStays
  <2>2. CASE ~seen /\ Unseen /\ Supplied
    <3>1. ~WaitPending
      BY <1>3, <2>2, NoWaitPending
    <3>2. CASE CollectTasks
      BY <3>2, Zenon DEF CollectTasks
    <3>3. CASE ~CollectTasks
      <4>1. Supplied'
        BY <2>2, <3>1, <3>3, SuppliedStep
      <4>2. seen' \/ proc' = "exited" \/ Unseen'
        BY <2>2, <3>1, UnseenProcessor, UnseenOthers
      <4> QED
        BY <4>1, <4>2
    <3> QED
      BY <3>2, <3>3
  <2> QED
    BY <1>3, <2>1, <2>2 DEF SurviveInv
<1>4. fed' >= PendingSize \/ fed' = Total + 1
  BY FedStep DEF SurviveInv
<1>5. Narrow' = Narrow
  BY DEF Narrow
<1> QED
  BY <1>1, <1>2, <1>3, <1>4, <1>5 DEF SurviveInv

LEMMA SurviveInit ==
  ASSUME Init
  PROVE  SurviveInv
<1>1. ~raised /\ proc # "dead" /\ Unseen
  BY Zenon DEF Init, Unseen
<1>2. fed >= PendingSize \/ fed = Total + 1
  BY FilledIs, TypeInit, TypeOKParts DEF Init
<1>3. Supplied
  <2>1. next = 1 /\ hand = 0 /\ proc = "loop" /\ spent = 0 /\ UnderWay = {}
    BY DEF Init, UnderWay
  <2>2. ActiveSize = 0
    BY <2>1, FS_EmptySet DEF ActiveSize
  <2> QED
    BY <2>1, <2>2, PositiveBound DEF Supplied
<1> QED
  BY <1>1, <1>2, <1>3 DEF SurviveInv

LEMMA SurviveAlways == Spec => []SurviveInv
<1>1. Init => SurviveInv
  BY SurviveInit
<1>2. TypeOK /\ (LockInv /\ HandInv /\ PlaceInv) /\ SurviveInv /\ [Next]_vars => SurviveInv'
  <2>1. ASSUME SurviveInv, UNCHANGED vars PROVE SurviveInv'
    <3>1. /\ UNCHANGED <<proc, why, call, monitor, main, lock, spent, at, staleness, queue>>
          /\ UNCHANGED <<fed, hand, next>>
          /\ raised' = raised /\ seen' = seen /\ paused' = paused
      BY <2>1, Zenon DEF vars, flags, procs, pending_queue, tasks, syncs
    <3>2. Active' = Active /\ Failed' = Failed /\ ActiveSize' = ActiveSize
      BY <3>1 DEF Active, Failed, UnderWay, ActiveSize
    <3>3. Unseen' = Unseen /\ Supplied' = Supplied /\ Narrow' = Narrow
      BY <3>1, <3>2, Zenon DEF Unseen, Supplied, Narrow
    <3> QED
      BY <2>1, <3>1, <3>2, <3>3, Zenon DEF SurviveInv
  <2> QED
    BY <2>1, SurviveInvStep
<1> QED
  BY <1>1, <1>2, AsyncTypeCorrect, PlaceAlways, PTL DEF Spec

(* The processor ends before the stream only because a generation raised,  *)
(* as long as fewer tasks are allowed than pending_queue holds: done_tasks *)
(* is not read unbound, for until tasks have been collected nobody can     *)
(* clear active_tasks, and no other wait for tasks is empty.  With more    *)
(* tasks it may only end so before any has been collected.                 *)
THEOREM ProcessorNeverUnbound == Spec => []ProcessorSurvives
<1>1. SurviveInv => ProcessorSurvives
  BY PositiveBound, PendingAssumption DEF SurviveInv, ProcessorSurvives, Failed, Narrow
<1> QED
  BY <1>1, SurviveAlways, PTL

-----------------------------------------------------------------------------
(* The None in the queue. *)

\* As many tasks as are allowed, fewer when one more may come, and fewer than
\* that when the processor has ended.
LimitInv ==
  /\ ActiveSize <= MaxConcurrent
  /\ proc \in {"condLock", "waiting", "notified"} /\ why = "limit" => ActiveSize < MaxConcurrent
  /\ proc \in {"exited", "dead"} => Cardinality(UnderWay) < MaxConcurrent

LEMMA OnlySubmitAdds ==
  ASSUME TypeOK, HandInv, PlaceInv, Next, ~Submit
  PROVE  /\ UnderWay' \subseteq UnderWay /\ ActiveSize' <= ActiveSize
         /\ ActiveSize' \in Nat /\ Cardinality(UnderWay') <= Cardinality(UnderWay)
         /\ Cardinality(UnderWay') \in Nat
<1> USE DEF flags, procs, pending_queue, tasks, syncs, train
<1>1. /\ UnderWay \in SUBSET Samples /\ IsFiniteSet(UnderWay) /\ Cardinality(UnderWay) \in Nat
      /\ spent \in Nat /\ ActiveSize \in Nat
  BY SetsUnderWay, ActiveSizeIs, TypeOKParts DEF Scalars
<1>2. UnderWay' \subseteq UnderWay
  <2>1. \A s \in Samples : Move(s)
    BY Life
  <2> QED
    BY <2>1 DEF Move, UnderWay
<1>3. Cardinality(UnderWay') \in Nat /\ Cardinality(UnderWay') <= Cardinality(UnderWay)
  BY <1>1, <1>2, SmallerSet, SubsetsOfSamples
<1>4. CASE CollectTasks \/ PauseEnd
  <2>1. at' = at /\ spent' = 0
    BY <1>4 DEF CollectTasks, PauseEnd
  <2> QED
    BY <1>1, <1>2, <1>3, <2>1 DEF ActiveSize
<1>5. CASE ~CollectTasks /\ ~PauseEnd
  <2>1. ActiveSize' = ActiveSize
    BY <1>5, ActiveSizeKept, Zenon
  <2> QED
    BY <1>1, <1>2, <1>3, <2>1
<1> QED
  BY <1>4, <1>5

LEMMA LimitInvStep ==
  ASSUME TypeOK, LockInv, HandInv, PlaceInv, LimitInv, Next
  PROVE  LimitInv'
<1> USE DEF flags, procs, pending_queue, tasks, syncs, train, NotifyAll
<1>1. ActiveSize \in Nat /\ MaxConcurrent \in Nat /\ Cardinality(UnderWay) \in Nat /\ spent \in Nat
  BY ActiveSizeIs, PositiveBound, SetsUnderWay, TypeOKParts DEF Scalars
<1>2. CASE Submit
  <2>1. proc = "condLock" /\ proc' = "loop"
    BY <1>2 DEF Submit
  <2>2. CASE why = "limit"
    <3>1. ActiveSize' = ActiveSize + 1
      BY <1>2, <2>1, <2>2, ActiveSizeKept DEF CollectTasks, PauseEnd, Submit
    <3> QED
      BY <1>1, <2>1, <2>2, <3>1 DEF LimitInv
  <2>3. CASE why # "limit"
    <3>1. at' = at /\ spent' = spent
      BY <1>2, <2>3 DEF Submit
    <3>2. ActiveSize' = ActiveSize
      BY <3>1 DEF ActiveSize, UnderWay
    <3> QED
      BY <2>1, <3>2 DEF LimitInv
  <2> QED
    BY <2>2, <2>3
<1>3. CASE ~Submit
  <2>1. /\ ActiveSize' <= ActiveSize /\ ActiveSize' \in Nat
        /\ Cardinality(UnderWay') <= Cardinality(UnderWay) /\ Cardinality(UnderWay') \in Nat
    BY <1>3, OnlySubmitAdds
  <2>2. ASSUME proc' \in {"condLock", "waiting", "notified"}, why' = "limit"
        PROVE  ActiveSize < MaxConcurrent
    <3>1. CASE Drain
      BY <1>1, <2>2, <3>1, PositiveBound DEF Drain, MustDrain
    <3>2. CASE ~Drain
      <4>1. proc \in {"condLock", "waiting", "notified"} /\ why = "limit"
        BY <1>3, <2>2, <3>2 DEF Next, Processor, Sync, Monitor, Main, Trainer, Over, vars, Task,
     ProcWaits, StopTaking, TakeCancelled, WaitPending, TakePending, MarkPaused, AwaitTasks,
     CollectTasks, WaitResume, WakeUp, SyncWaits, PauseBegin, CancelServers, PauseEnd,
     Transfer, UpdateBegin, QueueSize, UpdateEnd, ResumeBegin, ResumeServers, ResumeEnd,
     MonitorWaits, MonitorTop, MonitorChecks, MonitorResumes, PutFinish, MainWaits, StopRunning,
     GetSample, GetFinish, Train, StartSync, Ending, LastWait, Generated, Label, Put, Interrupted,
     Raises
      <4> QED
        BY <4>1 DEF LimitInv
    <3> QED
      BY <3>1, <3>2
  <2>3. ASSUME proc' \in {"exited", "dead"}
        PROVE  Cardinality(UnderWay') < MaxConcurrent
    <3>1. CASE proc \in {"exited", "dead"}
      BY <1>1, <2>1, <3>1 DEF LimitInv
    <3>2. CASE proc' = "exited"
      <4>1. UnderWay' = {}
        BY <3>2, HandInvStep DEF HandInv
      <4> QED
        BY <4>1, FS_EmptySet, PositiveBound
    <3>3. CASE CollectTasks
      <4>1. UnderWay' = UnderWay /\ spent > 0
        BY <3>3 DEF CollectTasks, UnderWay
      <4> QED
        BY <1>1, <4>1 DEF LimitInv, ActiveSize
    <3>4. CASE proc \notin {"exited", "dead"} /\ proc' = "dead" /\ ~CollectTasks
      <4>1. ~(ActiveSize > 0)
        BY <1>3, <3>4 DEF Next, Processor, Sync, Monitor, Main, Trainer, Over, vars, Task,
     ProcWaits, StopTaking, TakeCancelled, WaitPending, TakePending, MarkPaused, Drain,
     AwaitTasks,
     WaitResume, WakeUp, SyncWaits, PauseBegin, CancelServers, PauseEnd,
     Transfer, UpdateBegin, QueueSize, UpdateEnd, ResumeBegin, ResumeServers, ResumeEnd,
     MonitorWaits, MonitorTop, MonitorChecks, MonitorResumes, PutFinish, MainWaits, StopRunning,
     GetSample, GetFinish, Train, StartSync, Ending, LastWait, Generated, Label, Put, Interrupted,
     Raises
      <4>2. UnderWay = {}
        BY <4>1, ActiveSizeIs
      <4>3. Cardinality(UnderWay) = 0
        BY <4>2, FS_EmptySet
      <4> QED
        BY <1>1, <2>1, <4>3, PositiveBound
    <3> QED
      BY <2>3, <3>1, <3>2, <3>3, <3>4
  <2> QED
    BY <1>1, <2>1, <2>2, <2>3 DEF LimitInv
<1> QED
  BY <1>2, <1>3

\* While a pause is on its way and until the weights are there the trainer waits.
SyncInv ==
  call \in {"pauseLock", "cancel", "gather", "transfer"} => trainer \in {"sync", "finalSync"}

\* The trainer has not come to the None.
Reads == trainer \in {"collect", "train", "wait", "sync"}

LEMMA TrainerStep ==
  ASSUME SyncInv, Next
  PROVE  SyncInv' /\ (Reads' => Reads /\ ~GetFinish)
<1> USE DEF flags, procs, pending_queue, tasks, syncs, train, SyncInv, Reads
<1>1. CASE Sync
  BY <1>1 DEF Sync, SyncWaits, PauseBegin, CancelServers, PauseEnd, Transfer, UpdateBegin,
     QueueSize,
     UpdateEnd, ResumeBegin, ResumeServers, ResumeEnd, GetFinish
<1>2. CASE Trainer
  BY <1>2 DEF Trainer, GetSample, GetFinish, Train, StartSync, Ending, LastWait
<1>3. CASE Processor \/ Monitor \/ Main \/ Over \/ \E s \in Samples : Task(s) \/ Raises(s)
  <2>1. UNCHANGED <<call, trainer>>
    BY <1>3, Zenon DEF Processor, Monitor, Main, Over, vars, Task,
     ProcWaits, StopTaking, TakeCancelled, WaitPending, TakePending, MarkPaused, Drain,
     AwaitTasks,
     CollectTasks, WaitResume, WakeUp, Submit,
     MonitorWaits, MonitorTop, MonitorChecks, MonitorResumes, PutFinish, MainWaits, StopRunning,
     Generated, Label, Put, Interrupted, Raises
  <2> QED
    BY <2>1 DEF GetFinish
<1> QED
  BY <1>1, <1>2, <1>3 DEF Next

\* Behind the None there are so few samples, and tasks that may put another,
\* that they do not fill the queue.
Behind(k) == Len(queue) - k + Cardinality(UnderWay)

KeptInv ==
  /\ main # "run" => proc \in {"exited", "dead"}
  /\ main # "run" /\ Reads =>
       \E k \in 1 .. Len(queue) : queue[k] = Finish /\ Behind(k) < MaxConcurrent

LEMMA PlacesInLists ==
  ASSUME NEW R, NEW q \in Seq(R), NEW x \in R
  PROVE  /\ Len(q) \in Nat
         /\ Len(Append(q, x)) = Len(q) + 1 /\ Append(q, x)[Len(q) + 1] = x
         /\ \A k \in 1 .. Len(q) : Append(q, x)[k] = q[k]
         /\ q # <<>> => /\ Tail(q) \in Seq(R) /\ Len(Tail(q)) = Len(q) - 1 /\ Head(q) = q[1]
                        /\ \A k \in 1 .. Len(q) : k # 1 => Tail(q)[k - 1] = q[k]
OBVIOUS

\* The last place of the queue after a put, and where the others have moved.
LEMMA AppendedPlaces ==
  ASSUME Containers, NEW x \in 0 .. Total
  PROVE  /\ Len(Appended(x)) \in Nat \ {0} /\ Appended(x)[Len(Appended(x))] = x
         /\ ~Full => /\ Len(Appended(x)) = Len(queue) + 1
                     /\ \A k \in 1 .. Len(queue) : Appended(x)[k] = queue[k]
         /\ Full => /\ Len(Appended(x)) = Len(queue)
                    /\ \A k \in 1 .. Len(queue) : k # 1 => Appended(x)[k - 1] = queue[k]
<1> DEFINE Elements == 0 .. Total
<1>1. queue \in Seq(Elements) /\ x \in Elements
  BY DEF Containers
<1> HIDE DEF Elements
<1>2. CASE ~Full
  <2>1. Appended(x) = Append(queue, x)
    BY <1>2 DEF Appended
  <2> QED
    BY <1>1, <1>2, <2>1, PlacesInLists
<1>3. CASE Full
  <2> DEFINE t == Tail(queue)
  <2>1. queue # <<>>
    BY <1>1, <1>3, PositiveBound DEF Full
  <2>2. /\ t \in Seq(Elements) /\ Len(t) = Len(queue) - 1 /\ Len(queue) \in Nat
        /\ \A k \in 1 .. Len(queue) : k # 1 => t[k - 1] = queue[k]
    BY <1>1, <2>1, PlacesInLists
  <2>3. Appended(x) = Append(t, x)
    BY <1>3 DEF Appended
  <2> HIDE DEF t
  <2>4. /\ Len(t) \in Nat /\ Len(Append(t, x)) = Len(t) + 1 /\ Append(t, x)[Len(t) + 1] = x
        /\ \A k \in 1 .. Len(t) : Append(t, x)[k] = t[k]
    BY <1>1, <2>2, PlacesInLists
  <2>5. ASSUME NEW k \in 1 .. Len(queue), k # 1
        PROVE  Append(t, x)[k - 1] = queue[k]
    <3>1. k - 1 \in 1 .. Len(t)
      BY <2>2, <2>5
    <3> QED
      BY <2>2, <2>4, <2>5, <3>1
  <2> QED
    BY <1>3, <2>2, <2>3, <2>4, <2>5
<1> QED
  BY <1>2, <1>3

LEMMA PutKeeps ==
  ASSUME TypeOK, PlaceInv, NEW s \in Samples, Put(s),
         NEW k \in 1 .. Len(queue), queue[k] = Finish, Behind(k) < MaxConcurrent
  PROVE  \E j \in 1 .. Len(queue') : queue'[j] = Finish /\ Behind(j)' < MaxConcurrent
<1>1. Containers /\ at[s] = "putting" /\ queue' = Appended(s) /\ s \in 0 .. Total
  BY TypeOKParts, HeadSample DEF Put
<1>2. /\ Len(queue) \in Nat /\ k \in Nat /\ k >= 1 /\ k <= Len(queue)
  BY <1>1, HeadSample
<1>3. UnderWay' = UnderWay \ {s} /\ s \in UnderWay
  <2>1. \A x \in Samples : x \in Oldest => at[x] = "queued"
    BY OldestQueued, Zenon
  <2> QED
    BY <1>1, <2>1 DEF Put, UnderWay, Containers
<1>4. /\ Cardinality(UnderWay') = Cardinality(UnderWay) - 1
      /\ Cardinality(UnderWay') \in Nat /\ Cardinality(UnderWay) \in Nat
  <2>1. UnderWay' \in SUBSET Samples
    BY <1>3, SetsUnderWay
  <2> QED
    BY <1>3, <2>1, SetsUnderWay, SubsetsOfSamples, FS_RemoveElement
<1>5. CASE ~Full
  <2>1. Len(queue') = Len(queue) + 1 /\ queue'[k] = Finish
    BY <1>1, <1>5, AppendedPlaces
  <2>2. Behind(k)' = Behind(k) /\ k \in 1 .. Len(queue')
    BY <1>2, <1>4, <2>1 DEF Behind
  <2> QED
    BY <2>1, <2>2
<1>6. CASE Full
  <2>1. k # 1
    BY <1>2, <1>4, <1>6, PositiveBound DEF Full, Behind
  <2>2. Len(queue') = Len(queue) /\ queue'[k - 1] = Finish
    BY <1>1, <1>6, <2>1, AppendedPlaces
  <2>3. Behind(k - 1)' = Behind(k) /\ k - 1 \in 1 .. Len(queue')
    BY <1>2, <1>4, <2>1, <2>2 DEF Behind
  <2> QED
    BY <2>2, <2>3
<1> QED
  BY <1>5, <1>6

LEMMA KeptInvStep ==
  ASSUME TypeOK, LockInv, HandInv, PlaceInv, LimitInv, SyncInv, KeptInv, Next
  PROVE  KeptInv'
<1> USE DEF flags, procs, pending_queue, tasks, syncs, train
<1>1. Containers
  BY TypeOKParts
<1>2. CASE main # "run"
  <2>1. proc \in {"exited", "dead"} /\ proc' = proc /\ ~PutFinish
    BY <1>2, SeenStays DEF KeptInv, PutFinish
  <2>2. /\ Cardinality(UnderWay') <= Cardinality(UnderWay)
        /\ Cardinality(UnderWay') \in Nat /\ Cardinality(UnderWay) \in Nat
    <3>1. ~Submit
      BY <2>1 DEF Submit
    <3> QED
      BY <3>1, OnlySubmitAdds, SetsUnderWay
  <2>3. ASSUME Reads'
        PROVE  \E k \in 1 .. Len(queue') : queue'[k] = Finish /\ Behind(k)' < MaxConcurrent
    <3>1. Reads /\ ~GetFinish
      BY <2>3, TrainerStep
    <3>2. PICK k \in 1 .. Len(queue) : queue[k] = Finish /\ Behind(k) < MaxConcurrent
      BY <1>2, <3>1 DEF KeptInv
    <3>3. CASE \E s \in Samples : Put(s)
      BY <3>2, <3>3, PutKeeps
    <3>4. CASE GetSample
      <4>1. queue # <<>> /\ Head(queue) # Finish /\ queue' = Tail(queue)
        BY <3>4 DEF GetSample
      <4>2. Len(queue) \in Nat /\ Len(queue') = Len(queue) - 1 /\ k # 1 /\ queue'[k - 1] = Finish
        <5> DEFINE Elements == 0 .. Total
        <5>1. queue \in Seq(Elements) /\ Finish \in Elements
          BY <1>1, SizesAssumption DEF Containers, Finish
        <5> HIDE DEF Elements
        <5> QED
          BY <3>2, <4>1, <5>1, PlacesInLists
      <4>3. k - 1 \in 1 .. Len(queue') /\ Behind(k - 1)' < MaxConcurrent
        BY <2>2, <3>2, <4>2, PositiveBound DEF Behind
      <4> QED
        BY <4>2, <4>3
    <3>5. CASE queue' = queue
      <4>1. Behind(k)' < MaxConcurrent
        BY <1>1, <2>2, <3>2, <3>5, HeadSample, PositiveBound DEF Behind
      <4> QED
        BY <3>2, <3>5, <4>1
    <3>6. (\E s \in Samples : Put(s)) \/ GetSample \/ queue' = queue
      BY <2>1, <3>1, Zenon DEF Next, Processor, Sync, Monitor, Main, Trainer, Over, vars, Task,
     ProcWaits, StopTaking, TakeCancelled, WaitPending, TakePending, MarkPaused, Drain,
     AwaitTasks,
     CollectTasks, WaitResume, WakeUp, Submit, SyncWaits, PauseBegin, CancelServers, PauseEnd,
     Transfer, UpdateBegin, QueueSize, UpdateEnd, ResumeBegin, ResumeServers, ResumeEnd,
     MonitorWaits, MonitorTop, MonitorChecks, MonitorResumes, MainWaits, StopRunning,
     Train, StartSync, Ending, LastWait, Generated, Label, Interrupted, Raises
    <3> QED
      BY <3>3, <3>4, <3>5, <3>6
  <2> QED
    BY <2>1, <2>3 DEF KeptInv
<1>3. CASE main = "run" /\ ~PutFinish
  <2>1. main' = "run"
    BY <1>3, Zenon DEF Next, Processor, Sync, Monitor, Main, Trainer, Over, vars, Task,
     ProcWaits, StopTaking, TakeCancelled, WaitPending, TakePending, MarkPaused, Drain,
     AwaitTasks,
     CollectTasks, WaitResume, WakeUp, Submit, SyncWaits, PauseBegin, CancelServers, PauseEnd,
     Transfer, UpdateBegin, QueueSize, UpdateEnd, ResumeBegin, ResumeServers, ResumeEnd,
     MonitorWaits, MonitorTop, MonitorChecks, MonitorResumes, MainWaits, StopRunning,
     GetSample, GetFinish, Train, StartSync, Ending, LastWait, Generated, Label, Put, Interrupted,
     Raises
  <2> QED
    BY <2>1 DEF KeptInv
<1>4. CASE PutFinish
  <2>1. proc' \in {"exited", "dead"} /\ queue' = Appended(Finish) /\ Finish \in 0 .. Total
    BY <1>4, SizesAssumption DEF PutFinish, Finish
  <2>2. Cardinality(UnderWay') < MaxConcurrent /\ Cardinality(UnderWay') \in Nat
    <3>1. ~Submit
      BY <1>4, <2>1 DEF Submit
    <3> QED
      BY <2>1, <3>1, LimitInvStep, OnlySubmitAdds DEF LimitInv
  <2>3. Len(queue') \in Nat \ {0} /\ queue'[Len(queue')] = Finish
    BY <1>1, <2>1, AppendedPlaces
  <2>4. PICK k \in Nat \ {0} : k = Len(queue')
    BY <2>3
  <2>5. Behind(k)' < MaxConcurrent /\ k \in 1 .. Len(queue') /\ queue'[k] = Finish
    BY <2>2, <2>3, <2>4 DEF Behind
  <2> QED
    BY <2>1, <2>5 DEF KeptInv
<1> QED
  BY <1>2, <1>3, <1>4

LEMMA KeptAlways == Spec => [](LimitInv /\ SyncInv /\ KeptInv)
<1>1. Init => LimitInv /\ SyncInv /\ KeptInv
  <2> SUFFICES ASSUME Init PROVE LimitInv /\ SyncInv /\ KeptInv
    OBVIOUS
  <2>1. UnderWay = {} /\ spent = 0
    BY DEF Init, UnderWay
  <2>2. ActiveSize = 0
    BY <2>1, FS_EmptySet DEF ActiveSize
  <2>3. proc = "loop" /\ call = "idle" /\ main = "run"
    BY DEF Init
  <2> QED
    BY <2>2, <2>3, PositiveBound DEF LimitInv, SyncInv, KeptInv
<1>2. /\ TypeOK /\ (LockInv /\ HandInv /\ PlaceInv) /\ (LimitInv /\ SyncInv /\ KeptInv)
      /\ [Next]_vars
      => (LimitInv /\ SyncInv /\ KeptInv)'
  <2>1. ASSUME LimitInv, SyncInv, KeptInv, UNCHANGED vars PROVE (LimitInv /\ SyncInv /\ KeptInv)'
    <3>1. UNCHANGED <<proc, why, spent, at, call, trainer, main, queue>>
      BY <2>1, Zenon DEF vars, flags, procs, tasks, syncs, train
    <3>2. UnderWay' = UnderWay /\ ActiveSize' = ActiveSize
      BY <3>1 DEF UnderWay, ActiveSize
    <3> QED
      BY <2>1, <3>1, <3>2 DEF LimitInv, SyncInv, KeptInv, Reads, Behind
  <2> QED
    BY <2>1, LimitInvStep, TrainerStep, KeptInvStep
<1> QED
  BY <1>1, <1>2, AsyncTypeCorrect, PlaceAlways, PTL DEF Spec

(* The end of the stream is never lost: however full the queue, and even   *)
(* when a failed generation has ended the processor and its other tasks go *)
(* on, too few samples come behind the None to push it out.                *)
THEOREM FinishNeverDropped == Spec => []FinishKept
<1>1. TypeOK /\ KeptInv => FinishKept
  <2> SUFFICES ASSUME TypeOK, KeptInv, main # "run", Reads PROVE Finish \in ToSet(queue)
    BY DEF FinishKept, Reads
  <2>1. PICK k \in 1 .. Len(queue) : queue[k] = Finish
    BY DEF KeptInv
  <2>2. DOMAIN queue = 1 .. Len(queue)
    BY TypeOKParts DEF Containers
  <2> QED
    BY <2>1, <2>2 DEF ToSet
<1> QED
  BY <1>1, AsyncTypeCorrect, KeptAlways, PTL

-----------------------------------------------------------------------------
(* How many samples are outstanding. *)

Held == {s \in Samples : at[s] \in {"generating", "generated", "interrupted", "putting",
                                    "cancelled"}}
Rollouter == Held \cup In("queued")

\* staleness_samples counts every sample that is outstanding but one: the
\* sample in hand while update_param_version adds up the others.
CountInv ==
  /\ OutstandingBound
  /\ Cardinality(Outstanding) <= staleness + 1
  /\ proc = "getting" => Cardinality(Outstanding) <= MaxRequired
  /\ call = "size" => Cardinality(Held) <= sum
  /\ call = "updateEnd" => Cardinality(Rollouter) <= sum

LEMMA SetsOfSamples ==
  /\ Held \in SUBSET Samples /\ Rollouter \in SUBSET Samples /\ Outstanding \in SUBSET Samples
  /\ UnderWay \in SUBSET Samples /\ \A p : In(p) \in SUBSET Samples
  /\ Cardinality(Held) \in Nat /\ Cardinality(Rollouter) \in Nat
  /\ Cardinality(Outstanding) \in Nat /\ Cardinality(UnderWay) \in Nat
  /\ \A p : Cardinality(In(p)) \in Nat
<1>1. /\ Held \in SUBSET Samples /\ Rollouter \in SUBSET Samples /\ Outstanding \in SUBSET Samples
      /\ UnderWay \in SUBSET Samples /\ \A p : In(p) \in SUBSET Samples
  BY DEF Held, Rollouter, Outstanding, UnderWay, In
<1> QED
  BY <1>1, SubsetsOfSamples

LEMMA QueueLength ==
  ASSUME NEW R, NEW q \in Seq(R)
  PROVE  Cardinality(ToSet(q)) <= Len(q) /\ IsFiniteSet(ToSet(q))
<1>1. Len(q) \in Nat /\ DOMAIN q = 1 .. Len(q)
  OBVIOUS
<1>2. q \in Surjection(1 .. Len(q), ToSet(q))
  BY <1>1 DEF Surjection, ToSet
<1>3. IsFiniteSet(1 .. Len(q))
  BY <1>1, FS_Interval
<1>4. ExistsSurjection(1 .. Len(q), ToSet(q))
  BY <1>2 DEF ExistsSurjection
<1> QED
  BY <1>1, <1>2, <1>3, <1>4, FS_SurjCardinalityBound, FS_Surjection

\* The two lengths and active_tasks count at least what they hold.
LEMMA Counted ==
  ASSUME TypeOK, PlaceInv
  PROVE  /\ Cardinality(In("queued")) <= Len(queue)
         /\ Cardinality(Held) <= ActiveSize + Len(cancelQueue)
<1>1. /\ queue \in Seq(0 .. Total) /\ ToSet(queue) \ {Finish} = In("queued")
      /\ cancelQueue \in Seq(Samples) /\ ToSet(cancelQueue) = In("cancelled")
      /\ spent \in Nat /\ Len(queue) \in Nat /\ Len(cancelQueue) \in Nat
  BY AccountedIs, HeadSample, TypeOKParts DEF PlaceInv, Containers, Scalars
<1>2. Cardinality(In("queued")) <= Len(queue)
  <2> DEFINE Elements == 0 .. Total
  <2>1. queue \in Seq(Elements)
    BY <1>1
  <2> HIDE DEF Elements
  <2>2. Cardinality(ToSet(queue)) <= Len(queue) /\ IsFiniteSet(ToSet(queue))
    BY <2>1, QueueLength
  <2>3. /\ In("queued") \in SUBSET ToSet(queue)
        /\ Cardinality(In("queued")) <= Cardinality(ToSet(queue))
    BY <1>1, <2>2, FS_Subset
  <2>4. Cardinality(ToSet(queue)) \in Nat /\ Cardinality(In("queued")) \in Nat
    BY <2>2, SetsOfSamples, FS_CardinalityType
  <2> QED
    BY <1>1, <2>2, <2>3, <2>4
<1>3. Cardinality(In("cancelled")) <= Len(cancelQueue)
  BY <1>1, QueueLength
<1>4. Held = UnderWay \cup In("cancelled")
  BY DEF Held, UnderWay, In
<1>5. /\ IsFiniteSet(UnderWay) /\ IsFiniteSet(In("cancelled"))
      /\ IsFiniteSet(UnderWay \cap In("cancelled"))
  BY SetsOfSamples, SubsetsOfSamples, FS_Intersection
<1>6. /\ Cardinality(Held) = Cardinality(UnderWay) + Cardinality(In("cancelled"))
                               - Cardinality(UnderWay \cap In("cancelled"))
      /\ Cardinality(UnderWay \cap In("cancelled")) \in Nat
  BY <1>4, <1>5, FS_Union, FS_CardinalityType
<1>7. /\ Cardinality(UnderWay) \in Nat /\ Cardinality(In("cancelled")) \in Nat
      /\ Cardinality(Held) \in Nat
  BY SetsOfSamples
<1> QED
  BY <1>1, <1>2, <1>3, <1>6, <1>7 DEF ActiveSize

LEMMA HeldAndQueued ==
  Cardinality(Rollouter) <= Cardinality(Held) + Cardinality(In("queued"))
<1>1. IsFiniteSet(Held) /\ IsFiniteSet(In("queued")) /\ IsFiniteSet(Held \cap In("queued"))
  BY SetsOfSamples, SubsetsOfSamples, FS_Intersection
<1>2. /\ Cardinality(Rollouter) = Cardinality(Held) + Cardinality(In("queued"))
                                    - Cardinality(Held \cap In("queued"))
      /\ Cardinality(Held \cap In("queued")) \in Nat
  BY <1>1, FS_Union, FS_CardinalityType DEF Rollouter
<1> QED
  BY <1>2, SetsOfSamples

\* Only a sample from the feeder becomes outstanding.
LEMMA OutstandingStep ==
  ASSUME TypeOK, HandInv, PlaceInv, Next
  PROVE  /\ ~TakePending => Cardinality(Outstanding') <= Cardinality(Outstanding)
         /\ TakePending => Cardinality(Outstanding') <= Cardinality(Outstanding) + 1
         /\ ~Submit => Held' \subseteq Held /\ Rollouter' \subseteq Rollouter
         /\ Cardinality(Outstanding') \in Nat
<1>1. \A s \in Samples : Move(s)
  BY Life
<1>2. ~Submit => Held' \subseteq Held /\ Rollouter' \subseteq Rollouter
  BY <1>1 DEF Move, Held, Rollouter, In
<1>3. Outstanding' \in SUBSET Samples
  BY DEF Outstanding
<1>4. Cardinality(Outstanding') \in Nat
  BY <1>3, SubsetsOfSamples
<1>5. ASSUME ~TakePending
      PROVE  Cardinality(Outstanding') <= Cardinality(Outstanding)
  <2>1. Outstanding' \in SUBSET Outstanding
    BY <1>1, <1>5 DEF Move, Outstanding
  <2> QED
    BY <2>1, SetsOfSamples, SmallerSet
<1>6. ASSUME TakePending
      PROVE  Cardinality(Outstanding') <= Cardinality(Outstanding) + 1
  <2>1. Containers
    BY TypeOKParts
  <2>2. Outstanding' \subseteq Outstanding \cup {next}
    BY <1>6, <2>1 DEF TakePending, Outstanding, Containers, tasks
  <2>3. IsFiniteSet(Outstanding) /\ Cardinality(Outstanding) \in Nat
    BY SetsOfSamples, SubsetsOfSamples
  <2>4. /\ IsFiniteSet(Outstanding \cup {next})
        /\ Cardinality(Outstanding \cup {next}) \in
             {Cardinality(Outstanding), Cardinality(Outstanding) + 1}
    BY <2>3, FS_AddElement
  <2>5. Cardinality(Outstanding') <= Cardinality(Outstanding \cup {next})
    BY <2>2, <2>4, FS_Subset
  <2> QED
    BY <1>4, <2>3, <2>4, <2>5
<1> QED
  BY <1>2, <1>4, <1>5, <1>6

\* Under the lock of update_param_version the processor submits nothing.
LEMMA UpdateAlone ==
  ASSUME LockInv, call \in {"size", "updateEnd"}
  PROVE  ~Submit
BY DEF LockInv, Submit, Enter

LEMMA StalenessStep ==
  ASSUME Next
  PROVE  /\ TakePending \/ UpdateEnd \/ staleness' = staleness
         /\ call' = "size" => UpdateBegin \/ (call = "size" /\ sum' = sum)
         /\ call' = "updateEnd" => QueueSize \/ (call = "updateEnd" /\ sum' = sum)
<1> USE DEF flags, procs, pending_queue, tasks, syncs, train
<1>1. TakePending \/ UpdateEnd \/ staleness' = staleness
  BY DEF Next, Processor, Sync, Monitor, Main, Trainer, Over, vars, Task,
     ProcWaits, StopTaking, TakeCancelled, WaitPending, MarkPaused, Drain, AwaitTasks,
     CollectTasks, WaitResume, WakeUp, Submit, SyncWaits, PauseBegin, CancelServers, PauseEnd,
     Transfer, UpdateBegin, QueueSize, ResumeBegin, ResumeServers, ResumeEnd,
     MonitorWaits, MonitorTop, MonitorChecks, MonitorResumes, PutFinish, MainWaits, StopRunning,
     GetSample, GetFinish, Train, StartSync, Ending, LastWait, Generated, Label, Put, Interrupted,
     Raises
<1>2. call' = "size" => UpdateBegin \/ (call = "size" /\ sum' = sum)
  BY DEF Next, Processor, Sync, Monitor, Main, Trainer, Over, vars, Task,
     ProcWaits, StopTaking, TakeCancelled, WaitPending, TakePending, MarkPaused, Drain,
     AwaitTasks,
     CollectTasks, WaitResume, WakeUp, Submit, SyncWaits, PauseBegin, CancelServers, PauseEnd,
     Transfer, QueueSize, UpdateEnd, ResumeBegin, ResumeServers, ResumeEnd,
     MonitorWaits, MonitorTop, MonitorChecks, MonitorResumes, PutFinish, MainWaits, StopRunning,
     GetSample, GetFinish, Train, StartSync, Ending, LastWait, Generated, Label, Put, Interrupted,
     Raises
<1>3. call' = "updateEnd" => QueueSize \/ (call = "updateEnd" /\ sum' = sum)
  BY DEF Next, Processor, Sync, Monitor, Main, Trainer, Over, vars, Task,
     ProcWaits, StopTaking, TakeCancelled, WaitPending, TakePending, MarkPaused, Drain,
     AwaitTasks,
     CollectTasks, WaitResume, WakeUp, Submit, SyncWaits, PauseBegin, CancelServers, PauseEnd,
     Transfer, UpdateBegin, UpdateEnd, ResumeBegin, ResumeServers, ResumeEnd,
     MonitorWaits, MonitorTop, MonitorChecks, MonitorResumes, PutFinish, MainWaits, StopRunning,
     GetSample, GetFinish, Train, StartSync, Ending, LastWait, Generated, Label, Put, Interrupted,
     Raises
<1> QED
  BY <1>1, <1>2, <1>3

LEMMA GettingStep ==
  ASSUME Next, proc' = "getting"
  PROVE  WaitPending \/ (proc = "getting" /\ ~TakePending)
<1> USE DEF flags, procs, pending_queue, tasks, syncs, train
<1>1. CASE Processor
  BY <1>1 DEF Processor, ProcWaits, StopTaking, TakeCancelled, TakePending, MarkPaused, Drain,
     AwaitTasks, CollectTasks, WaitResume, WakeUp, Submit
<1>2. CASE ~Processor
  <2>1. proc = "getting"
    BY <1>2 DEF NotifyAll, Next, Sync, Monitor, Main, Trainer, Over, vars, Task,
     SyncWaits, PauseBegin, CancelServers, PauseEnd,
     Transfer, UpdateBegin, QueueSize, UpdateEnd, ResumeBegin, ResumeServers, ResumeEnd,
     MonitorWaits, MonitorTop, MonitorChecks, MonitorResumes, PutFinish, MainWaits, StopRunning,
     GetSample, GetFinish, Train, StartSync, Ending, LastWait, Generated, Label, Put, Interrupted,
     Raises
  <2> QED
    BY <1>2, <2>1 DEF Processor
<1> QED
  BY <1>1, <1>2

LEMMA CountInvStep ==
  ASSUME TypeOK, LockInv, HandInv, PlaceInv, CountInv, Next
  PROVE  CountInv'
<1> DEFINE o == Cardinality(Outstanding)
           h == Cardinality(Held)
           r == Cardinality(Rollouter)
<1>1. /\ o \in Nat /\ o' \in Nat /\ h \in Nat /\ r \in Nat /\ staleness \in Nat
      /\ sum \in Nat /\ ActiveSize \in Nat /\ Len(cancelQueue) \in Nat /\ Len(queue) \in Nat
      /\ MaxRequired \in Nat
  BY SetsOfSamples, OutstandingStep, ActiveSizeIs, HeadSample, TypeOKParts, PositiveBound
     DEF Scalars
<1>2. o <= MaxRequired + 1 /\ o <= staleness + 1
  BY DEF CountInv, OutstandingBound
<1>3. o' <= MaxRequired + 1 /\ o' <= staleness' + 1
  <2>1. CASE TakePending
    <3>1. staleness' = staleness + 1 /\ (staleness < MaxRequired \/ proc = "getting")
      BY <1>1, <2>1 DEF TakePending, MayTakePending, ShouldPause
    <3>2. o' <= o + 1
      BY <2>1, OutstandingStep
    <3>3. proc = "getting" => o <= MaxRequired
      BY DEF CountInv
    <3> HIDE DEF o
    <3> QED
      BY <1>1, <1>2, <3>1, <3>2, <3>3
  <2>2. CASE UpdateEnd
    <3>1. staleness' = sum /\ r <= sum /\ at' = at
      BY <2>2 DEF UpdateEnd, CountInv, tasks
    <3>2. Outstanding' = Outstanding
      BY <3>1 DEF Outstanding
    <3>3. o <= r + 1
      <4>1. In("hand") = {hand} \ {0}
        BY AccountedIs DEF PlaceInv
      <4>2. Outstanding \in SUBSET (Rollouter \cup {hand})
        BY <4>1 DEF Outstanding, Rollouter, Held, In
      <4>3. IsFiniteSet(Rollouter)
        BY SetsOfSamples, SubsetsOfSamples
      <4>4. /\ IsFiniteSet(Rollouter \cup {hand})
            /\ Cardinality(Rollouter \cup {hand}) \in {r, r + 1}
        BY <4>3, FS_AddElement
      <4>5. o <= Cardinality(Rollouter \cup {hand})
        BY <4>2, <4>4, FS_Subset
      <4> HIDE DEF o, r
      <4> QED
        BY <1>1, <4>4, <4>5
    <3>4. o' = o
      BY <3>2
    <3> HIDE DEF o, r
    <3> QED
      BY <1>1, <1>2, <3>1, <3>3, <3>4
  <2>3. CASE ~TakePending /\ ~UpdateEnd
    <3>1. o' <= o /\ staleness' = staleness
      BY <2>3, OutstandingStep, StalenessStep
    <3> HIDE DEF o
    <3> QED
      BY <1>1, <1>2, <3>1
  <2> QED
    BY <2>1, <2>2, <2>3
<1>4. call' = "size" => h' <= sum'
  <2>1. CASE UpdateBegin
    <3>1. sum' = ActiveSize + Len(cancelQueue) /\ at' = at
      BY <2>1 DEF UpdateBegin, tasks
    <3>2. h' = h
      BY <3>1 DEF Held
    <3>3. h <= ActiveSize + Len(cancelQueue)
      BY Counted
    <3> QED
      BY <3>1, <3>2, <3>3
  <2>2. CASE call = "size" /\ sum' = sum
    <3>1. Held' \in SUBSET Held
      BY <2>2, UpdateAlone, OutstandingStep
    <3>2. h' <= h /\ h <= sum
      BY <2>2, <3>1, SetsOfSamples, SmallerSet DEF CountInv
    <3>3. h' \in Nat
      BY <3>1, SetsOfSamples, SubsetsOfSamples
    <3> HIDE DEF h
    <3> QED
      BY <1>1, <2>2, <3>2, <3>3
  <2> QED
    BY <2>1, <2>2, StalenessStep
<1>5. call' = "updateEnd" => r' <= sum'
  <2>1. CASE QueueSize
    <3>1. sum' = sum + Len(queue) /\ at' = at /\ h <= sum
      BY <2>1 DEF QueueSize, tasks, CountInv
    <3>2. r' = r
      BY <3>1 DEF Rollouter, Held, In
    <3>3. /\ r <= h + Cardinality(In("queued")) /\ Cardinality(In("queued")) <= Len(queue)
          /\ Cardinality(In("queued")) \in Nat
      BY HeldAndQueued, Counted, SetsOfSamples
    <3> HIDE DEF h, r
    <3> QED
      BY <1>1, <3>1, <3>2, <3>3
  <2>2. CASE call = "updateEnd" /\ sum' = sum
    <3>1. Rollouter' \in SUBSET Rollouter
      BY <2>2, UpdateAlone, OutstandingStep
    <3>2. r' <= r /\ r <= sum
      BY <2>2, <3>1, SetsOfSamples, SmallerSet DEF CountInv
    <3>3. r' \in Nat
      BY <3>1, SetsOfSamples, SubsetsOfSamples
    <3> HIDE DEF r
    <3> QED
      BY <1>1, <2>2, <3>2, <3>3
  <2> QED
    BY <2>1, <2>2, StalenessStep
<1>6. proc' = "getting" => o' <= MaxRequired
  <2>1. CASE WaitPending
    <3>1. staleness < MaxRequired /\ at' = at
      BY <1>1, <2>1 DEF WaitPending, ShouldPause, tasks
    <3>2. o' = o
      BY <3>1 DEF Outstanding
    <3> HIDE DEF o
    <3> QED
      BY <1>1, <1>2, <3>1, <3>2
  <2>2. CASE proc = "getting" /\ ~TakePending
    <3>1. o <= MaxRequired /\ o' <= o
      BY <2>2, OutstandingStep DEF CountInv
    <3> HIDE DEF o
    <3> QED
      BY <1>1, <3>1
  <2> QED
    BY <2>1, <2>2, GettingStep
<1> QED
  BY <1>3, <1>4, <1>5, <1>6 DEF CountInv, OutstandingBound

LEMMA CountInit ==
  ASSUME Init
  PROVE  CountInv
<1>1. Outstanding = {} /\ call = "idle" /\ staleness = 0 /\ proc = "loop"
  BY DEF Init, Outstanding
<1>2. Cardinality(Outstanding) = 0
  BY <1>1, FS_EmptySet
<1> QED
  BY <1>1, <1>2, PositiveBound DEF CountInv, OutstandingBound

LEMMA CountUnchanged ==
  ASSUME CountInv, UNCHANGED vars
  PROVE  CountInv'
<1>1. UNCHANGED <<at, staleness, proc, call, sum>>
  BY DEF vars, procs, tasks, syncs
<1>2. Outstanding' = Outstanding /\ Held' = Held /\ Rollouter' = Rollouter
  BY <1>1 DEF Outstanding, Held, Rollouter, In
<1> QED
  BY <1>1, <1>2 DEF CountInv, OutstandingBound

(* The freshness control holds through every reset of staleness_samples:   *)
(* at most one sample more than max_required_samples is outstanding.       *)
THEOREM FreshnessControl == Spec => []OutstandingBound
<1>1. Init => CountInv
  BY CountInit
<1>2. TypeOK /\ (LockInv /\ HandInv /\ PlaceInv) /\ CountInv /\ [Next]_vars => CountInv'
  BY CountInvStep, CountUnchanged
<1>3. CountInv => OutstandingBound
  BY DEF CountInv
<1> QED
  BY <1>1, <1>2, <1>3, AsyncTypeCorrect, PlaceAlways, PTL DEF Spec

=============================================================================
