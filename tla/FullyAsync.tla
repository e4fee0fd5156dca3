----------------------------- MODULE FullyAsync -----------------------------
(***************************************************************************)
(* The fully asynchronous policy of verl/experimental/fully_async_policy:  *)
(* the rollouter generates samples, the message queue carries them to the  *)
(* trainer, and the parameter synchronizer brings new weights back.        *)
(*                                                                         *)
(* The rollouter is an actor with one event loop.  Its coroutines are the  *)
(* processor, a task per sample, the monitor, the main coroutine and the   *)
(* calls of the synchronizer (pause, update_param_version, resume); they   *)
(* share a FIFO lock and a condition on it.  Only an await that really     *)
(* waits lets another coroutine run: from one such await to the next the   *)
(* processor is Busy, and nobody else takes the lock.  The queue, the      *)
(* servers and the trainer are other actors and step in between.           *)
(*                                                                         *)
(* The feeder puts the samples into pending_queue in order, number         *)
(* Total + 1 stands for its "DONE".  It puts without waiting while there   *)
(* is room, so it has filled the queue before the processor runs, and      *)
(* fills it again, before anybody else moves, whenever the processor       *)
(* really waits.  A processor that has emptied the queue in one go, with   *)
(* more than PendingSize tasks allowed, waits in get() for that.           *)
(***************************************************************************)
EXTENDS Integers, Sequences, FiniteSets, SequencesExt

CONSTANTS
  Total,          \* total_rollout_steps, samples that are handed out
  Required,       \* required_samples, samples of a training step
  SyncSteps,      \* trigger_parameter_sync_step
  MaxRequired,    \* max_required_samples, and the size of the queue
  MaxConcurrent,  \* max_concurrent_samples
  PendingSize,    \* maxsize of pending_queue
  TestFreq,       \* rollout.test_freq
  Modes,          \* values of partial_rollout that are considered
  Fragile         \* samples whose generation may raise an exception

ASSUME SizesAssumption ==
  /\ Total \in Nat /\ Required \in Nat \ {0} /\ SyncSteps \in Nat \ {0}
  /\ MaxRequired \in Nat /\ MaxRequired >= Required * SyncSteps
  /\ MaxConcurrent \in 1 .. MaxRequired
  /\ TestFreq \in Nat \ {0}
ASSUME PendingAssumption == PendingSize \in Nat \ {0}
ASSUME ModesAssumption == Modes \subseteq BOOLEAN
ASSUME FragileAssumption == Fragile \subseteq 1 .. Total

Samples == 1 .. Total
Finish == 0      \* the None that ends the stream

VARIABLES
  partial,         \* partial_rollout, never changes
  paused, trigger, \* paused and monitor_loop_trigger of the rollouter
  running,         \* its running flag
  lock,            \* who holds the lock, then who waits for it
  staleness,       \* staleness_samples
  paramVersion,    \* current_param_version of the rollouter
  proc, why,       \* where the processor is, and what it drains tasks for
  hand, next, fed, \* the sample it has taken, the first and last in pending_queue
  seen,            \* done_tasks has been assigned
  at,              \* where each sample is
  label,           \* param_version of each sample
  spent, raised,   \* tasks of active_tasks that ended, and whether one raised
  cancelQueue,     \* cancel_queue
  queue,           \* the deque of the message queue
  call, sum,       \* the call of the synchronizer, the size it adds up
  weights,         \* version of the weights on the servers
  cut,             \* the servers are paused
  monitor, main,   \* where these coroutines are
  trainer,         \* where the trainer is
  step, version    \* its local_trigger_step and current_param_version

flags == <<partial, paused, trigger, running>>
pending_queue == <<next, fed>>
procs == <<proc, why, hand, pending_queue, seen>>
tasks == <<at, label, spent, raised, cancelQueue>>
syncs == <<call, sum, weights, cut>>
train == <<trainer, step, version>>
vars == <<flags, lock, staleness, paramVersion, procs, tasks, queue, syncs,
          monitor, main, train>>

-----------------------------------------------------------------------------
(* active_tasks: a task per sample under way, and tasks that have ended and  *)
(* have not been collected.                                                  *)

Places == {"source", "hand", "generating", "generated", "interrupted", "putting",
           "cancelled", "queued", "batch", "trained", "dropped", "failed"}

UnderWay == {s \in Samples : at[s] \in {"generating", "generated", "interrupted", "putting"}}
Batch == {s \in Samples : at[s] = "batch"}

ActiveSize == Cardinality(UnderWay) + spent

ShouldPause == Len(queue) >= MaxRequired \/ staleness >= MaxRequired

(* asyncio.Lock: whoever comes first gets it, the others wait in turn. *)

Waits(x) == x \in ToSet(lock)
Enter(x) == lock # <<>> => Head(lock) = x
Hold(x) == lock' = IF lock = <<>> THEN <<x>> ELSE lock
Leave == lock' = IF lock = <<>> THEN lock ELSE Tail(lock)
Enqueue(x) == lock # <<>> /\ ~Waits(x) /\ lock' = Append(lock, x)

NotifyAll == proc' = IF proc = "waiting" THEN "notified" ELSE proc

\* The feeder has put what fits into pending_queue, or all there is.
Filled ==
  IF next + PendingSize <= Total + 2 THEN next + PendingSize - 1 ELSE Total + 1

Refill == fed' = Filled

Busy ==
  \/ proc \in {"loop", "drain"}
  \/ proc \in {"pauseLock", "drainLock", "condLock"} /\ ~Waits("proc")

-----------------------------------------------------------------------------
(* The state after the first synchronization, when both fit() start. *)
Init ==
  /\ partial \in Modes
  /\ paused = FALSE /\ trigger = TRUE /\ running = TRUE
  /\ lock = <<>>
  /\ staleness = 0
  /\ paramVersion = 0
  /\ proc = "loop" /\ why = "pause"
  /\ hand = 0 /\ next = 1 /\ fed = Filled
  /\ seen = FALSE
  /\ at = [s \in Samples |-> "source"]
  /\ label = [s \in Samples |-> 0]
  /\ spent = 0 /\ raised = FALSE
  /\ cancelQueue = <<>>
  /\ queue = <<>>
  /\ call = "idle" /\ sum = 0
  /\ weights = 0
  /\ cut = FALSE
  /\ monitor = "top" /\ main = "run"
  /\ trainer = "collect" /\ step = 1 /\ version = 0

-----------------------------------------------------------------------------
(* The processor: _processor_worker. *)

ProcWaits ==
  /\ proc \in {"pauseLock", "drainLock", "condLock"}
  /\ Enqueue("proc")
  /\ Refill
  /\ UNCHANGED <<flags, staleness, paramVersion, proc, why, hand, next, seen, tasks, queue, syncs,
                 monitor, main, train>>

StopTaking ==
  /\ proc = "loop"
  /\ paused \/ ShouldPause
  /\ proc' = "pauseLock"
  /\ UNCHANGED <<flags, lock, staleness, paramVersion, why, hand, pending_queue, seen, tasks,
                 queue, syncs, monitor, main, train>>

\* Mutant: the sample stays in cancel_queue.
PeekCancelled ==
  /\ proc = "loop" /\ ~paused /\ ~ShouldPause
  /\ cancelQueue # <<>>
  /\ hand' = Head(cancelQueue)
  /\ at' = [at EXCEPT ![Head(cancelQueue)] = "hand"]
  /\ proc' = "drain" /\ why' = "limit"
  /\ UNCHANGED <<flags, lock, staleness, paramVersion, pending_queue, seen, label, spent, raised,
                 cancelQueue, queue, syncs, monitor, main, train>>

\* An interrupted sample goes first, and is not counted again.
TakeCancelled ==
  /\ proc = "loop" /\ ~paused /\ ~ShouldPause
  /\ cancelQueue # <<>>
  /\ cancelQueue' = Tail(cancelQueue)
  /\ hand' = Head(cancelQueue)
  /\ at' = [at EXCEPT ![Head(cancelQueue)] = "hand"]
  /\ proc' = "drain" /\ why' = "limit"
  /\ UNCHANGED <<flags, lock, staleness, paramVersion, pending_queue, seen, label, spent, raised,
                 queue, syncs, monitor, main, train>>

\* pending_queue is empty: the processor waits in get() until it is filled.
WaitPending ==
  /\ proc = "loop" /\ ~paused /\ ~ShouldPause
  /\ cancelQueue = <<>> /\ fed < next
  /\ proc' = "getting"
  /\ Refill
  /\ UNCHANGED <<flags, lock, staleness, paramVersion, why, hand, next, seen, tasks, queue, syncs,
                 monitor, main, train>>

MayTakePending ==
  \/ proc = "loop" /\ ~paused /\ ~ShouldPause /\ cancelQueue = <<>> /\ fed >= next
  \/ proc = "getting"

\* Mutant: the sample is not counted.
TakeUncounted ==
  /\ MayTakePending
  /\ proc' = "drain"
  /\ IF next <= Total
       THEN /\ hand' = next /\ next' = next + 1
            /\ at' = [at EXCEPT ![next] = "hand"]
            /\ why' = "limit"
       ELSE why' = "done" /\ UNCHANGED <<hand, next, at>>
  /\ UNCHANGED <<flags, lock, staleness, paramVersion, fed, seen, label, spent, raised,
                 cancelQueue, queue, syncs, monitor, main, train>>

\* Mutant: the end signal is taken for a sample.
TakeUnchecked ==
  /\ MayTakePending
  /\ staleness' = staleness + 1
  /\ proc' = "drain" /\ why' = "limit"
  /\ hand' = next /\ next' = next + 1
  /\ at' = [at EXCEPT ![next] = "hand"]
  /\ UNCHANGED <<flags, lock, paramVersion, fed, seen, label, spent, raised, cancelQueue, queue,
                 syncs, monitor, main, train>>

\* After a wait in get() neither the pause nor cancel_queue is looked at again.
TakePending ==
  /\ MayTakePending
  /\ staleness' = staleness + 1
  /\ proc' = "drain"
  /\ IF next <= Total
       THEN /\ hand' = next /\ next' = next + 1
            /\ at' = [at EXCEPT ![next] = "hand"]
            /\ why' = "limit"
       ELSE why' = "done" /\ UNCHANGED <<hand, next, at>>
  /\ UNCHANGED <<flags, lock, paramVersion, fed, seen, label, spent, raised, cancelQueue, queue,
                 syncs, monitor, main, train>>

MarkPaused ==
  /\ proc = "pauseLock" /\ Enter("proc") /\ Leave
  /\ paused' = TRUE
  /\ proc' = "drain" /\ why' = "pause"
  /\ UNCHANGED <<partial, trigger, running, staleness, paramVersion, hand, pending_queue, seen,
                 tasks, queue, syncs, monitor, main, train>>

\* Mutant: after the end signal the tasks are not waited for.
MustDrainUnlessDone ==
  CASE why = "limit" -> ActiveSize >= MaxConcurrent
    [] why = "pause" -> ActiveSize > 0
    [] why = "done" -> FALSE

\* The condition of the three loops that wait for tasks.
MustDrain == ActiveSize >= (IF why = "limit" THEN MaxConcurrent ELSE 1)

Drain ==
  /\ proc = "drain"
  /\ proc' = IF MustDrain THEN "drainLock" ELSE IF why = "done" THEN "exited" ELSE "condLock"
  /\ UNCHANGED <<flags, lock, staleness, paramVersion, why, hand, pending_queue, seen, tasks,
                 queue, syncs, monitor, main, train>>

\* Mutant: without looking again it waits for no tasks, which raises.
AwaitUnchecked ==
  /\ proc = "drainLock" /\ Enter("proc")
  /\ IF ActiveSize > 0
       THEN Hold("proc") /\ proc' = "drainWait" /\ Refill
       ELSE Leave /\ proc' = "dead" /\ UNCHANGED fed
  /\ UNCHANGED <<flags, staleness, paramVersion, why, hand, next, seen, tasks, queue, syncs,
                 monitor, main, train>>

\* With the lock it looks again: pause() may have cleared active_tasks.  It
\* goes through done_tasks even so, which is unbound the first time.
AwaitTasks ==
  /\ proc = "drainLock" /\ Enter("proc")
  /\ IF ActiveSize > 0
       THEN Hold("proc") /\ proc' = "drainWait" /\ Refill
       ELSE Leave /\ (proc' = IF seen THEN "drain" ELSE "dead") /\ UNCHANGED fed
  /\ UNCHANGED <<flags, staleness, paramVersion, why, hand, next, seen, tasks, queue, syncs,
                 monitor, main, train>>

\* The tasks that have ended leave active_tasks; an exception is raised again.
CollectTasks ==
  /\ proc = "drainWait" /\ spent > 0
  /\ spent' = 0 /\ raised' = FALSE
  /\ seen' = TRUE
  /\ Leave
  /\ proc' = IF raised THEN "dead" ELSE "drain"
  /\ UNCHANGED <<flags, staleness, paramVersion, why, hand, pending_queue, at, label, cancelQueue, queue,
                 syncs, monitor, main, train>>

\* Under the lock: wait as long as the rollouter is paused.
WaitResume ==
  /\ proc = "condLock" /\ Enter("proc") /\ Leave
  /\ paused
  /\ proc' = "waiting"
  /\ Refill
  /\ UNCHANGED <<flags, staleness, paramVersion, why, hand, next, seen, tasks, queue, syncs,
                 monitor, main, train>>

WakeUp ==
  /\ proc = "notified"
  /\ proc' = "condLock"
  /\ UNCHANGED <<flags, lock, staleness, paramVersion, why, hand, pending_queue, seen, tasks,
                 queue, syncs, monitor, main, train>>

\* Create the task of the sample in hand.  Paused servers answer it at once.
Submit ==
  /\ proc = "condLock" /\ Enter("proc") /\ Leave
  /\ ~paused
  /\ proc' = "loop"
  /\ IF why = "limit"
       THEN /\ at' = [at EXCEPT ![hand] = IF cut THEN "interrupted" ELSE "generating"]
            /\ hand' = 0
       ELSE UNCHANGED <<at, hand>>
  /\ UNCHANGED <<flags, staleness, paramVersion, why, pending_queue, seen, label, spent, raised,
                 cancelQueue, queue, syncs, monitor, main, train>>

Processor ==
  \/ ProcWaits \/ StopTaking \/ TakeCancelled \/ WaitPending \/ TakePending \/ MarkPaused
  \/ Drain \/ AwaitTasks \/ CollectTasks \/ WaitResume \/ WakeUp \/ Submit

-----------------------------------------------------------------------------
(* The task of a sample: _process_single_sample_streaming. *)

Generated(s) ==
  /\ at[s] = "generating"
  /\ at' = [at EXCEPT ![s] = "generated"]
  /\ UNCHANGED <<flags, lock, staleness, paramVersion, procs, label, spent, raised, cancelQueue,
                 queue, syncs, monitor, main, train>>

Raises(s) ==
  /\ s \in Fragile /\ at[s] = "generating"
  /\ at' = [at EXCEPT ![s] = "failed"]
  /\ spent' = spent + 1 /\ raised' = TRUE
  /\ UNCHANGED <<flags, lock, staleness, paramVersion, procs, label, cancelQueue, queue, syncs,
                 monitor, main, train>>

\* It is labelled with the version of the moment and sent to the queue.
Label(s) ==
  /\ at[s] = "generated"
  /\ at' = [at EXCEPT ![s] = "putting"]
  /\ label' = [label EXCEPT ![s] = paramVersion]
  /\ UNCHANGED <<flags, lock, staleness, paramVersion, procs, spent, raised, cancelQueue, queue,
                 syncs, monitor, main, train>>

\* put_sample of the message queue: a full queue loses its oldest element.
Full == Len(queue) >= MaxRequired
Appended(x) == Append(IF Full THEN Tail(queue) ELSE queue, x)
Oldest == IF Full THEN {Head(queue)} ELSE {}

Put(s) ==
  /\ at[s] = "putting"
  /\ queue' = Appended(s)
  /\ at' = [x \in Samples |-> IF x \in Oldest THEN "dropped" ELSE IF x = s THEN "queued" ELSE at[x]]
  /\ spent' = spent + 1
  /\ UNCHANGED <<flags, lock, staleness, paramVersion, procs, label, raised, cancelQueue, syncs,
                 monitor, main, train>>

\* What has been generated stays in the sample, which goes to cancel_queue.
Interrupted(s) ==
  /\ at[s] = "interrupted"
  /\ at' = [at EXCEPT ![s] = "cancelled"]
  /\ cancelQueue' = Append(cancelQueue, s)
  /\ spent' = spent + 1
  /\ UNCHANGED <<flags, lock, staleness, paramVersion, procs, label, raised, queue, syncs,
                 monitor, main, train>>

Task(s) == Generated(s) \/ Label(s) \/ Put(s) \/ Interrupted(s)

-----------------------------------------------------------------------------
(* The calls of the synchronizer: sync_weights, and the methods it calls. *)

SyncWaits ==
  /\ call \in {"pauseLock", "updateLock", "resumeLock"}
  /\ Enqueue("sync")
  /\ UNCHANGED <<flags, staleness, paramVersion, procs, tasks, queue, syncs, monitor, main,
                 train>>

PauseBegin ==
  /\ call = "pauseLock" /\ ~Busy /\ Enter("sync") /\ Hold("sync")
  /\ paused' = TRUE
  /\ call' = IF partial THEN "cancel" ELSE "gather"
  /\ UNCHANGED <<partial, trigger, running, staleness, paramVersion, procs, tasks, queue, sum,
                 weights, cut, monitor, main, train>>

\* Mutant: the servers go on with requests that come later.
CancelRunning ==
  /\ call = "cancel"
  /\ at' = [s \in Samples |-> IF at[s] = "generating" THEN "interrupted" ELSE at[s]]
  /\ call' = "gather"
  /\ UNCHANGED <<flags, lock, staleness, paramVersion, procs, label, spent, raised, cancelQueue,
                 queue, sum, weights, cut, monitor, main, train>>

\* cancel() of the agent loops and servers: generation is cut short.
CancelServers ==
  /\ call = "cancel"
  /\ cut' = TRUE
  /\ at' = [s \in Samples |-> IF at[s] = "generating" THEN "interrupted" ELSE at[s]]
  /\ call' = "gather"
  /\ UNCHANGED <<flags, lock, staleness, paramVersion, procs, label, spent, raised, cancelQueue,
                 queue, sum, weights, monitor, main, train>>

\* All tasks have ended, exceptions are swallowed, active_tasks is cleared.
PauseEnd ==
  /\ call = "gather" /\ ~Busy
  /\ UnderWay = {}
  /\ spent' = 0 /\ raised' = FALSE
  /\ trigger' = FALSE
  /\ Leave
  /\ call' = "transfer"
  /\ UNCHANGED <<partial, paused, running, staleness, paramVersion, procs, at, label, cancelQueue,
                 queue, sum, weights, cut, monitor, main, train>>

\* The new weights are on the servers; sync_weights starts the update and
\* the resume, which waits for it, and returns.
Transfer ==
  /\ call = "transfer"
  /\ weights' = version
  /\ call' = "updateLock"
  /\ trainer' = IF trainer = "finalSync" THEN "lastWait" ELSE "collect"
  /\ UNCHANGED <<flags, lock, staleness, paramVersion, procs, tasks, queue, sum, cut, monitor,
                 main, step, version>>

\* update_param_version counts what is outstanding, in two parts.
UpdateBegin ==
  /\ call = "updateLock" /\ ~Busy /\ Enter("sync") /\ Hold("sync")
  /\ paramVersion' = weights
  /\ sum' = ActiveSize + Len(cancelQueue)
  /\ call' = "size"
  /\ UNCHANGED <<flags, staleness, procs, tasks, queue, weights, cut, monitor, main, train>>

QueueSize ==
  /\ call = "size"
  /\ sum' = sum + Len(queue)
  /\ call' = "updateEnd"
  /\ UNCHANGED <<flags, lock, staleness, paramVersion, procs, tasks, queue, weights, cut, monitor,
                 main, train>>

\* Mutant: the count goes on over the synchronizations.
UpdateKeeps ==
  /\ call = "updateEnd" /\ ~Busy /\ Leave
  /\ sum' = 0
  /\ call' = "resumeLock"
  /\ UNCHANGED <<flags, staleness, paramVersion, procs, tasks, queue, weights, cut, monitor, main,
                 train>>

UpdateEnd ==
  /\ call = "updateEnd" /\ ~Busy /\ Leave
  /\ staleness' = sum /\ sum' = 0
  /\ call' = "resumeLock"
  /\ UNCHANGED <<flags, paramVersion, procs, tasks, queue, weights, cut, monitor, main, train>>

ResumeBegin ==
  /\ call = "resumeLock" /\ ~Busy /\ Enter("sync") /\ Hold("sync")
  /\ call' = IF partial THEN "servers" ELSE "resumeEnd"
  /\ UNCHANGED <<flags, staleness, paramVersion, procs, tasks, queue, sum, weights, cut, monitor,
                 main, train>>

ResumeServers ==
  /\ call = "servers"
  /\ cut' = FALSE
  /\ call' = "resumeEnd"
  /\ UNCHANGED <<flags, lock, staleness, paramVersion, procs, tasks, queue, sum, weights, monitor,
                 main, train>>

ResumeEnd ==
  /\ call = "resumeEnd" /\ ~Busy /\ Leave
  /\ paused' = FALSE /\ trigger' = TRUE
  /\ NotifyAll
  /\ call' = "idle"
  /\ UNCHANGED <<partial, running, staleness, paramVersion, why, hand, pending_queue, seen, tasks,
                 queue, sum, weights, cut, monitor, main, train>>

Sync ==
  \/ SyncWaits \/ PauseBegin \/ CancelServers \/ PauseEnd \/ Transfer \/ UpdateBegin
  \/ QueueSize \/ UpdateEnd \/ ResumeBegin \/ ResumeServers \/ ResumeEnd

-----------------------------------------------------------------------------
(* The monitor: _async_monitor_loop. *)

MonitorWaits ==
  /\ monitor = "top"
  /\ Enqueue("monitor")
  /\ UNCHANGED <<flags, staleness, paramVersion, procs, tasks, queue, syncs, monitor, main,
                 train>>

MonitorTop ==
  /\ monitor = "top" /\ ~Busy /\ Enter("monitor") /\ Leave
  /\ monitor' = IF running THEN "sleep" ELSE "ended"
  /\ UNCHANGED <<flags, staleness, paramVersion, procs, tasks, queue, syncs, main, train>>

\* When the sleep is over: the decision to go on, and then the lock.
MonitorChecks ==
  /\ monitor = "sleep" /\ ~Busy
  /\ IF trigger /\ ~ShouldPause
       THEN monitor' = "resume" /\ lock' = Append(lock, "monitor")
       ELSE monitor' = "top" /\ UNCHANGED lock
  /\ UNCHANGED <<flags, staleness, paramVersion, procs, tasks, queue, syncs, main, train>>

MonitorResumes ==
  /\ monitor = "resume" /\ ~Busy /\ Head(lock) = "monitor" /\ Leave
  /\ paused' = FALSE
  /\ NotifyAll
  /\ monitor' = "top"
  /\ UNCHANGED <<partial, trigger, running, staleness, paramVersion, why, hand, pending_queue,
                 seen, tasks, queue, syncs, main, train>>

Monitor == MonitorWaits \/ MonitorTop \/ MonitorChecks \/ MonitorResumes

-----------------------------------------------------------------------------
(* The main coroutine: _streaming_generation_main once the processor ended. *)

\* Mutant: the end of the feed is awaited, but not that of the processor.
PutFinishEarly ==
  /\ main = "run" /\ next > Total
  /\ queue' = Appended(Finish)
  /\ at' = [x \in Samples |-> IF x \in Oldest THEN "dropped" ELSE at[x]]
  /\ main' = "stop"
  /\ UNCHANGED <<flags, lock, staleness, paramVersion, procs, label, spent, raised, cancelQueue,
                 syncs, monitor, train>>

PutFinish ==
  /\ main = "run" /\ proc \in {"exited", "dead"}
  /\ queue' = Appended(Finish)
  /\ at' = [x \in Samples |-> IF x \in Oldest THEN "dropped" ELSE at[x]]
  /\ main' = "stop"
  /\ UNCHANGED <<flags, lock, staleness, paramVersion, procs, label, spent, raised, cancelQueue,
                 syncs, monitor, train>>

MainWaits ==
  /\ main = "stop"
  /\ Enqueue("main")
  /\ UNCHANGED <<flags, staleness, paramVersion, procs, tasks, queue, syncs, monitor, main,
                 train>>

StopRunning ==
  /\ main = "stop" /\ Enter("main") /\ Leave
  /\ running' = FALSE
  /\ main' = "stopped"
  /\ UNCHANGED <<partial, paused, trigger, staleness, paramVersion, procs, tasks, queue, syncs,
                 monitor, train>>

Main == PutFinish \/ MainWaits \/ StopRunning

-----------------------------------------------------------------------------
(* The trainer: fit of FullyAsyncTrainer. *)

GetSample ==
  /\ trainer = "collect" /\ queue # <<>> /\ Head(queue) # Finish
  /\ queue' = Tail(queue)
  /\ at' = [at EXCEPT ![Head(queue)] = "batch"]
  /\ trainer' = IF Cardinality(Batch) + 1 = Required THEN "train" ELSE "collect"
  /\ UNCHANGED <<flags, lock, staleness, paramVersion, procs, label, spent, raised, cancelQueue,
                 syncs, monitor, main, step, version>>

\* The end of the stream: an incomplete batch is not trained.
GetFinish ==
  /\ trainer = "collect" /\ queue # <<>> /\ Head(queue) = Finish
  /\ queue' = Tail(queue)
  /\ trainer' = "ending"
  /\ UNCHANGED <<flags, lock, staleness, paramVersion, procs, tasks, syncs, monitor, main, step,
                 version>>

Train ==
  /\ trainer = "train"
  /\ at' = [s \in Samples |-> IF at[s] = "batch" THEN "trained" ELSE at[s]]
  /\ IF step < SyncSteps
       THEN step' = step + 1 /\ trainer' = "collect" /\ UNCHANGED version
       ELSE step' = 1 /\ version' = version + 1 /\ trainer' = "wait"
  /\ UNCHANGED <<flags, lock, staleness, paramVersion, procs, label, spent, raised, cancelQueue,
                 queue, syncs, monitor, main>>

\* wait_last_valid: the last update and resume are over; then sync_weights.
StartSync ==
  /\ trainer = "wait" /\ call = "idle"
  /\ call' = "pauseLock"
  /\ trainer' = "sync"
  /\ UNCHANGED <<flags, lock, staleness, paramVersion, procs, tasks, queue, sum, weights, cut,
                 monitor, main, step, version>>

\* After the stream: a last synchronization if there is something new.
Ending ==
  /\ trainer = "ending" /\ call = "idle"
  /\ IF version % TestFreq # 0 \/ step > 1
       THEN /\ version' = version + 1 /\ step' = 1
            /\ call' = "pauseLock" /\ trainer' = "finalSync"
       ELSE trainer' = "stopped" /\ UNCHANGED <<call, step, version>>
  /\ UNCHANGED <<flags, lock, staleness, paramVersion, procs, tasks, queue, sum, weights, cut,
                 monitor, main>>

LastWait ==
  /\ trainer = "lastWait" /\ call = "idle"
  /\ trainer' = "stopped"
  /\ UNCHANGED <<flags, lock, staleness, paramVersion, procs, tasks, queue, syncs, monitor, main,
                 step, version>>

Trainer == GetSample \/ GetFinish \/ Train \/ StartSync \/ Ending \/ LastWait

-----------------------------------------------------------------------------
\* Everybody has returned.
Over ==
  /\ trainer = "stopped" /\ main = "stopped" /\ monitor = "ended" /\ UnderWay = {}
  /\ UNCHANGED vars

Next ==
  \/ Processor \/ Sync \/ Monitor \/ Main \/ Trainer \/ Over
  \/ \E s \in Samples : Task(s) \/ Raises(s)

Spec == Init /\ [][Next]_vars

\* Ready coroutines run, RPCs answer and generation ends.  SF: the event loop
\* runs a coroutine that is ready again and again.
FairSpec ==
  /\ Spec
  /\ WF_vars(Processor) /\ SF_vars(Sync) /\ WF_vars(Monitor) /\ WF_vars(Main)
  /\ WF_vars(Trainer)
  /\ \A s \in Samples : WF_vars(Task(s))

-----------------------------------------------------------------------------
TypeOK ==
  /\ partial \in Modes /\ paused \in BOOLEAN /\ trigger \in BOOLEAN /\ running \in BOOLEAN
  /\ lock \in Seq({"proc", "sync", "monitor", "main"})
  /\ staleness \in Nat /\ paramVersion \in Nat
  /\ proc \in {"loop", "getting", "pauseLock", "drain", "drainLock", "drainWait", "condLock",
               "waiting", "notified", "exited", "dead"}
  /\ why \in {"pause", "limit", "done"}
  /\ hand \in 0 .. Total /\ next \in 1 .. Total + 1 /\ fed \in 1 .. Total + 1
  /\ seen \in BOOLEAN
  /\ at \in [Samples -> Places] /\ label \in [Samples -> Nat]
  /\ spent \in Nat /\ raised \in BOOLEAN
  /\ cancelQueue \in Seq(Samples) /\ queue \in Seq(0 .. Total)
  /\ call \in {"idle", "pauseLock", "cancel", "gather", "transfer", "updateLock", "size",
               "updateEnd", "resumeLock", "servers", "resumeEnd"}
  /\ sum \in Nat /\ weights \in Nat /\ cut \in BOOLEAN
  /\ monitor \in {"top", "sleep", "resume", "ended"} /\ main \in {"run", "stop", "stopped"}
  /\ trainer \in {"collect", "train", "wait", "sync", "ending", "finalSync", "lastWait", "stopped"}
  /\ step \in 1 .. SyncSteps /\ version \in Nat

-----------------------------------------------------------------------------
(* Properties. *)

\* A sample is in one place: cancel_queue holds the interrupted ones and the
\* message queue the finished ones, each once; at most one is in hand.
SamplesAccounted ==
  /\ IsInjective(cancelQueue)
  /\ ToSet(cancelQueue) = {s \in Samples : at[s] = "cancelled"}
  /\ IsInjective(queue)
  /\ ToSet(queue) \ {Finish} = {s \in Samples : at[s] = "queued"}
  /\ {s \in Samples : at[s] = "hand"} = {hand} \ {0}

Outstanding ==
  {s \in Samples : at[s] \in {"hand", "generating", "generated", "interrupted", "putting",
                              "cancelled", "queued"}}

\* The freshness control of _should_pause_generation: however increments of
\* staleness_samples are overwritten by the reset of update_param_version, at
\* most one sample more than max_required_samples is between feeder and trainer.
OutstandingBound == Cardinality(Outstanding) <= MaxRequired + 1

\* The processor ends early only because a generation failed; never because it
\* waits for tasks pause() has cleared, nor because it uses done_tasks unbound.
\* The latter may happen where as many tasks are allowed as pending_queue holds:
\* if a pause() falls into the wait for a sample, before any task was collected.
ProcessorSurvives ==
  proc = "dead" =>
    \/ \E s \in Samples : at[s] = "failed"
    \/ MaxConcurrent >= PendingSize /\ ~seen

\* With partial_rollout no sample is generated while the weights are
\* replaced, even when the monitor reopens the rollouter after the pause: the
\* servers answer what is sent to them then at once, as interrupted.  Without it
\* a reopened rollouter does generate during the transfer.
WeightsNotInUse ==
  partial /\ call = "transfer" => \A s \in Samples : at[s] # "generating"

\* When the processor is through it has drained its tasks, and none is added
\* later, so that none can put a sample after the None.  Samples that a pause
\* has moved to cancel_queue meanwhile are not looked at: they stay there.
FinishIsLast == proc = "exited" => UnderWay = {} /\ hand = 0 /\ next = Total + 1

\* The None that ends the stream is in the message queue until the trainer takes
\* it, although a full queue drops its oldest element and the tasks that a failed
\* processor leaves behind go on putting their samples.
FinishKept == main # "run" /\ trainer \in {"collect", "train", "wait", "sync"} =>
                Finish \in ToSet(queue)

\* Without partial_rollout the trainer gets to the None, whoever pauses and
\* resumes and whichever generation fails, and comes to its end.
StreamEnds == partial \/ <>(trainer = "stopped")
=============================================================================
