# Formal models of SearchAgentReview

SearchAgentReview trains language-model agents that answer questions by searching.
It consists of its own code under `src/src/` (agent loops, tree search, search
tools, rewards) and of a fork of the verl reinforcement-learning framework under
`src/verl/`. This directory holds TLA+ models of the parts whose correctness
depends on order, concurrency, failure or index arithmetic, TLC configurations
that check them on small instances, and proofs, checked by TLAPS, that hold for
every size.

Paths below are relative to the repository root; `policy/` abbreviates
`src/policy/`, and `verl/` the framework's package `verl/verl/`.

## 1. Inventory

| Component | State | Operations | What is hard | What makes it correct |
|---|---|---|---|---|
| **Index builder** `policy/tools/build_faiss_index.py` | checkpoint.json, partial.faiss, shard files, manifest; pool of fetches, results waiting for their turn, the open index | resume or start, submit, fetch/retry/give up, add in corpus order, flush a shard, save in four steps, clean up | kills between any two file operations, failing file operations, out-of-order completion | what is on disk resumes safely; a finished index holds each document once under its position |
| **Search service** `policy/tools/embedding_search_service.py` | embedding queue, FAISS queue, drain tasks, futures of requests, HTTP semaphore | embed, drain, sub-batch, retry, merge, search, slice, stop | two batching stages, cancellation while draining, a failed batch shared by several requests | every request is answered with its own rows, or with an error; a stop leaves nobody waiting |
| **Search tool client** `policy/tools/local_search.py`, `embedding_client.py` | none kept between calls | normalise queries, post with retries, pad and trim results | the client and the server normalise queries differently; retries of non-idempotent work | result list *i* answers query *i* |
| **Tree search** `policy/tree_search/` | trees of nodes, a module-global node counter, one session per chain | expand a node, run a chain, sample leaves, hand outputs to the trainer | several trees grow concurrently under `asyncio.gather` and share the counter | unique node ids within a tree, depth and length bounds, K outputs per prompt |
| **Tool agent loop** `verl/experimental/agent_loop/tool_agent_loop.py`, `policy/agent_loop/async_tool_score_agent_loop*.py` | phase, prompt/response ids, response mask, log-probs, turn counters, pending step scores | generate, call tools, interact, terminate, harvest scores | truncation at several places must stay aligned; step scores arrive out of order | mask, log-probs and ids have equal length and the mask marks just the generated tokens |
| **Server manager** `verl/experimental/agent_loop/agent_loop.py` (AsyncLLMServerManager) | least-requests heap, LRU map request → server | choose server, generate | sticky sessions against load balance | turns of a live request go to one server |
| **ARPO branching** `verl/experimental/agent_loop/arpo_branching.py`, `agent_loop.py` | budget, pending branches, running tasks, collected trajectories | start, enqueue branch, drain, collect, fill or trim | branches registered while tasks complete; budget counted at two places | each prompt yields the expected number of trajectories, each paired with its own metadata |
| **Fully asynchronous policy** `verl/experimental/fully_async_policy/` | message queue, pending/active/cancel queues, staleness counter, parameter version, pause flag | generate, put, get, pause, resume, update parameters, finish | producer, consumer and parameter sync run concurrently; bounded queue drops the oldest | staleness stays below its limit; the trainer sees the end; nobody waits for ever |
| **Step advantages** `verl/trainer/ppo/core_gigpo.py`, `core_algos.py`, `src/reward/` | none | group, normalise, place token rewards | index alignment of steps and tokens, groups of one | each reward reaches the tokens of its step |
| **Rate limiter** `verl/experimental/reward_loop/reward_manager/limited.py` | tokens, time of last refill | acquire | waiters race for refilled tokens | the rate is kept; a request that fits is granted |
| Rest of verl (workers, trainers, checkpoint engine, transfer queue, single controller, data sets, utilities), `multi_dataset_prep`, scripts, configurations | | | | framework code outside the fork's own logic, pure data preparation, or I/O |

Interactions: the trainer asks agent loops (plain, tree search or ARPO) for
trajectories; agent loops call the LLM through the server manager and the search
tool through the tool client; the client calls the search service, which answers
from the index that the index builder wrote; rewards turn trajectories into
advantages; the fully asynchronous policy runs rollout and training side by side
with a message queue between them.

Other properties that the code relies on, at the line where they can go wrong, are
listed as hazards in `PROJECT.json`, with the definitions that cover them.

## 2. Plan

| Order | Module | Models | State |
|---|---|---|---|
| 1 | `ResumableBuild` | what a resumable build promises | done |
| 2 | `IndexBuild`, `IndexBuildRefinement`, `IndexBuildProofs` | index builder, implements `ResumableBuild` | done, proved |
| 3 | `SearchPromise` | what the search endpoint promises | done |
| 4 | `SearchService`, `SearchServiceProofs` | search service, implements `SearchPromise` | done, proved, the refinement included |
| 5 | `SearchTool`, `SearchToolProofs` | search tool client, composed with `SearchPromise` | done, proved |
| 6 | `TreeSearch`, `TreeSearchProofs` | tree search in one worker | done, proved |
| 7 | `ToolAgentLoop`, `ToolAgentLoopProofs` | tool agent loop: alignment of tokens through the length limits, steps and their scores | done, proved |
| 8 | `FullyAsync`, `FullyAsyncProofs` | fully asynchronous policy: rollouter, message queue, parameter synchronizer, trainer | done, all its safety proved |
| 9 | `ArpoBranching`, `ArpoBranchingProofs` | ARPO branching in one worker: coordinator, collection, fill-up and trim | done, proved |
| 10 | | server manager, rate limiter | not modelled (section 9) |
| 11 | `Ordered`, `OrderedFacts` | sorting and filtering of lists, and lemmas about them | done, proved |
| 12 | in `ToolAgentLoop` | step advantages: how the estimators find the turns and pair them with their data | that part done; the rest is arithmetic |

Composition: `SearchTool` is built on `SearchPromise`, which `SearchService`
implements, so the client is checked against any service that keeps the promise and
the service is checked to keep it. The index that the service searches is the one
whose completeness `IndexBuild` establishes (position *p* of the index is document
*p*). `FullyAsync` composes four actors, the rollouter, the queue, the synchronizer
and the trainer, in one module, as their steps share too much state to be apart: the
queue is one of its variables, with `Put`, `PutFinish`, `GetSample` and `GetFinish` as
its operations. `ToolAgentLoop` is what one rollout of `ArpoBranching`, and one sample
of `FullyAsync`, does inside; there it is only known to take turns and to end.

Every invariant, action property and refinement that a passing run checks is also a
theorem; what is left to the model checker is liveness (section 7). Theorems still worth
proving are about behaviour that no property states yet: that a prompt's rollouts stay
within its rows when the manager splits a batch, and how many samples a pause at the end of
the stream can leave behind.

## 3. The modules

`MC…` modules only give values to constants. Definitions whose comment begins with
*Mutant* are plausible mistakes in the definition below them; they are used nowhere,
and each shows that some property would notice the mistake.

`Ordered` defines `InOrder(S)`, the elements of a finite set of integers in increasing
order, and `Picked(s, I)`, the elements of list `s` at the places `I`. They stand for
`sorted()`, for a stable `sort` by a key, and for filtering comprehensions. Both say what a
place holds and call no recursive operator, so the same definition is evaluated by TLC
and reasoned about in the proofs.

### IndexBuild: `policy/tools/build_faiss_index.py`

| State | In the code |
|---|---|
| `checkpoint`, `partial`, `shard_files`, `manifest` | `checkpoint.json`, `partial.faiss`, the shard files, the manifest: they survive a kill |
| `pc` | where `build_faiss_index` is; `"down"` when no process runs |
| `batch_size`, `next_batch_idx`, `next_add_idx`, `in_flight`, `pending_results`, `batch_retry_counts` | the loop's variables: `future_to_idx`, the results that wait for their turn, the retries |
| `index`, `dim_known`, `total_added`, `current_shard_start`, `shard_ranges`, `flush_happened` | the open index and the variables around it |
| `crashes`, `fetch_errors` | bounds |
| `origin` | no code: a history variable that says whose files `checkpoint.json` and `partial.faiss` are |

A document is its position in the corpus and an index is the sequence of the vectors
added to it, each with its id and its document, so that an index built from the wrong
batches, or in the wrong order, differs from the right one. Actions: `StartFresh`,
`Resume`, `ResumeRolledBack`, `RefuseBatchSize` (`_load_checkpoint` and what precedes
the loop); `FillPool`; `FetchDone`, `FetchRetry`, `FetchGivesUp`; `AddBatch`;
`OpenShard` and `CloseShard` (the flush of a full shard and the final one); `Advance`,
`AddLoopEnds`; `SavePartial`, `SaveJson`, `SaveRename` (the steps of
`_save_checkpoint`, with the failures it swallows and those it does not); `Finish`,
`NoEmbeddings`, `Publish`, `CleanupCheckpoint`, `CleanupPartial`; and `Crash`, possible
at every step, between the two removals of the cleanup too. `Faults` is the set of file
operations that may fail: writing or renaming the partial index, saving `checkpoint.json`,
removing a file, and reading the checkpoint.

The resume trusts a `partial.faiss` of the recorded size, so what is on disk is not always
safe. No step looks at `origin`; the properties use it to say when it is:

| `origin` | What has happened |
|---|---|
| `"own"` | both files are of the last saves of this build |
| `"old_partial"` | `partial.faiss` may be of an earlier shard, whose removal failed, or of an earlier build, whose cleanup was cut short or failed |
| `"old_record"` | a run that could not read `checkpoint.json` has begun anew and not yet saved |
| `"mixed"` | a resume has taken such files for its own |

`Recoverable` and `IndexComplete` say in each of these cases what still holds: the
recorded shards always tile the prefix and the next batch begins where they and the partial
index end; the shards are intact unless the record is an old one; the partial
index is right if it is the build's own; and only after `"mixed"` may a finished index be
wrong. With a single index file a finished index is right in every case.

`IndexBuildRefinement` maps this to `ResumableBuild`: the boundary is
`current_shard_start` on disk, the point of resumption is `total_added` if
`partial.faiss` has the recorded size and the boundary otherwise. Steps taken while
`origin` is `"old_record"` or `"mixed"` are exempt. A kill or a failed removal in the
cleanup may have the whole build done again, which `ResumableBuild` calls `Reopen`.

### SearchService: `policy/tools/embedding_search_service.py`

Stage `"embed"` is `DynamicBatchingEmbedder`, stage `"search"`
`DynamicBatchingFAISSSearcher`; `queue`, `items` and `loop` are the queue, the batch
and the position of the drain task of each stage, `cancelled` says that `stop()` has
called `cancel()` on the task. `phase`, `embedded`, `found` and `answer` are the local
state of the request handlers, and `posts` the posts of sub-batches with their
attempts. A step is what runs between two awaits. The embedding of a query is the
query itself and `<<q, j>>` is its *j*-th nearest document; thus a row given to a wrong
request, or cut to a wrong k, shows. Actions: the handler's `Arrive`, `EnterSearch`,
`Respond`; the loops' `TakeFirst`, `TakeMore`, `CloseWindow`; the posts' `Send`,
`PostSucceeds`, `PostBacksOff`, `Resend`, `PostFails`, `Abandoned`; the end of a call
`EmbedReturns`, `EmbedFails`, `SearchReturns`, `SearchFails`; and the lifespan's
`BeginStop`, `CancelAtGet`, `SearchStopped`, `EmbedStopped`. The
subtle one is `CloseWindow`: a cancellation that arrives while the loop collects is
caught there like a timeout, and is lost.

FAISS, the HTTP server and the embedding backend are external; they are modelled by
their outcomes. The server, started by `uvicorn.run` (lines 844-846), waits for the
requests it has accepted before it runs the end of the lifespan, so `BeginStop` has to
find nobody waiting; `StopMeetsNobody` says what this buys.

### SearchTool: `policy/tools/local_search.py` and the endpoint's normalisation

`call` is where `LocalEmbeddingSearchTool.execute` is, `attempt` the number of posts,
and `status`/`reply` the state of `SearchPromise`, with one request per attempt: an
attempt that timed out may still be answered, to nobody. Queries are strings because
the client drops those that are empty and the server those that are blank.

### TreeSearch: `policy/tree_search/` and the trainer's repetition of rows

`nodes[t]` are the nodes of tree *t* in the order of their creation, `chains[t]` the
chains of its current iteration, `counter` the module-global id counter, `run` and
`outputs` are those of `generate_sequences`. A turn is known by its token counts.
Actions: `Start` (all trees, until each waits for its first answer), `Generate` and
`Observe` (a chain's two awaits), `Raise` (a failing LLM call), `Expand`, `Sample`,
`Collect`. `TrainerRows` are the rows of `ray_trainer.py` that the outputs have to fit.

### ToolAgentLoop: `verl/experimental/agent_loop/tool_agent_loop.py` and `policy/agent_loop/`

The state is the `AgentData` of one trajectory: `state` (AgentState), `prompt_ids`,
`response_mask`, `response_logprobs`, the turn counters, the calls found in the last
turn, and of `AsyncToolScoreQwenToolAgentLoop` the messages, the anchor observations
and `pending_step_scores`. A token is the number of its turn: 0 in the prompt, *k* if
the model generated it in turn *k*, *-k* in the results or the user message after turn
*k*; hence any shift between ids, mask and log-probs, and any score that reaches a
wrong turn, shows. Actions: `Pending`, `Generate`, `GenerateRaises`, `ProcessTools`,
`Interact`, one for each handler. The cut of the output to `response_length`, the place of
the reward, the boundaries that `_get_step_boundaries` finds in the mask, and the merge of
the step scores by the manager are the operators `ResponseIds`, `ResponseMask`,
`RewardAt`, `StepBoundaries` and `StepScores`.

What the model says, how many calls the parser finds in it and how long results are is
a choice. Prompts are as long as the data set lets them be, with `filter_overlong_prompts` as
in all of `configs/` (verl's default is to keep longer ones), and an answer has at least its
end token if there is room; `RewardOnGenerated` rests on both. The most tokens of an
answer are those the sglang server computes from the lengths and the context of the
model. A branch of ARPO that resumes a trajectory continues in state `generating` with
the lists it was given, and needs no action of its own.

### FullyAsync: `verl/experimental/fully_async_policy/`

| State | In the code |
|---|---|
| `proc`, `why`, `hand`, `seen` | `_processor_worker`: where it is, what it drains tasks for, the sample it has taken, whether `done_tasks` is assigned |
| `next`, `fed` | `pending_queue`: the first and the last sample in it |
| `at`, `label`, `spent`, `raised` | `active_tasks` and where each sample is; its `param_version`; tasks that ended and were not collected |
| `cancelQueue`, `queue` | `cancel_queue`; the deque of `MessageQueue` |
| `paused`, `trigger`, `running`, `staleness`, `paramVersion` | `paused`, `monitor_loop_trigger`, `running`, `staleness_samples`, `current_param_version` of the rollouter |
| `lock` | `self.lock`: who holds it and, in their order, who waits |
| `call`, `sum`, `weights`, `cut` | the call of `ParameterSynchronizer` under way, the size it adds up, the version of the weights on the servers, whether the servers are paused |
| `monitor`, `main`, `trainer`, `step`, `version` | where these coroutines are; `local_trigger_step` and `current_param_version` of the trainer |

The rollouter is an actor with one event loop: `Processor`, `Task(s)`, `Monitor`, `Main`
and the remote calls of `Sync` interleave only where an await really waits. From one such
await to the next the processor is `Busy`, and no other coroutine takes the lock. The
lock is FIFO, as `asyncio.Lock` is, and a waiter of the condition queues for it again
when it is notified. The trainer and the queue are actors of their own. A generation is
an action that ends at any time, is interrupted if the servers are paused, or raises (for
the samples in `Fragile`).

Merged or left out: `pause()` clears the caches of the servers in the step that ends it, and
cancels all servers in one step; the monitor's sleep has no length. The feeder is no
actor of its own, as nothing but a full `pending_queue` delays it: it fills the queue
whenever the processor really waits (`Refill`). A processor that submits `PendingSize` samples
in one go empties the queue and waits in `get()` (`WaitPending`); a pause may fall into that
wait, after the check for it. `PendingSize` is 128 in the code. Validation, checkpoints,
statistics and the assembly of batches are left out.

### ArpoBranching: `_generate_sequences_arpo` of `verl/experimental/agent_loop/agent_loop.py`, `arpo_branching.py`

`rollouts` holds for each rollout its prompt, its status (`"queued"` in the branch queue,
`"running"`, `"done"`, `"failed"`, `"collected"`) and its turns: it is the branch queue, the
tasks and `task_meta` together. A rollout is the number of its row, or the next number
after the rows, so numbers stand in the order of registration. `rollout_counts` is the
coordinator's count, `all_outputs` and `outputs_by_sample` the lists the fill-up works
on. Actions: a rollout's `Continue`, `Branch`, `Finish` and `Fail`; the worker's
`Collect` (the ended tasks, then the queued branches), `Raise`, `Group`, `FillOne` and
`Return`. A rollout is one step from await to await; the random draw and the entropy that
decide on a branch are a choice.

What reading the code showed, and the model keeps: a branch is counted when it is queued
and again when it is launched, so the budget is used up faster than branches are made;
tasks that still run when one of them raises are abandoned; and the fill-up takes the first short
prompt, although its comment says the one with the fewest outputs. The model is of one
worker; the manager's split of the batch may put rows of one prompt into two workers, each
with a budget of its own. `AsyncToolScoreAgentLoopWorker` hands `branch_callback` on to a
`run()` that does not look at it, so with that worker no rollout ever branches.

## 4. Runs

| Run | Question | Result |
|---|---|---|
| `index_sharded` | Is a sharded build safe under kills at any step and failing saves, removals, loads and fetches, and does it implement `ResumableBuild`, as long as no files of another build come in? | holds |
| `index_single` | Is a single index complete whatever file operation fails, and do reruns end in an index? | holds |
| `index_stale_partial` | Is no id given twice, if nothing but kills happens? | violated (section 8) |
| `search_service` | Merged batches, failing and retried posts, a stop: is everybody answered with their own rows, does the stop meet no work, and does it return? | holds |
| `search_tool` | Are results aligned with queries, and does every call return, over any service that keeps its promise? | holds |
| `search_tool_blank` | Also if a query is blank? | violated (section 8) |
| `tree_search` | One tree, concurrent chains, two iterations, turns and results of various lengths: K finished leaves, rewards on own tokens | holds |
| `tree_batch` | Two trees at once: unique ids, aligned outputs, the rollout ends | holds |
| `tool_loop` | One trajectory through every limit: are its lists aligned, does the reward fall on a token of the model, does each turn find its score and observation? | holds |
| `async` | Six samples through a queue of three, parameters synchronized meanwhile: samples accounted for and bounded, with `partial_rollout` no weights replaced under a generation, the None not dropped, without `partial_rollout` the stream ends | holds |
| `arpo` | Rollouts that branch, end and fail in any order: budget kept, no branch lost, one output per row, the call ends | holds |
| `arpo_rows` | Does each output come to a row of its prompt? | violated (section 8) |

Bounds, and why they are enough:

- `index_sharded`: 7 documents in batches of 2 or 3 and shards of at least 3 vectors
  give a short last batch, several shards, batches that do not divide a shard, and a
  rerun with another batch size; 3 crashes allow one in the build, one in the rerun
  and one while the second rerun cleans up; 2 failing fetches exceed `MaxBatchRetries`. All
  of `Faults` may fail, so every value of `origin` is reached. `index_stale_partial` has no
  faults and needs two kills: one in the cleanup and one between the two renames.
- `index_single` has a pool of 3 so that results wait for their turn; with
  `CheckpointEvery` = 2 work is lost between checkpoints.
- `search_service`: three requests of 2, 1 and 2 queries with different k, batches of
  4 queries, so that a batch holds two requests or all three, sub-batches
  of 2 that cut through a request, two posts at a time, one retry, two failures. An
  index of two vectors is smaller than a k.
- `search_tool`: calls with an empty query, with too many k, with different k, and with
  only a blank query; three attempts, as a first, a middle and a last one differ.
- `tree_search`: two chains in each of two iterations, so that chains start from the same node
  and later ones from nodes of earlier ones; up to three turns; turns of 0 or 2 tokens
  and results of 1, within 6 tokens, so that a response may be exactly full. K = 4 of
  the 5 leaves leaves a choice. `tree_batch`: two trees and the
  shared counter; one iteration each.
- `tool_loop`: a response of 8 tokens, four turns, answers of any length that fits and
  results of 1 or 3 tokens, so that runs end at the response length, exactly or past it, at
  the number of turns, and with interactions also at the context of the model. The
  limits on turns are equal, as in most configurations, so that of the user never comes first.
  Up to 3 calls where 2 are allowed, so that some are cut off; prompts
  shorter than their limit and as long.
- `async`: training steps of 2 samples with a synchronization after each, so that there
  are three steps and three synchronizations. `MaxRequired` = 3 is no multiple of 2, so
  the queue fills in the middle of a step; two tasks at a time; one sample that may
  raise; `partial_rollout` on and off. The stream is finite, and nothing counts without end.
  `SyncSteps` is 1, so `step` stays 1 here; other values are covered by the
  proofs only. `pending_queue` holds 2, no more than the tasks allowed, so that the
  processor waits for the feeder and a pause may fall into this wait. The code has 128 there;
  where fewer tasks are allowed than that, no wait occurs, and `ProcessorNeverUnbound`
  excludes the unbound `done_tasks` without condition.
- `arpo`: two prompts of three rows, one rollout started for each, beams of 2 within a
  budget of 3, and rollouts of up to three turns: rollouts of both prompts branch at either
  boundary, end, fail and are collected in any order. One beam uses the budget up, so a
  branch that branches, and a beam that the budget cuts, do not occur; for these
  `BudgetHolds` and `NoBranchIsLost` are proved (section 6). `arpo_rows`: the
  same with two turns, which suffice.

`CHECK_DEADLOCK FALSE` is set where builds, calls, rollouts and the service do
end. In `async` deadlock is checked: the only state in which it may stop is the one
where trainer, main coroutine, monitor and tasks have all ended (`Over`).

## 5. Fairness

- `IndexBuild!FairSpec`: `WF(Work)`, a process that is not killed goes on, and fetches
  end (they have a timeout); `WF(Start)`, the operator reruns a build that ended early,
  which is what the checkpoint is for. Crashes and fetch errors are bounded, not
  prevented.
- `SearchService!FairSpec`: `WF(Work)`, the event loop keeps running what is ready, the
  window has a timer, and posts and FAISS calls end (the posts have a total timeout).
  Nothing is assumed of arrivals or of the stop. It is one weak fairness condition for
  the loop as a whole: in a behaviour that goes on forever something else would have to
  happen infinitely often, and every action uses up posts, phases or failures.
- `SearchTool!FairSpec`: `WF(Execute(c))` for each call, since each post has a timeout and each
  back-off a timer. The service is not assumed to answer.
- `TreeSearch!FairSpec`: `WF(Grow(t))` for each tree, since the LLM and the search tool answer
  or fail; `WF(Collect)`, the event loop resumes `gather()`. The one `Start` is not forced.
- `FullyAsync!FairSpec`: `WF` of the processor, the monitor, the main coroutine, the
  trainer, and the task of each sample, since ready coroutines run, remote calls return
  and generations end. `SF(Sync)`: a call of the synchronizer is delayed while the
  processor does not give up the event loop, so it is not enabled all the time, but the loop
  runs a ready coroutine again and again. That a generation raises is never forced.
- `ArpoBranching!FairSpec`: `WF(Next)`. Every step is progress towards a bound: a rollout
  has at most `MaxTurns` turns and a prompt a budget, so no step can delay another forever.
- `ToolAgentLoop` has none: its properties are safety.

## 6. Proofs

All theorems are checked by TLAPS for every value of the constants that the named
assumptions allow.

**`IndexBuildProofs`** proves `TypeCorrect`, `AlwaysRecoverable`,
`FinishedIndexComplete`, `NoBatchLost`, `BoundaryAdvances` and `BuilderImplementsPromise`.
None of the properties is inductive: that the index is complete at the end rests on
what every step before has kept. The invariant `IInv` therefore says
of each moment: what is on disk is a prefix of the corpus with the metadata for it,
as far as `origin` lets it be (`DiskInv`); the open index and the shards before it are
counted right (`IndexInv`), and hold exactly their documents unless files were mixed
(`ContentInv`); batches between
`next_add_idx` and `next_batch_idx` are in the pool or waiting (`PoolInv`); and what
each phase of a save, a flush or the cleanup may rely on (`PhaseInv`, `StaleInv`). The proof has a
lemma for each action, and lemmas on slices of the corpus. The theorems are about every set
of failing file operations and kills at every step. What they cannot claim after a resume
took a stale `partial.faiss`, or the record of another build, is excepted in the
properties by `origin`, and the run `index_stale_partial` shows that the exception is
needed: the code may then give an id twice.

**`SearchServiceProofs`** proves `NoLostFuture`,
`StopFindsStagesEmpty`, `ServiceTyped` and `EachAnsweredAlone`. The first two
need `FutureInv`: besides the equation between who waits and who is queued, that
the server has stopped serving only when nobody waits, and that a loop is cancelled only
after that, so that a cancellation never meets a batch. `ServiceTyped` is for a finite set of
requests, since it bounds the number of batches by theirs: `FlushInv` counts the
requests whose batch has ended (`Past`), and each batch adds one to them at least.

`EachAnsweredAlone` is the refinement of `SearchPromise`. `OwnRows` says what a request
has got: after the first stage the vectors of its queries, after the second, for
each query, the documents nearest to it. It is inductive because of four facts
about lists of any length. The pieces into which the embedder cuts a batch, joined
again, are the batch (`EmbeddingsInOrder`, from `PiecesJoin`). The slice that begins where
the requests before *r* end is the list of *r* (`OwnSlice`, from `SliceOfJoin`). A row searched
with the largest k of the batch and cut to a smaller one is the row for the smaller one
(`NearestCut`, `MergedTopKFacts`). The filled places of a row come first (`ListedHits`). Every
step of the service is then a step of `SearchPromise` or a stutter (`PromiseStep`): the
end of a failed call is one `Fail` for all the requests of its batch.

**`SearchToolProofs`** proves `AcceptedByServer`, `ResultsWithoutBlank`, `ResultsAligned` and
`TriesBounded`.
The invariant relates the attempts of a call to where it is (`CallInv`), and says that an
answer is what `SearchPromise` gives to the queries and the k of that attempt (`AnswerInv`).
The rest is what filtering does: a call without a blank query posts all it kept, and
the server drops nothing, so positions agree and the padding adds nothing.
`ResultsWithoutBlank` says this for each call, whatever else runs; `ResultsAligned` is the checked
property, under the hypothesis that no call mixes blank with proper queries. Without
it the property is false, as the run `search_tool_blank` shows. `TriesBounded` gives each
call a number, `Tries`, of at most `2 * MaxAttempts`, which each of its own steps makes
smaller and no step of the service or of another call changes: a late answer to an
abandoned attempt never earns a call another one.

**`TreeSearchProofs`** proves `TreeTypeCorrect`, `SampledLeaves`, `RewardHasToken`,
`UniqueIds`, `OutputsPerRow`, `OutputsFitTrainer` and `SearchIsBounded` from one invariant, `TreeInvariant`. Its heart is a count
(`Counted`): the leaves, plus the chains that have not moved yet, are one more than the
chains that the expansions have started. A chain's first turn adds a leaf below a node
that has children already, and its later turns replace the leaf at its tip.
For that to hold, no two chains may share a leaf (`Apart`), a node with children must be
open (`NodesOK`), and every leaf must be finished or have a chain that works on
it (`Attended`). `SampledLeaves` assumes `1 + ts_n * ts_l >= ts_k` inside the property, as the code
demands in a comment. For the outputs, the order in which the trees are launched, prompt by
prompt, is shown to be the order of the rows, as the trainer puts the repeats of a prompt
next to each other; and joining lists of `ts_k` copies is counted out (`FlattenCopies`).
`OutputsFitTrainer` assumes that `ts_k` is configured: without it `OutputsPerRow` still
holds, but the worker returns 4 outputs per row and the trainer expects 3.
`SearchIsBounded` is the part of termination that needs no fairness: every step but
`Start` and `Collect` moves one tree to a later phase, to a later one of its `ts_l`
iterations, or lets one chain use up what its tip's depth leaves of `max_turns`, while the
chains beside it, which may share that tip or grow below it, lose nothing.

**`FullyAsyncProofs`** proves all the safety properties of `FullyAsync`:
`AsyncTypeCorrect`, `EverySampleAccounted`, `NothingAfterFinish`,
`WeightsReplacedAtRest`, `ProcessorNeverUnbound`, `FreshnessControl` and
`FinishNeverDropped`. Its
invariants build on one another: `LockInv`, who keeps the lock while it waits for others;
`HandInv`, when the processor has a sample in its hand and why it drains; `PlaceInv`,
what each queue holds; `CutInv`, from the cancellation of the servers to their resume
nothing generates; `SurviveInv`, until `done_tasks` is assigned nobody but the processor
has had the lock, so the tasks it waits for are still there; and `CountInv`, the
staleness count is at most one below the samples outstanding, and while
`update_param_version` adds up sizes, the sum already covers what it has looked at. The
last is what makes the bound `MaxRequired + 1` hold although the reset
overwrites increments made meanwhile. `SurviveInv` holds as long as fewer tasks are allowed
than `pending_queue` holds, so that the processor does not wait in `get()` before it has
collected a task (`Supplied`); otherwise the theorem excepts a processor that has not collected
any. `FinishNeverDropped` rests on three more: `LimitInv`, no more tasks than allowed, and
one fewer when the processor has ended; `SyncInv`, the trainer waits during a pause; and
`KeptInv`, the samples behind the None, with the tasks that may still put one, are too few
to fill the queue. Each invariant has one lemma with a step for each
action of `Next`.

**`ArpoBranchingProofs`** proves `TypeCorrect`, `BudgetHolds`, `NoBranchIsLost` and
`OutputsMatchRows`.
`BudgetKept` is not inductive: a branch looks at the coordinator's count, not at the
rollouts. `CountInv` relates the two, and `NumbersInv`, the branches are numbered
without a gap, makes new numbers free, so that the number of rollouts grows by exactly
the branches added.
`OutputsInv` follows the outputs from there. Until the loop ends the list of outputs holds
the collected rollouts, each once (`CollectedInv`). The fill-up pairs outputs with prompts in
different orders, so a group may hold outputs of another prompt; but each output
has one owner, and a prompt owns as many as are grouped under it (`FillInv`). When
no prompt is short, there is an output for every row, and the trim can only remove copies.

**`ToolAgentLoopProofs`** proves `TypeCorrect`, `ListsStayAligned`, `RewardIsCounted`,
`StepsFindTheirData` and `RolloutIsBounded`.
The invariant adds to alignment the shape of the lists in each state: `PromptInv` and
`StartInv` for the beginning, `TurnsInv` for the two counts of turns, `RoomInv`
for the length while the loop goes on, and `LastInv` and `EndInv` for the token that
ends a turn and the response. The argument for the reward: as the context holds a whole prompt and
a whole response (`LengthsAssumption`), no room for an answer means that the response is
full, so a turn that is processed has at least one token; and tool results are
appended only if they leave room for one more. Lemmas on lists that grow by a constant block
carry alignment through the handlers.
For the steps, `BlocksInv` says where each turn stands in the mask, with a gap behind it
unless it is the last, so the runs of ones that the estimators find are the turns
(`TurnsFound`); `AnchorsInv` says how many messages came before each turn; and `ScoresInv` that the
first calls of the turns were scored in the order of the turns, which the stable sort keeps and
puts before all others (`ScoresSorted`).
`RolloutIsBounded` bounds a trajectory by `2 * ResponseLength + 2` handlers when neither
limit of turns is set, as in the default configuration: `Fuel` counts the tokens that the
response has room for and falls with every handler, because an answer that does not end
the trajectory has a token (`GenerateGrows`). This holds with interactions too: their
messages may pass the response length, but the next answer then ends the trajectory.

**`OrderedFacts`** holds the lemmas about lists that several of these proofs use: sorted
sets and their ranks, filtered lists, the concatenation of lists and the place of each in
it, copies, pieces and slices, the largest of a set. Induction over data is done with
`NatInd`, which is about a set of numbers instead of an operator and is derived from
the well-foundedness of `<` on the natural numbers.

## 7. Only model-checked

- Liveness (`EventuallyBuilt`, `EveryoneAnswered`, `StopReturns`, `EveryCallReturns`,
  `RolloutEnds`, `StreamEnds`, `CallEnds`): fairness and `ENABLED` are out of the prover's
  reach. Of `EveryCallReturns` and `RolloutEnds` the part without fairness is proved
  (`TriesBounded`, `SearchIsBounded`, and `RolloutIsBounded` for the agent loop, whose run
  checks no liveness): what stays with the model checker is that the remaining step is
  enabled and gets its turn.
- What the hypotheses of a theorem leave out: `TreeSearch!OutputsAligned` without `ts_k`, and
  `SearchTool!AnswersAligned` for calls that mix blank with proper queries, are false;
  `SearchService!TypeOK` speaks of the number of requests, so its theorem has finitely many.

## 8. Disagreements between the code and what it says

Shown by runs; `PROJECT.json` quotes the lines that say otherwise:

- `index_stale_partial`: the cleanup removes `checkpoint.json` before `partial.faiss`. A
  kill in between leaves the partial index of a finished build. The rerun begins from
  scratch; if it is killed after `checkpoint.json` is renamed and before
  `partial.faiss` is, and the two indexes have the same size, the next resume takes the old
  one for its own. Ids then occur twice, which the docstring of `_load_checkpoint` excludes.
- `search_tool_blank`: the client keeps a query of blanks and the server drops it, so
  the results of the queries behind it are shifted by one.
- `arpo_rows`: outputs are collected in the order in which rollouts end, and the fill-up
  pairs them with prompts in the order of registration, while the trainer unites them
  with its batch row by row.

Limits of the code met while modelling, which no run shows as a violation:

- Index builder: if the last batch fills its shard and the process is killed after the
  checkpoint of that flush, each rerun finds nothing to submit, has no open index, and raises
  `ValueError` (line 480) instead of publishing the shards, though the docstring of
  `_save_checkpoint` promises that the run can be resumed. `EventuallyBuilt` is therefore
  checked with a single index file; a sharded instance in which shards end with the corpus
  violates it.
- Index builder: a removal of `partial.faiss` that fails, at a shard boundary or in the
  cleanup, leaves a stale file in the same way. A checkpoint that cannot be read makes a run
  start from scratch over the shards that it lists; if that run is killed before its first
  save, the next one may resume from the old record with rewritten or truncated shards.
  `index_sharded` explores these cases and excepts them by `origin`.
- Search service: `max` and `np.concatenate` of `_flush_loop` stand outside its `try`; an
  exception there would end the drain loop and leave its futures unresolved. It needs rows
  of different lengths from one backend, which the model takes not to happen. A malformed
  payload of the backend is reported as 400, the client's fault, and not retried.
- Tree search: with `1 + ts_n * ts_l < ts_k` a tree has too few leaves, which is only
  logged; `configs/tree_grpo.yaml` avoids this, and `EnoughExpansions` assumes as much.
  Without `ts_k` the worker samples 4 leaves for each tree and the trainer makes room for 3.
- Fully asynchronous policy: the monitor decides to resume before it takes the lock. If a
  `pause()` holds the lock at that moment, the monitor reopens the rollouter when the pause is
  over, and without `partial_rollout` tasks start and generate while weights are transferred,
  although `fully_async_policy/README.md` (lines 237-238) says that none are added. With
  `partial_rollout` they wait at the paused servers, and `WeightsNotInUse`, which is about that
  mode only, holds.
- Fully asynchronous policy: a processor that has taken `DONE` just before a pause does not return
  to `cancel_queue`, so samples interrupted by that pause are never generated, although the
  same README (lines 246-247) says they are continued. `FinishIsLast` does not see this: it is
  about tasks that are still under way.
- Fully asynchronous policy: with `partial_rollout`, the
  count of `update_param_version` holds interrupted samples twice; if it reaches
  the maximum with nothing in the queue, the rollouter stays paused (`StreamEnds` is
  therefore stated without `partial_rollout`). The bound of `MaxRequired + 1` is
  reached, so a full queue may drop its oldest sample, which the code calls rare; only
  the None is never dropped (`FinishKept`). If at least 128 tasks are allowed, the processor may
  wait in `get()` before it has collected any task, and a pause in that short wait makes
  it use `done_tasks` unbound.
- ARPO: since a branch is counted twice, a prompt gets fewer rollouts than `n_rollouts` by
  branching; the fill-up makes up for them with copies. `BudgetKept` bounds them from above only.
- Tool agent loop: the anchor observations lack the queries of the assistant that the
  docstring of `_build_anchor_obs` promises. Of the scores of parallel calls, those
  beyond the first of a turn stand behind all others, where an answer turn may take one; and
  a missing score would shift those behind it. The reward of IGPO may fall into a block of tool
  results, where `ig_mask` of `core_algos.py` discards it.

## 9. Not modelled

- Server manager (`AsyncLLMServerManager`): an LRU map and a heap without an await
  between reading and writing them. Which server it chooses affects load and prefix
  caches, no result.
- Rate limiter: a token bucket over wall-clock time in real numbers; what can be wrong
  in it is arithmetic of elapsed seconds, which untimed models leave out.
- Step advantages, beyond the pairing of turns with their data: stateless arithmetic on
  real numbers.
- Data preparation and the rest of verl: sequential conversions of files, or framework code,
  tensor arithmetic, GPU collectives and I/O.
- Modules that are imported but not part of the repository at this commit:
  `policy/prompting`, `search_r1_tool_parser`, `custom_tool_executor`,
  `custom_tool_loader`, `src/data/hotpot_local_dataset`. The formats that need them cannot
  run and are left out: so is the branch of `_handle_generating_state` for `search_r1`, which
  cuts the ids of an answer but not its log-probs, as `tool_parser.py` registers only `hermes` and
  `gpt-oss`.
- Within the modelled components: what embeddings and documents contain, loading of corpora
  and models, formatting of prompts and results, images, profiling and logging, reward
  computation and padding of tensors in the tree search, validation and checkpoints of the
  asynchronous trainer, and the split of a batch over several workers.
