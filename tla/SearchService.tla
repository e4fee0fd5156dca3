--------------------------- MODULE SearchService ---------------------------
(***************************************************************************)
(* The search service of src/policy/tools/embedding_search_service.py: an  *)
(* event loop on which a handler runs per request and two drain loops, one *)
(* per stage, merge the work of concurrent requests.  Stage "embed" is     *)
(* DynamicBatchingEmbedder, which splits its batch into posts to the       *)
(* embedding backend; stage "search" is DynamicBatchingFAISSSearcher,      *)
(* which makes one call of FAISS in an executor thread.  A step of the     *)
(* model is what runs between two awaits.                                  *)
(*                                                                         *)
(* The embedding of a query is the query, and <<q, j>> is the j-th nearest *)
(* document of query q.  Loops: "get" awaits the first item, "window" more *)
(* of them, "calling" the backend or FAISS, "ended" has returned.          *)
(***************************************************************************)
EXTENDS Integers, Sequences, FiniteSets, SequencesExt, Ordered

CONSTANTS
  Requests,         \* requests, each sent once
  Queries,          \* Queries[r] : the non-blank queries of request r
  Ks,               \* Ks[r] : how many documents each of them asks for
  IndexSize,        \* number of vectors in the index
  MaxBatch,         \* MaxBatch[s] : batch_max_queries, faiss_batch_max_vectors
  EmbedBatchSize,   \* embed_batch_size, queries per post
  MaxConcurrent,    \* vllm_max_concurrent_batches
  MaxRetries,       \* max_retries of a post
  MaxFailures       \* bound: failed posts and FAISS calls in a behaviour

Stages == {"embed", "search"}

ASSUME RequestsAssumption ==
  \A r \in Requests :
    /\ Queries[r] \in Seq(STRING) /\ Len(Queries[r]) > 0
    /\ Ks[r] \in [1 .. Len(Queries[r]) -> Nat \ {0}]
ASSUME BatchAssumption ==
  /\ MaxBatch \in [Stages -> Nat \ {0}]
  /\ EmbedBatchSize \in Nat \ {0} /\ MaxConcurrent \in Nat \ {0}
ASSUME BoundAssumption == IndexSize \in Nat /\ MaxRetries \in Nat /\ MaxFailures \in Nat

VARIABLES
  phase,       \* of the handler of each request
  embedded,    \* rows returned to it by embed()
  found,       \* rows returned to it by the FAISS batcher
  answer,      \* rows of its response
  queue, items, loop,   \* per stage: the queue, the batch, the drain loop
  cancelled,   \* per stage: stop() has cancelled the task of the loop
  flush,       \* number of embedding batches so far
  posts,       \* posts to the backend that have not been consumed
  app,         \* the lifespan of the app
  failures

stages == <<queue, items, loop, cancelled>>
backend == <<flush, posts>>
vars == <<phase, embedded, found, answer, stages, backend, app, failures>>

Phases == {"idle", "embedding", "embedded", "searching", "found", "answered",
           "error", "invalid"}
Ended == {"idle", "answered", "error", "invalid"}

-----------------------------------------------------------------------------
(* Batches. *)

Smaller(m, n) == IF m <= n THEN m ELSE n

Size(r) == Len(Queries[r])

\* All queries of a batch, and where those of its j-th request begin.
AllQueries(its) == FlattenSeq([j \in 1 .. Len(its) |-> Queries[its[j]]])

\* Mutant: offsets count requests instead of queries.
OffsetByRequest(its, j) == j - 1

Offset(its, j) == Len(AllQueries(SubSeq(its, 1, j - 1)))

Total(its) == Len(AllQueries(its))

\* The sub-batches that are posted, and their results joined in that order.
SubBatches(qs) ==
  [p \in 1 .. (Len(qs) + EmbedBatchSize - 1) \div EmbedBatchSize |->
     SubSeq(qs, (p - 1) * EmbedBatchSize + 1, Smaller(p * EmbedBatchSize, Len(qs)))]

AllEmbeddings(its) == FlattenSeq(SubBatches(AllQueries(its)))

\* faiss.search of vector q: -1, here <<>>, fills up a row when the index is small.
Missing == <<>>
Nearest(q, k) == [j \in 1 .. k |-> IF j <= IndexSize THEN <<q, j>> ELSE Missing]

TopK(r) == Max(ToSet(Ks[r]))

\* Mutant: the batch is searched with the k of its first request.
FirstTopK(its) == TopK(its[1])

MergedTopK(its) == Max({TopK(r) : r \in ToSet(its)})

-----------------------------------------------------------------------------
Init ==
  /\ phase = [r \in Requests |-> "idle"]
  /\ embedded = [r \in Requests |-> <<>>]
  /\ found = [r \in Requests |-> <<>>]
  /\ answer = [r \in Requests |-> <<>>]
  /\ queue = [s \in Stages |-> <<>>]
  /\ items = [s \in Stages |-> <<>>]
  /\ loop = [s \in Stages |-> "get"]
  /\ cancelled = [s \in Stages |-> FALSE]
  /\ flush = 0
  /\ posts = {}
  /\ app = "serving"
  /\ failures = 0

(* The handler of a request: search() of the service. *)

Enter(r, from, to, s) ==
  /\ phase[r] = from
  /\ phase' = [phase EXCEPT ![r] = to]
  /\ queue' = [queue EXCEPT ![s] = Append(@, r)]
  /\ UNCHANGED <<embedded, found, answer, items, loop, cancelled, backend, app, failures>>

\* A request arrives and calls embed(), which queues it.
Arrive(r) == app = "serving" /\ Enter(r, "idle", "embedding", "embed")

\* It got its vectors and calls the search() of the FAISS batcher.
EnterSearch(r) == Enter(r, "embedded", "searching", "search")

\* The documents of a row; the places that the index could not fill are left out.
Listed(row) == Picked(row, {j \in DOMAIN row : row[j] # Missing})

\* Each row is cut to the k of its query.
Respond(r) ==
  /\ phase[r] = "found"
  /\ phase' = [phase EXCEPT ![r] = "answered"]
  /\ answer' = [answer EXCEPT ![r] =
       [i \in 1 .. Len(found[r]) |->
          Listed(SubSeq(found[r][i], 1, Smaller(Ks[r][i], Len(found[r][i]))))]]
  /\ UNCHANGED <<embedded, found, stages, backend, app, failures>>

-----------------------------------------------------------------------------
(* The drain loops: collecting a batch. *)

\* The posts of a batch: all are started at once, and wait for the semaphore.
NewPosts(its) ==
  {[flush |-> flush + 1, part |-> p, attempt |-> 0, at |-> "waiting"] :
     p \in 1 .. Len(SubBatches(AllQueries(its)))}

\* The batch of stage s is full or its window is over: the call begins.  The
\* search stage joins the vectors first, which cannot fail as those of one
\* backend and one configuration have the same length.
Call(s, its) ==
  /\ loop' = [loop EXCEPT ![s] = "calling"]
  /\ IF s = "embed"
       THEN flush' = flush + 1 /\ posts' = posts \cup NewPosts(its)
       ELSE UNCHANGED backend

Collect(s, its) ==
  /\ items' = [items EXCEPT ![s] = its]
  /\ queue' = [queue EXCEPT ![s] = Tail(@)]
  /\ IF Total(its) < MaxBatch[s]
       THEN loop' = [loop EXCEPT ![s] = "window"] /\ UNCHANGED backend
       ELSE Call(s, its)
  /\ UNCHANGED <<phase, embedded, found, answer, cancelled, app, failures>>

TakeFirst(s) ==
  /\ loop[s] = "get" /\ ~cancelled[s] /\ queue[s] # <<>>
  /\ Collect(s, <<Head(queue[s])>>)

TakeMore(s) ==
  /\ loop[s] = "window" /\ ~cancelled[s] /\ queue[s] # <<>>
  /\ Collect(s, Append(items[s], Head(queue[s])))

\* The window times out; a cancellation ends it in the same way and is lost.
CloseWindow(s) ==
  /\ loop[s] = "window"
  /\ cancelled' = [cancelled EXCEPT ![s] = FALSE]
  /\ Call(s, items[s])
  /\ UNCHANGED <<phase, embedded, found, answer, queue, items, app, failures>>

-----------------------------------------------------------------------------
(* Posting to the embedding backend. *)

Sending == {p \in posts : p.at \in {"sent", "backoff"}}
Current == {p \in posts : p.flush = flush}

\* A post gets the semaphore; one that a failed batch left behind may hold it.
Send(p) ==
  /\ p.at = "waiting"
  /\ Cardinality(Sending) < MaxConcurrent
  /\ posts' = (posts \ {p}) \cup {[p EXCEPT !.at = "sent"]}
  /\ UNCHANGED <<phase, embedded, found, answer, stages, flush, app, failures>>

PostSucceeds(p) ==
  /\ p.at = "sent"
  /\ posts' = (posts \ {p}) \cup {[p EXCEPT !.at = "ok"]}
  /\ UNCHANGED <<phase, embedded, found, answer, stages, flush, app, failures>>

\* Mutant: the number of attempts is not checked.
BackOffAlways(p) ==
  /\ p.at = "sent"
  /\ failures < MaxFailures
  /\ failures' = failures + 1
  /\ posts' = (posts \ {p}) \cup {[p EXCEPT !.at = "backoff", !.attempt = @ + 1]}
  /\ UNCHANGED <<phase, embedded, found, answer, stages, flush, app>>

\* A timeout, a connection error or a retryable status: sleep, with the
\* semaphore held, and send it again.
PostBacksOff(p) ==
  /\ p.at = "sent"
  /\ failures < MaxFailures
  /\ p.attempt < MaxRetries
  /\ failures' = failures + 1
  /\ posts' = (posts \ {p}) \cup {[p EXCEPT !.at = "backoff", !.attempt = @ + 1]}
  /\ UNCHANGED <<phase, embedded, found, answer, stages, flush, app>>

Resend(p) ==
  /\ p.at = "backoff"
  /\ posts' = (posts \ {p}) \cup {[p EXCEPT !.at = "sent"]}
  /\ UNCHANGED <<phase, embedded, found, answer, stages, flush, app, failures>>

\* The last attempt fails, or another status ("error"); or the payload has
\* not one embedding per query, a ValueError ("invalid").
PostFails(p, kind) ==
  /\ p.at = "sent"
  /\ failures < MaxFailures
  /\ failures' = failures + 1
  /\ posts' = (posts \ {p}) \cup {[p EXCEPT !.at = kind]}
  /\ UNCHANGED <<phase, embedded, found, answer, stages, flush, app>>

-----------------------------------------------------------------------------
(* The drain loops: the end of a call. *)

Return(s, outcome) ==
  /\ phase' = [r \in Requests |-> IF r \in ToSet(items[s]) THEN outcome ELSE phase[r]]
  /\ items' = [items EXCEPT ![s] = <<>>]
  /\ loop' = [loop EXCEPT ![s] = "get"]
  /\ UNCHANGED <<answer, queue, cancelled, flush, app>>

\* The rows of `all` that belong to the j-th request of the batch.
RowsOf(all, its, j) == SubSeq(all, Offset(its, j) + 1, Offset(its, j) + Size(its[j]))

\* The position of request r in a batch.
At(its, r) == CHOOSE j \in 1 .. Len(its) : its[j] = r

EmbedReturns ==
  /\ loop["embed"] = "calling" /\ ~cancelled["embed"]
  /\ \A p \in Current : p.at = "ok"
  /\ posts' = posts \ Current
  /\ LET its == items["embed"] IN
     embedded' = [r \in Requests |->
       IF r \in ToSet(its) THEN RowsOf(AllEmbeddings(its), its, At(its, r)) ELSE embedded[r]]
  /\ Return("embed", "embedded")
  /\ UNCHANGED <<found, failures>>

\* Mutant: the exception is logged, but set on no future.
EmbedFailsSilently ==
  /\ loop["embed"] = "calling" /\ ~cancelled["embed"]
  /\ \E p \in Current : p.at \in {"error", "invalid"}
  /\ posts' = {p \in posts : p.at \notin {"error", "invalid", "ok"}}
  /\ items' = [items EXCEPT !["embed"] = <<>>]
  /\ loop' = [loop EXCEPT !["embed"] = "get"]
  /\ UNCHANGED <<phase, embedded, found, answer, queue, cancelled, flush, app, failures>>

\* gather() raises the first failure; the other posts of the batch go on.
EmbedFails ==
  /\ loop["embed"] = "calling" /\ ~cancelled["embed"]
  /\ \E p \in Current : p.at \in {"error", "invalid"} /\ Return("embed", p.at)
  /\ posts' = {p \in posts : p.at \notin {"error", "invalid", "ok"}}
  /\ UNCHANGED <<embedded, found, failures>>

\* A post left over from a failed batch ends; nobody awaits its result.
Abandoned(p) ==
  /\ p.at \in {"ok", "error", "invalid"}
  /\ p.flush # flush \/ loop["embed"] # "calling"
  /\ posts' = posts \ {p}
  /\ UNCHANGED <<phase, embedded, found, answer, stages, flush, app, failures>>

SearchReturns ==
  /\ loop["search"] = "calling" /\ ~cancelled["search"]
  /\ LET its == items["search"]
         vectors == FlattenSeq([j \in 1 .. Len(its) |-> embedded[its[j]]])
         rows == [i \in 1 .. Len(vectors) |-> Nearest(vectors[i], MergedTopK(its))]
     IN found' = [r \in Requests |->
          IF r \in ToSet(its)
            THEN [i \in 1 .. Size(r) |->
                    SubSeq(RowsOf(rows, its, At(its, r))[i], 1,
                           Smaller(TopK(r), MergedTopK(its)))]
            ELSE found[r]]
  /\ Return("search", "found")
  /\ UNCHANGED <<embedded, posts, failures>>

SearchFails ==
  /\ loop["search"] = "calling" /\ ~cancelled["search"]
  /\ failures < MaxFailures
  /\ failures' = failures + 1
  /\ Return("search", "error")
  /\ UNCHANGED <<embedded, found, posts>>

-----------------------------------------------------------------------------
(* Stopping: the lifespan of the app, and stop() of the batchers. *)

Quiet == \A r \in Requests : phase[r] \in Ended

\* Mutant: the server does not wait for the requests it serves.
StopAtOnce ==
  /\ app = "serving"
  /\ app' = "stopping_search"
  /\ cancelled' = [cancelled EXCEPT !["search"] = TRUE]
  /\ UNCHANGED <<phase, embedded, found, answer, queue, items, loop, backend, failures>>

\* uvicorn has no timeout for the requests it serves: it waits for them.  So
\* a cancellation never meets a call, which it would end for its requests.
BeginStop ==
  /\ app = "serving"
  /\ Quiet
  /\ app' = "stopping_search"
  /\ cancelled' = [cancelled EXCEPT !["search"] = TRUE]
  /\ UNCHANGED <<phase, embedded, found, answer, queue, items, loop, backend, failures>>

\* The cancellation reaches the loop while it waits for a first item: it returns.
CancelAtGet(s) ==
  /\ loop[s] = "get" /\ cancelled[s]
  /\ loop' = [loop EXCEPT ![s] = "ended"]
  /\ UNCHANGED <<phase, embedded, found, answer, queue, items, cancelled, backend, app,
                 failures>>

SearchStopped ==
  /\ app = "stopping_search" /\ loop["search"] = "ended"
  /\ app' = "stopping_embed"
  /\ cancelled' = [cancelled EXCEPT !["embed"] = TRUE]
  /\ UNCHANGED <<phase, embedded, found, answer, queue, items, loop, backend, failures>>

\* The session is closed, which ends the posts still under way.
EmbedStopped ==
  /\ app = "stopping_embed" /\ loop["embed"] = "ended"
  /\ app' = "stopped"
  /\ posts' = {}
  /\ UNCHANGED <<phase, embedded, found, answer, stages, flush, failures>>

-----------------------------------------------------------------------------
Handler(r) == EnterSearch(r) \/ Respond(r)

Drain(s) == TakeFirst(s) \/ TakeMore(s) \/ CloseWindow(s)

Post(p) ==
  \/ Send(p) \/ PostSucceeds(p) \/ PostBacksOff(p) \/ Resend(p) \/ Abandoned(p)
  \/ \E kind \in {"error", "invalid"} : PostFails(p, kind)

Returns == EmbedReturns \/ EmbedFails \/ SearchReturns \/ SearchFails

Stopping ==
  \/ \E s \in Stages : CancelAtGet(s)
  \/ SearchStopped \/ EmbedStopped

Work ==
  \/ \E r \in Requests : Handler(r)
  \/ \E s \in Stages : Drain(s)
  \/ \E p \in posts : Post(p)
  \/ Returns
  \/ Stopping

Next == (\E r \in Requests : Arrive(r)) \/ BeginStop \/ Work

Spec == Init /\ [][Next]_vars

\* The event loop runs every task that is ready, timers expire, and posts and
\* FAISS calls end; requests and the stop come when they come.
FairSpec == Spec /\ WF_vars(Work)

-----------------------------------------------------------------------------
(* Properties. *)

\* Every variable holds a value of the kind the service keeps in it.
TypeOK ==
  /\ phase \in [Requests -> Phases]
  /\ queue \in [Stages -> Seq(Requests)]
  /\ items \in [Stages -> Seq(Requests)]
  /\ loop \in [Stages -> {"get", "window", "calling", "ended"}]
  /\ cancelled \in [Stages -> BOOLEAN]
  /\ flush \in 0 .. Cardinality(Requests)
  /\ posts \subseteq [flush : 1 .. flush, part : Nat \ {0}, attempt : 0 .. MaxRetries,
                      at : {"waiting", "sent", "backoff", "ok", "error", "invalid"}]
  /\ app \in {"serving", "stopping_search", "stopping_embed", "stopped"}
  /\ failures \in 0 .. MaxFailures

\* A request that waits for a stage is in the batch or in the queue of that
\* stage, in one place only, and nobody else is; a loop has a batch just when
\* it collects or calls.  So no future is ever dropped or resolved twice.
NobodyForgotten ==
  \A s \in Stages :
    LET all == items[s] \o queue[s] IN
    /\ {r \in Requests : phase[r] = IF s = "embed" THEN "embedding" ELSE "searching"}
         = ToSet(all)
    /\ \A i, j \in 1 .. Len(all) : all[i] = all[j] => i = j
    /\ items[s] # <<>> <=> loop[s] \in {"window", "calling"}

\* stop() cancels a drain loop when nothing is left for it to do: in the window
\* the cancellation would be lost and stop() would hang; in a call it would end
\* the loop and leave the futures of the batch pending.
StopMeetsNobody ==
  \A s \in Stages : cancelled[s] => items[s] = <<>> /\ queue[s] = <<>>

\* Merged with others in two stages, split into posts that fail and are
\* retried, every request is still answered as if it were alone, or fails.
Promise == INSTANCE SearchPromise WITH
  status <- [r \in Requests |-> IF phase[r] \in Ended THEN phase[r] ELSE "pending"],
  reply <- answer

ImplementsPromise == Promise!Spec

\* A request is answered or fails in the end, whatever batches it shares.
EveryoneAnswered ==
  \A r \in Requests : phase[r] = "embedding" ~> phase[r] \in {"answered", "error", "invalid"}

\* stop() of both batchers returns.
StopReturns == (app = "stopping_search") ~> (app = "stopped")

=============================================================================
