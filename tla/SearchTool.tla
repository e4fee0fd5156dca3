----------------------------- MODULE SearchTool -----------------------------
(***************************************************************************)
(* LocalEmbeddingSearchTool of src/policy/tools/local_search.py together   *)
(* with the handler of the search endpoint, which normalises the request   *)
(* once more.  The service behind the handler is taken by its promise,     *)
(* SearchPromise, which SearchService implements.                          *)
(*                                                                         *)
(* A call is posted up to MaxAttempts times; attempt a of call c is the    *)
(* request <<c, a>>.  The argument k is the sequence of its numbers: empty *)
(* for none, one number for an integer.                                    *)
(***************************************************************************)
EXTENDS Integers, Sequences, FiniteSets, Ordered

CONSTANTS
  Calls,         \* tool calls, each executed once
  Asked,         \* Asked[c] : argument query_list, a sequence of strings
  KArg,          \* KArg[c] : argument k, a sequence of integers
  DefaultK,      \* topk_default
  MaxAttempts,   \* max_retries of async_retry: number of attempts
  IndexSize      \* number of vectors in the index

ASSUME ToolAssumption ==
  /\ DefaultK \in Nat \ {0} /\ MaxAttempts \in Nat \ {0} /\ IndexSize \in Nat
  /\ \A c \in Calls : Asked[c] \in Seq(STRING) /\ KArg[c] \in Seq(Int)

VARIABLES
  status, reply,   \* of the service, see SearchPromise
  call,            \* call[c] : where the execution of call c is
  attempt,         \* attempt[c] : number of posts so far
  result           \* result[c] : what the tool returned

service == <<status, reply>>
vars == <<service, call, attempt, result>>

-----------------------------------------------------------------------------
(* Normalisation. *)

\* The client keeps every string that is not empty, the server strips first.
Kept(queries, dropped) ==
  Picked(queries, {i \in DOMAIN queries : queries[i] \notin dropped})

ClientQueries(c) == Kept(Asked[c], {""})
ServerQueries(c) == Kept(ClientQueries(c), {"", " "})

\* _normalize_k_list for n queries; <<>> if the argument is refused.
KList(k, n) ==
  IF k = <<>> THEN [i \in 1 .. n |-> DefaultK]
  ELSE IF Len(k) \notin {1, n} \/ \E i \in 1 .. Len(k) : k[i] <= 0 THEN <<>>
  ELSE [i \in 1 .. n |-> k[IF Len(k) = 1 THEN 1 ELSE i]]

\* Mutant: the k list is compared with the queries before empty ones are dropped.
RawKs(c) == KList(KArg[c], Len(Asked[c]))

ClientKs(c) == KList(KArg[c], Len(ClientQueries(c)))

\* Mutant: only the first number is sent.
SendFirstK(c) == <<ClientKs(c)[1]>>

\* One number is sent when all are equal.
SentK(c) ==
  IF \A i \in 1 .. Len(ClientKs(c)) : ClientKs(c)[i] = ClientKs(c)[1]
    THEN <<ClientKs(c)[1]>> ELSE ClientKs(c)

ServerKs(c) == KList(SentK(c), Len(ServerQueries(c)))

Requests == Calls \X (1 .. MaxAttempts)

Service == INSTANCE SearchPromise WITH
  Queries <- [r \in Requests |-> ServerQueries(r[1])],
  Ks <- [r \in Requests |-> ServerKs(r[1])]

\* _normalize_results: rows are missing at the end or surplus.
Padded(rows, n) == [i \in 1 .. n |-> IF i <= Len(rows) THEN rows[i] ELSE <<>>]

Cut(row, k) == SubSeq(row, 1, IF k <= Len(row) THEN k ELSE Len(row))

-----------------------------------------------------------------------------
Init ==
  /\ Service!Init
  /\ call = [c \in Calls |-> "new"]
  /\ attempt = [c \in Calls |-> 0]
  /\ result = [c \in Calls |-> <<>>]

End(c, how) == call' = [call EXCEPT ![c] = how]

\* Malformed arguments are answered without a request.
RefuseArguments(c) ==
  /\ call[c] = "new"
  /\ \/ ClientQueries(c) = <<>> /\ End(c, "invalid_query")
     \/ ClientQueries(c) # <<>> /\ ClientKs(c) = <<>> /\ End(c, "invalid_k")
  /\ UNCHANGED <<service, attempt, result>>

MayPost(c) ==
  \/ call[c] = "new" /\ ClientQueries(c) # <<>> /\ ClientKs(c) # <<>>
  \/ call[c] = "backoff"

\* The request reaches the service, or the connection fails on the way.
Post(c) ==
  /\ MayPost(c)
  /\ ServerQueries(c) # <<>> /\ ServerKs(c) # <<>>
  /\ End(c, "posted")
  /\ attempt' = [attempt EXCEPT ![c] = @ + 1]
  /\ Service!Ask(<<c, attempt'[c]>>) \/ UNCHANGED service
  /\ UNCHANGED result

\* The handler finds no query left, or another number of them than of k: 400.
PostRefused(c) ==
  /\ MayPost(c)
  /\ ServerQueries(c) = <<>> \/ ServerKs(c) = <<>>
  /\ End(c, "api_error")
  /\ attempt' = [attempt EXCEPT ![c] = @ + 1]
  /\ UNCHANGED <<service, result>>

Awaits(c, answer) ==
  /\ call[c] = "posted"
  /\ status[<<c, attempt[c]>>] = answer

Succeed(c) ==
  /\ Awaits(c, "answered")
  /\ End(c, "success")
  /\ LET rows == Padded(reply[<<c, attempt[c]>>], Len(ClientQueries(c))) IN
     result' = [result EXCEPT ![c] =
                  [i \in 1 .. Len(rows) |-> Cut(rows[i], ClientKs(c)[i])]]
  /\ UNCHANGED <<service, attempt>>

\* A client error (400) is not retried.
ClientError(c) ==
  /\ Awaits(c, "invalid")
  /\ End(c, "api_error")
  /\ UNCHANGED <<service, attempt, result>>

\* Mutant: a timeout is not taken for a retryable error.
RetryErrorsOnly(c) ==
  /\ Awaits(c, "error")
  /\ End(c, IF attempt[c] < MaxAttempts THEN "backoff" ELSE "api_error")
  /\ UNCHANGED <<service, attempt, result>>

\* A server error, a connection error or a timeout: the service may still be
\* working on the request.
Retryable(c) ==
  /\ call[c] = "posted"
  /\ status[<<c, attempt[c]>>] \in {"idle", "pending", "error"}
  /\ End(c, IF attempt[c] < MaxAttempts THEN "backoff" ELSE "api_error")
  /\ UNCHANGED <<service, attempt, result>>

Execute(c) ==
  \/ RefuseArguments(c) \/ Post(c) \/ PostRefused(c)
  \/ Succeed(c) \/ ClientError(c) \/ Retryable(c)

\* The service goes on with every request it has, abandoned ones included.
Serve ==
  /\ \/ \E r \in Requests : Service!Answer(r)
     \/ \E S \in SUBSET Requests \ {{}}, kind \in {"error", "invalid"} : Service!Fail(S, kind)
  /\ UNCHANGED <<call, attempt, result>>

Next == (\E c \in Calls : Execute(c)) \/ Serve

Spec == Init /\ [][Next]_vars

\* The client makes progress, by its timeout if need be; the service need not.
FairSpec == Spec /\ \A c \in Calls : WF_vars(Execute(c))

-----------------------------------------------------------------------------
(* Properties. *)

Returned == {"success", "invalid_query", "invalid_k", "api_error"}

\* Row i of a successful call holds the documents nearest to its query i, as
\* many as it asked for: client and server agree on what the queries are.
AnswersAligned ==
  \A c \in Calls : call[c] = "success" =>
    \A i \in 1 .. Len(ClientQueries(c)) :
      ClientQueries(c)[i] # " " =>
        result[c][i] = Service!Hits(ClientQueries(c)[i], ClientKs(c)[i])

\* If the tool accepts its arguments, and no query is blank, the server does not
\* refuse the call: a failure in the service is all that ends it early.
AcceptedArguments ==
  \A c \in Calls :
    /\ call[c] = "api_error" /\ attempt[c] < MaxAttempts
    /\ \A i \in 1 .. Len(Asked[c]) : Asked[c][i] # " "
    => status[<<c, attempt[c]>>] = "invalid"

\* Every call returns to the agent loop, even if the service never answers.
EveryCallReturns == \A c \in Calls : <>(call[c] \in Returned)

=============================================================================
