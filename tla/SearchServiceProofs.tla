------------------------ MODULE SearchServiceProofs ------------------------
(***************************************************************************)
(* Proofs about SearchService, for any requests, batch sizes and failures: *)
(* no request is ever forgotten between the two stages, stopping meets no  *)
(* work, every variable keeps its type, and the service refines            *)
(* SearchPromise: each request is answered as if it were alone, or fails.  *)
(***************************************************************************)
EXTENDS SearchService, OrderedFacts

-----------------------------------------------------------------------------
(* Sequences: the batch of a stage followed by its queue. *)

Distinct(all) == \A i, j \in 1 .. Len(all) : all[i] = all[j] => i = j

LEMMA QueueGrows ==
  ASSUME NEW R, NEW its \in Seq(R), NEW q \in Seq(R), NEW r \in R,
         Distinct(its \o q), r \notin ToSet(its \o q)
  PROVE  /\ ToSet(its \o Append(q, r)) = ToSet(its \o q) \cup {r}
         /\ Distinct(its \o Append(q, r))
<1> DEFINE all == its \o q
<1>1. its \o Append(q, r) = Append(all, r) /\ all \in Seq(R)
  OBVIOUS
<1> HIDE DEF all
<1>2. /\ Len(Append(all, r)) = Len(all) + 1 /\ Len(all) \in Nat
      /\ DOMAIN Append(all, r) = 1 .. Len(all) + 1 /\ DOMAIN all = 1 .. Len(all)
      /\ \A i \in 1 .. Len(all) : Append(all, r)[i] = all[i]
      /\ Append(all, r)[Len(all) + 1] = r
  BY <1>1
<1> DEFINE more == Append(all, r)
           n == Len(all)
<1>3. ToSet(more) = ToSet(all) \cup {r}
  <2>1. /\ ToSet(more) = {more[i] : i \in 1 .. n + 1}
        /\ ToSet(all) = {more[i] : i \in 1 .. n}
    BY <1>2 DEF ToSet
  <2>2. 1 .. n + 1 = 1 .. n \cup {n + 1} /\ more[n + 1] = r
    BY <1>2
  <2> HIDE DEF more, n
  <2> QED
    BY <2>1, <2>2, Zenon
<1>4. \A i \in 1 .. Len(all) : all[i] # r
  BY <1>2 DEF ToSet, all
<1>5. Distinct(all)
  BY DEF all
<1>6. Distinct(more)
  <2> SUFFICES ASSUME NEW i \in 1 .. n + 1, NEW j \in 1 .. n + 1, more[i] = more[j]
               PROVE  i = j
    BY <1>2 DEF Distinct
  <2>1. CASE i \in 1 .. n /\ j \in 1 .. n
    BY <1>2, <1>5, <2>1 DEF Distinct
  <2>2. CASE i = n + 1 \/ j = n + 1
    BY <1>2, <1>4, <2>2
  <2> QED
    BY <1>2, <2>1, <2>2
<1> QED
  BY <1>1, <1>3, <1>6 DEF all

LEMMA BatchGrows ==
  ASSUME NEW R, NEW its \in Seq(R), NEW q \in Seq(R), q # <<>>
  PROVE  /\ Append(its, Head(q)) \in Seq(R) /\ Tail(q) \in Seq(R)
         /\ Append(its, Head(q)) # <<>>
         /\ Append(its, Head(q)) \o Tail(q) = its \o q
<1>1. /\ Append(its, Head(q)) \in Seq(R) /\ Tail(q) \in Seq(R)
      /\ Append(its, Head(q)) # <<>>
  OBVIOUS
<1>2. Append(its, Head(q)) \o Tail(q) = its \o q
  <2>0. Append(its, Head(q)) = its \o <<Head(q)>>
    OBVIOUS
  <2>1. q = <<Head(q)>> \o Tail(q)
    OBVIOUS
  <2>2. PICK t \in Seq(R) : t = Tail(q)
    BY <1>1
  <2>3. PICK x \in R : x = Head(q)
    OBVIOUS
  <2>4. (its \o <<x>>) \o t = its \o (<<x>> \o t)
    OBVIOUS
  <2> QED
    BY <2>0, <2>1, <2>2, <2>3, <2>4
<1> QED
  BY <1>1, <1>2

LEMMA BatchLeaves ==
  ASSUME NEW R, NEW its \in Seq(R), NEW q \in Seq(R), Distinct(its \o q)
  PROVE  /\ <<>> \o q = q /\ Distinct(q)
         /\ ToSet(its) \subseteq ToSet(its \o q)
         /\ ToSet(q) = ToSet(its \o q) \ ToSet(its)
<1> DEFINE all == its \o q
<1>1. /\ Len(its) \in Nat /\ Len(q) \in Nat /\ Len(all) = Len(its) + Len(q)
      /\ DOMAIN its = 1 .. Len(its) /\ DOMAIN q = 1 .. Len(q) /\ DOMAIN all = 1 .. Len(all)
      /\ \A i \in 1 .. Len(its) : all[i] = its[i]
      /\ \A i \in 1 .. Len(q) : all[Len(its) + i] = q[i]
      /\ \A i \in 1 .. Len(all) : i \notin 1 .. Len(its) => i - Len(its) \in 1 .. Len(q)
  OBVIOUS
<1>2. Distinct(all)
  OBVIOUS
<1> HIDE DEF all
<1>3. \A i \in 1 .. Len(its) : i \in 1 .. Len(all)
  BY <1>1
<1>4. \A i \in 1 .. Len(q) : Len(its) + i \in 1 .. Len(all) /\ Len(its) + i \notin 1 .. Len(its)
  BY <1>1
<1>5. Distinct(q)
  <2> SUFFICES ASSUME NEW i \in 1 .. Len(q), NEW j \in 1 .. Len(q), q[i] = q[j]
               PROVE  i = j
    BY DEF Distinct
  <2>1. all[Len(its) + i] = all[Len(its) + j]
    BY <1>1
  <2>2. Len(its) + i = Len(its) + j
    BY <1>2, <1>4, <2>1 DEF Distinct
  <2> QED
    BY <1>1, <2>2
<1>6. ToSet(its) \subseteq ToSet(all)
  BY <1>1, <1>3 DEF ToSet
<1>7. ToSet(q) \subseteq ToSet(all) \ ToSet(its)
  <2> SUFFICES ASSUME NEW i \in 1 .. Len(q)
               PROVE  q[i] \in ToSet(all) /\ q[i] \notin ToSet(its)
    BY <1>1 DEF ToSet
  <2>1. q[i] = all[Len(its) + i] /\ Len(its) + i \in DOMAIN all
    BY <1>1, <1>4
  <2>2. \A k \in 1 .. Len(its) : its[k] # q[i]
    BY <1>1, <1>2, <1>3, <1>4 DEF Distinct
  <2> QED
    BY <1>1, <2>1, <2>2 DEF ToSet
<1>8. ToSet(all) \ ToSet(its) \subseteq ToSet(q)
  <2> SUFFICES ASSUME NEW i \in 1 .. Len(all), all[i] \notin ToSet(its)
               PROVE  all[i] \in ToSet(q)
    BY <1>1 DEF ToSet
  <2>1. i \notin 1 .. Len(its)
    BY <1>1 DEF ToSet
  <2>2. i - Len(its) \in 1 .. Len(q) /\ Len(its) + (i - Len(its)) = i
    BY <1>1, <2>1
  <2>3. all[i] = q[i - Len(its)]
    BY <1>1, <2>2
  <2> QED
    BY <1>1, <2>2, <2>3 DEF ToSet
<1>9. <<>> \o q = q
  OBVIOUS
<1> QED
  BY <1>5, <1>6, <1>7, <1>8, <1>9 DEF all

-----------------------------------------------------------------------------
(* Requests and the futures they wait for. *)

\* The phase of a request whose future stage s is to resolve.
PhaseAt(s) == IF s = "embed" THEN "embedding" ELSE "searching"

Waiting(s) == {r \in Requests : phase[r] = PhaseAt(s)}

Kept(s) ==
  /\ Waiting(s) = ToSet(items[s] \o queue[s])
  /\ Distinct(items[s] \o queue[s])
  /\ items[s] # <<>> <=> loop[s] \in {"window", "calling"}

Kinds ==
  /\ phase \in [Requests -> Phases]
  /\ queue \in [Stages -> Seq(Requests)]
  /\ items \in [Stages -> Seq(Requests)]
  /\ loop \in [Stages -> {"get", "window", "calling", "ended"}]
  /\ cancelled \in [Stages -> BOOLEAN]

\* A graceful server stops once nobody waits, and only then cancels the loops.
StopInv ==
  /\ app # "serving" => Quiet
  /\ \A s \in Stages : cancelled[s] => app # "serving"

\* The inductive invariant.
FutureInv == Kinds /\ (\A s \in Stages : Kept(s)) /\ StopInv

LEMMA NobodyForgottenIsKept == NobodyForgotten <=> \A s \in Stages : Kept(s)
BY DEF NobodyForgotten, Kept, Waiting, PhaseAt, Distinct

\* While a stage has a batch, somebody waits for it, so the server serves.
LEMMA BusyServes ==
  ASSUME FutureInv, NEW s \in Stages, items[s] # <<>> \/ queue[s] # <<>>
  PROVE  app = "serving" /\ ~cancelled[s]
<1>1. /\ items[s] \in Seq(Requests) /\ queue[s] \in Seq(Requests)
      /\ Waiting(s) = ToSet(items[s] \o queue[s])
  BY DEF FutureInv, Kinds, Kept
<1>2. 1 \in DOMAIN (items[s] \o queue[s])
  <2> DEFINE its == items[s]
             q == queue[s]
  <2>1. its \in Seq(Requests) /\ q \in Seq(Requests) /\ (its # <<>> \/ q # <<>>)
    BY <1>1
  <2> HIDE DEF its, q
  <2>2. /\ Len(its) \in Nat /\ Len(q) \in Nat /\ (Len(its) # 0 \/ Len(q) # 0)
        /\ DOMAIN (its \o q) = 1 .. Len(its) + Len(q)
    BY <2>1
  <2>3. 1 \in DOMAIN (its \o q)
    BY <2>2
  <2> QED
    BY <2>3 DEF its, q
<1>3. (items[s] \o queue[s])[1] \in Waiting(s)
  BY <1>1, <1>2 DEF ToSet
<1>4. ~Quiet
  BY <1>3 DEF Waiting, PhaseAt, Quiet, Ended
<1> QED
  BY <1>4 DEF FutureInv, StopInv

\* A request joins the queue of stage s.
LEMMA EnterInv ==
  ASSUME FutureInv, app = "serving", NEW r \in Requests, NEW s \in Stages, NEW from,
         from = (IF s = "embed" THEN "idle" ELSE "embedded"),
         Enter(r, from, PhaseAt(s), s)
  PROVE  FutureInv'
<1>1. /\ phase[r] = from /\ phase' = [phase EXCEPT ![r] = PhaseAt(s)]
      /\ queue' = [queue EXCEPT ![s] = Append(@, r)]
      /\ UNCHANGED <<items, loop, cancelled, app>>
  BY DEF Enter
<1>2. Kinds /\ \A t \in Stages : Kept(t)
  BY DEF FutureInv
<1>3. Kinds'
  BY <1>1, <1>2 DEF Kinds, PhaseAt, Phases
<1>4. /\ Waiting(s)' = Waiting(s) \cup {r} /\ r \notin Waiting(s)
      /\ \A t \in Stages \ {s} : Waiting(t)' = Waiting(t)
  BY <1>1, <1>2 DEF Waiting, PhaseAt, Kinds, Stages
<1>5. Kept(s)'
  <2>1. /\ items[s] \in Seq(Requests) /\ queue[s] \in Seq(Requests)
        /\ queue'[s] = Append(queue[s], r) /\ items'[s] = items[s] /\ loop'[s] = loop[s]
    BY <1>1, <1>2 DEF Kinds
  <2>2. Distinct(items[s] \o queue[s]) /\ r \notin ToSet(items[s] \o queue[s])
    BY <1>2, <1>4 DEF Kept
  <2>3. /\ ToSet(items[s] \o Append(queue[s], r)) = ToSet(items[s] \o queue[s]) \cup {r}
        /\ Distinct(items[s] \o Append(queue[s], r))
    BY <2>1, <2>2, QueueGrows
  <2> QED
    BY <1>2, <1>4, <2>1, <2>3 DEF Kept
<1>6. ASSUME NEW t \in Stages \ {s} PROVE Kept(t)'
  <2>1. queue'[t] = queue[t] /\ items'[t] = items[t] /\ loop'[t] = loop[t]
    BY <1>1, <1>2 DEF Kinds
  <2> QED
    BY <1>2, <1>4, <2>1 DEF Kept
<1>7. StopInv'
  BY <1>1 DEF FutureInv, StopInv
<1> QED
  BY <1>3, <1>5, <1>6, <1>7 DEF FutureInv

\* A loop moves the head of its queue to its batch, or starts its call.
LEMMA BatchInv ==
  ASSUME FutureInv, NEW s \in Stages, NEW its \in Seq(Requests), NEW q \in Seq(Requests),
         NEW l \in {"window", "calling"}, its # <<>>,
         its \o q = items[s] \o queue[s],
         items' = [items EXCEPT ![s] = its], queue' = [queue EXCEPT ![s] = q],
         loop' = [loop EXCEPT ![s] = l],
         cancelled' \in [Stages -> BOOLEAN],
         \A t \in Stages : cancelled'[t] => cancelled[t],
         UNCHANGED <<phase, app>>
  PROVE  FutureInv'
<1>1. Kinds /\ \A t \in Stages : Kept(t)
  BY DEF FutureInv
<1>2. Kinds'
  BY <1>1 DEF Kinds
<1>3. \A t \in Stages : Waiting(t)' = Waiting(t)
  BY DEF Waiting
<1>4. Kept(s)'
  <2>1. items'[s] = its /\ queue'[s] = q /\ loop'[s] = l
    BY <1>1 DEF Kinds
  <2> QED
    BY <1>1, <1>3, <2>1 DEF Kept
<1>5. ASSUME NEW t \in Stages \ {s} PROVE Kept(t)'
  <2>1. queue'[t] = queue[t] /\ items'[t] = items[t] /\ loop'[t] = loop[t]
    BY <1>1 DEF Kinds
  <2> QED
    BY <1>1, <1>3, <2>1 DEF Kept
<1>6. StopInv'
  BY DEF FutureInv, StopInv, Quiet
<1> QED
  BY <1>2, <1>4, <1>5, <1>6 DEF FutureInv

LEMMA DrainInv ==
  ASSUME FutureInv, NEW s \in Stages, Drain(s)
  PROVE  FutureInv'
<1>1. /\ items[s] \in Seq(Requests) /\ queue[s] \in Seq(Requests) /\ Kept(s)
      /\ items \in [Stages -> Seq(Requests)] /\ queue \in [Stages -> Seq(Requests)]
      /\ cancelled \in [Stages -> BOOLEAN]
  BY DEF FutureInv, Kinds
<1>2. ASSUME NEW its, Call(s, its)
      PROVE  loop' = [loop EXCEPT ![s] = "calling"]
  BY <1>2 DEF Call
<1>3. ASSUME NEW its \in Seq(Requests), Collect(s, Append(its, Head(queue[s]))),
             its = items[s], queue[s] # <<>>
      PROVE  FutureInv'
  <2> DEFINE more == Append(its, Head(queue[s]))
             q == Tail(queue[s])
  <2>1. /\ more \in Seq(Requests) /\ q \in Seq(Requests) /\ more # <<>>
        /\ more \o q = items[s] \o queue[s]
    BY <1>1, <1>3, BatchGrows
  <2>2. \E l \in {"window", "calling"} : loop' = [loop EXCEPT ![s] = l]
    BY <1>2, <1>3 DEF Collect
  <2>3. /\ items' = [items EXCEPT ![s] = more] /\ queue' = [queue EXCEPT ![s] = q]
        /\ UNCHANGED <<phase, cancelled, app>>
    BY <1>3 DEF Collect
  <2> HIDE DEF more, q
  <2> QED
    BY <1>1, <2>1, <2>2, <2>3, BatchInv
<1>4. CASE TakeFirst(s)
  <2>1. loop[s] = "get" /\ queue[s] # <<>> /\ Collect(s, <<Head(queue[s])>>)
    BY <1>4 DEF TakeFirst
  <2>2. items[s] = <<>>
    BY <1>1, <2>1 DEF Kept
  <2>3. <<Head(queue[s])>> = Append(<<>>, Head(queue[s])) /\ <<>> \in Seq(Requests)
    OBVIOUS
  <2> QED
    BY <1>3, <2>1, <2>2, <2>3
<1>5. CASE TakeMore(s)
  BY <1>1, <1>3, <1>5 DEF TakeMore
<1>6. CASE CloseWindow(s)
  <2>1. /\ loop[s] = "window" /\ loop' = [loop EXCEPT ![s] = "calling"]
        /\ cancelled' = [cancelled EXCEPT ![s] = FALSE]
        /\ UNCHANGED <<phase, queue, items, app>>
    BY <1>2, <1>6 DEF CloseWindow
  <2>2. items' = [items EXCEPT ![s] = items[s]] /\ queue' = [queue EXCEPT ![s] = queue[s]]
    BY <1>1, <2>1
  <2>3. items[s] # <<>>
    BY <1>1, <2>1 DEF Kept
  <2>4. /\ cancelled' \in [Stages -> BOOLEAN]
        /\ \A t \in Stages : cancelled'[t] => cancelled[t]
    BY <1>1, <2>1
  <2> QED
    BY <1>1, <2>1, <2>2, <2>3, <2>4, BatchInv
<1> QED
  BY <1>4, <1>5, <1>6 DEF Drain

\* A call ends: the futures of its batch, and only those, are resolved.
LEMMA ReturnInv ==
  ASSUME FutureInv, NEW s \in Stages, loop[s] = "calling",
         NEW outcome \in {"embedded", "found", "error", "invalid"}, Return(s, outcome)
  PROVE  FutureInv'
<1>1. Kinds /\ \A t \in Stages : Kept(t)
  BY DEF FutureInv
<1>2. /\ phase' = [r \in Requests |-> IF r \in ToSet(items[s]) THEN outcome ELSE phase[r]]
      /\ items' = [items EXCEPT ![s] = <<>>] /\ loop' = [loop EXCEPT ![s] = "get"]
      /\ UNCHANGED <<queue, cancelled, app>>
  BY DEF Return
<1>3. items[s] \in Seq(Requests) /\ queue[s] \in Seq(Requests) /\ items[s] # <<>>
  BY <1>1 DEF Kinds, Kept
<1>4. /\ <<>> \o queue[s] = queue[s] /\ Distinct(queue[s])
      /\ ToSet(items[s]) \subseteq Waiting(s)
      /\ ToSet(queue[s]) = Waiting(s) \ ToSet(items[s])
  BY <1>1, <1>3, BatchLeaves DEF Kept
<1>5. \A t \in Stages : Waiting(t)' = Waiting(t) \ ToSet(items[s])
  BY <1>1, <1>2 DEF Waiting, PhaseAt, Kinds
<1>6. \A t \in Stages \ {s} : Waiting(t) \cap Waiting(s) = {}
  BY DEF Waiting, PhaseAt, Stages
<1>7. Kinds'
  BY <1>1, <1>2 DEF Kinds, Phases
<1>8. Kept(s)'
  <2>1. items'[s] = <<>> /\ queue'[s] = queue[s] /\ loop'[s] = "get"
    BY <1>1, <1>2 DEF Kinds
  <2> QED
    BY <1>4, <1>5, <2>1 DEF Kept
<1>9. ASSUME NEW t \in Stages \ {s} PROVE Kept(t)'
  <2>1. queue'[t] = queue[t] /\ items'[t] = items[t] /\ loop'[t] = loop[t]
    BY <1>1, <1>2 DEF Kinds
  <2>2. Waiting(t)' = Waiting(t)
    BY <1>4, <1>5, <1>6
  <2> QED
    BY <1>1, <2>1, <2>2 DEF Kept
<1>10. StopInv'
  BY <1>2, <1>3, BusyServes DEF FutureInv, StopInv
<1> QED
  BY <1>7, <1>8, <1>9, <1>10 DEF FutureInv

LEMMA ReturnsInv ==
  ASSUME FutureInv, Returns
  PROVE  FutureInv'
<1>1. \E s \in Stages : \E outcome \in {"embedded", "found", "error", "invalid"} :
        loop[s] = "calling" /\ Return(s, outcome)
  <2>1. CASE EmbedReturns
    BY <2>1 DEF EmbedReturns, Stages
  <2>2. CASE EmbedFails
    BY <2>2 DEF EmbedFails, Stages
  <2>3. CASE SearchReturns
    BY <2>3 DEF SearchReturns, Stages
  <2>4. CASE SearchFails
    BY <2>4 DEF SearchFails, Stages
  <2> QED
    BY <2>1, <2>2, <2>3, <2>4 DEF Returns
<1> QED
  BY <1>1, ReturnInv

\* The queues, the batches and who waits for them are left alone.
LEMMA NobodyMoves ==
  ASSUME FutureInv, UNCHANGED <<queue, items>>,
         phase' \in [Requests -> Phases], \A s \in Stages : Waiting(s)' = Waiting(s),
         loop' \in [Stages -> {"get", "window", "calling", "ended"}],
         cancelled' \in [Stages -> BOOLEAN],
         \A s \in Stages :
           loop[s] \in {"window", "calling"} <=> loop'[s] \in {"window", "calling"},
         StopInv'
  PROVE  FutureInv'
<1>1. Kinds'
  BY DEF FutureInv, Kinds
<1>2. ASSUME NEW s \in Stages PROVE Kept(s)'
  BY <1>2 DEF FutureInv, Kept
<1> QED
  BY <1>1, <1>2 DEF FutureInv

LEMMA RespondInv ==
  ASSUME FutureInv, NEW r \in Requests, Respond(r)
  PROVE  FutureInv'
<1>1. /\ phase[r] = "found" /\ phase' = [phase EXCEPT ![r] = "answered"]
      /\ UNCHANGED <<queue, items, loop, cancelled, app>>
  BY DEF Respond, stages
<1>2. phase \in [Requests -> Phases] /\ Kinds /\ StopInv
  BY DEF FutureInv, Kinds
<1>3. phase' \in [Requests -> Phases] /\ \A s \in Stages : Waiting(s)' = Waiting(s)
  BY <1>1, <1>2 DEF Phases, Waiting, PhaseAt
<1>4. StopInv'
  BY <1>1, <1>2 DEF StopInv, Quiet, Ended
<1> QED
  BY <1>1, <1>2, <1>3, <1>4, NobodyMoves DEF Kinds

\* stop() finds both stages empty, so a cancellation never ends a call.
LEMMA StoppingInv ==
  ASSUME FutureInv, BeginStop \/ Stopping
  PROVE  FutureInv'
<1>1. Kinds /\ StopInv
  BY DEF FutureInv
<1>2. CASE BeginStop
  <2>1. /\ Quiet /\ app' # "serving"
        /\ cancelled' = [cancelled EXCEPT !["search"] = TRUE]
        /\ UNCHANGED <<phase, queue, items, loop>>
    BY <1>2 DEF BeginStop
  <2>2. Quiet' /\ \A s \in Stages : Waiting(s)' = Waiting(s)
    BY <2>1 DEF Quiet, Waiting
  <2> QED
    BY <1>1, <2>1, <2>2, NobodyMoves DEF Kinds, StopInv
<1>3. ASSUME NEW s \in Stages, CancelAtGet(s)
      PROVE  FutureInv'
  <2>1. /\ loop[s] = "get" /\ loop' = [loop EXCEPT ![s] = "ended"]
        /\ UNCHANGED <<phase, queue, items, cancelled, app>>
    BY <1>3 DEF CancelAtGet
  <2>2. /\ loop' \in [Stages -> {"get", "window", "calling", "ended"}]
        /\ \A t \in Stages :
             loop[t] \in {"window", "calling"} <=> loop'[t] \in {"window", "calling"}
    BY <1>1, <2>1 DEF Kinds
  <2>3. StopInv' /\ \A t \in Stages : Waiting(t)' = Waiting(t)
    BY <1>1, <2>1 DEF StopInv, Quiet, Waiting
  <2> QED
    BY <1>1, <2>1, <2>2, <2>3, NobodyMoves DEF Kinds
<1>4. CASE SearchStopped
  <2>1. /\ app # "serving" /\ app' # "serving"
        /\ cancelled' = [cancelled EXCEPT !["embed"] = TRUE]
        /\ UNCHANGED <<phase, queue, items, loop>>
    BY <1>4 DEF SearchStopped
  <2>2. Quiet' /\ \A s \in Stages : Waiting(s)' = Waiting(s)
    BY <1>1, <2>1 DEF StopInv, Quiet, Waiting
  <2> QED
    BY <1>1, <2>1, <2>2, NobodyMoves DEF Kinds, StopInv
<1>5. CASE EmbedStopped
  <2>1. /\ app # "serving" /\ app' # "serving"
        /\ UNCHANGED <<phase, queue, items, loop, cancelled>>
    BY <1>5 DEF EmbedStopped, stages
  <2>2. Quiet' /\ \A s \in Stages : Waiting(s)' = Waiting(s)
    BY <1>1, <2>1 DEF StopInv, Quiet, Waiting
  <2> QED
    BY <1>1, <2>1, <2>2, NobodyMoves DEF Kinds, StopInv
<1> QED
  BY <1>2, <1>3, <1>4, <1>5 DEF Stopping

LEMMA FutureInvStep ==
  ASSUME FutureInv, [Next]_vars
  PROVE  FutureInv'
<1>1. CASE UNCHANGED <<phase, stages, app>>
  BY <1>1 DEF FutureInv, Kinds, Kept, Waiting, StopInv, Quiet, stages
<1>2. ASSUME NEW r \in Requests, Arrive(r)
      PROVE  FutureInv'
  <2>1. app = "serving" /\ Enter(r, "idle", PhaseAt("embed"), "embed")
    BY <1>2 DEF Arrive, PhaseAt
  <2> QED
    BY <2>1, EnterInv DEF Stages
<1>3. ASSUME NEW r \in Requests, EnterSearch(r)
      PROVE  FutureInv'
  <2>1. phase[r] = "embedded" /\ Enter(r, "embedded", PhaseAt("search"), "search")
    BY <1>3 DEF EnterSearch, Enter, PhaseAt
  <2>2. app = "serving"
    BY <2>1 DEF FutureInv, StopInv, Quiet, Ended
  <2> QED
    BY <2>1, <2>2, EnterInv DEF Stages
<1>4. ASSUME NEW r \in Requests, Respond(r)
      PROVE  FutureInv'
  BY <1>4, RespondInv
<1>5. ASSUME NEW p \in posts, Post(p)
      PROVE  FutureInv'
  BY <1>1, <1>5 DEF Post, Send, PostSucceeds, PostBacksOff, Resend, PostFails, Abandoned
<1>6. CASE UNCHANGED vars
  BY <1>1, <1>6 DEF vars
<1> QED
  BY <1>2, <1>3, <1>4, <1>5, <1>6, DrainInv, ReturnsInv, StoppingInv
     DEF Next, Work, Handler

LEMMA FutureInvInit ==
  ASSUME Init
  PROVE  FutureInv
<1>1. Kinds
  BY DEF Init, Kinds, Phases, Stages
<1>2. ASSUME NEW s \in Stages PROVE Kept(s)
  <2>1. items[s] = <<>> /\ queue[s] = <<>> /\ loop[s] = "get" /\ Waiting(s) = {}
    BY DEF Init, Waiting, PhaseAt, Stages
  <2>2. <<>> \o <<>> = <<>> /\ ToSet(<<>>) = {} /\ Distinct(<<>>)
    BY DEF ToSet, Distinct
  <2> QED
    BY <2>1, <2>2 DEF Kept
<1>3. StopInv
  BY DEF Init, StopInv
<1> QED
  BY <1>1, <1>2, <1>3 DEF FutureInv

LEMMA FutureInvAlways == Spec => []FutureInv
<1>1. Init => FutureInv
  BY FutureInvInit
<1>2. FutureInv /\ [Next]_vars => FutureInv'
  BY FutureInvStep
<1> QED
  BY <1>1, <1>2, PTL DEF Spec

(* No request is lost between a queue, a batch and its future: whoever     *)
(* waits for a stage is in its batch or its queue exactly once, whatever   *)
(* fails.                                                                  *)
THEOREM NoLostFuture == Spec => []NobodyForgotten
<1>1. FutureInv => NobodyForgotten
  BY NobodyForgottenIsKept DEF FutureInv
<1> QED
  BY <1>1, FutureInvAlways, PTL

(* stop() cancels a drain loop only when its stage has nothing left, so no *)
(* cancellation is lost in a window or ends a call for its requests.       *)
THEOREM StopFindsStagesEmpty == Spec => []StopMeetsNobody
<1>1. FutureInv => StopMeetsNobody
  BY BusyServes DEF StopMeetsNobody
<1> QED
  BY <1>1, FutureInvAlways, PTL

-----------------------------------------------------------------------------
(* Types.  The number of batches is bounded because each takes requests    *)
(* that no batch has taken before.                                         *)

\* The requests whose embedding batch has ended.
Past == {r \in Requests : phase[r] \notin {"idle", "embedding"}}

FlushInv ==
  /\ flush \in Nat
  /\ flush <= Cardinality(Past) + (IF loop["embed"] = "calling" THEN 1 ELSE 0)

Progress == {"waiting", "sent", "backoff", "ok", "error", "invalid"}

BackendTyped ==
  /\ posts \subseteq [flush : 1 .. flush, part : Nat \ {0}, attempt : 0 .. MaxRetries,
                      at : Progress]
  /\ app \in {"serving", "stopping_search", "stopping_embed", "stopped"}
  /\ failures \in 0 .. MaxFailures

\* A member that is added to a set of requests raises their number.
LEMMA MoreRequests ==
  ASSUME IsFiniteSet(Requests), NEW A \in SUBSET Requests, NEW B \in SUBSET Requests,
         A \subseteq B, NEW r \in B, r \notin A
  PROVE  Cardinality(A) \in Nat /\ Cardinality(B) \in Nat
         /\ Cardinality(A) + 1 <= Cardinality(B)
<1>1. IsFiniteSet(A) /\ IsFiniteSet(B)
  BY FS_Subset
<1>2. /\ Cardinality(A \cup {r}) = Cardinality(A) + 1
      /\ Cardinality(A) \in Nat /\ Cardinality(B) \in Nat
  BY <1>1, FS_AddElement, FS_CardinalityType
<1>3. Cardinality(A \cup {r}) <= Cardinality(B)
  <2>1. A \cup {r} \in SUBSET B
    OBVIOUS
  <2> QED
    BY <1>1, <2>1, FS_Subset
<1> QED
  BY <1>2, <1>3

\* A batch that is called holds requests that no batch has taken before.
LEMMA BatchIsNew ==
  ASSUME FutureInv, NEW s \in Stages, loop[s] \in {"window", "calling"}
  PROVE  /\ items[s] # <<>> /\ ToSet(items[s]) \subseteq Waiting(s)
         /\ \E r : r \in ToSet(items[s])
<1>1. Kinds /\ Kept(s)
  BY DEF FutureInv
<1>2. items[s] \in Seq(Requests) /\ queue[s] \in Seq(Requests) /\ items[s] # <<>>
  BY <1>1 DEF Kinds, Kept
<1>3. ToSet(items[s]) \subseteq Waiting(s)
  BY <1>1, <1>2, BatchLeaves DEF Kept
<1>4. items[s][1] \in ToSet(items[s])
  <2>1. Len(items[s]) # 0 /\ Len(items[s]) \in Nat
    BY <1>2, EmptySeq, LenProperties
  <2> QED
    BY <1>2, <2>1, LenProperties DEF ToSet
<1> QED
  BY <1>2, <1>3, <1>4

LEMMA FlushInvKept ==
  ASSUME FlushInv, Past' = Past, flush' = flush,
         loop["embed"] = "calling" => loop'["embed"] = "calling",
         IsFiniteSet(Requests)
  PROVE  FlushInv'
<1>1. Cardinality(Past) \in Nat
  <2>1. IsFiniteSet(Past)
    BY FS_Subset DEF Past
  <2> QED
    BY <2>1, FS_CardinalityType
<1> QED
  BY <1>1 DEF FlushInv

\* A call of the embedder takes the number of a new batch.
LEMMA CallFlush ==
  ASSUME NEW s \in Stages, NEW its, Call(s, its), loop[s] # "calling", FlushInv,
         loop \in [Stages -> {"get", "window", "calling", "ended"}],
         Past' = Past, IsFiniteSet(Requests)
  PROVE  FlushInv'
<1>1. loop' = [loop EXCEPT ![s] = "calling"]
  BY DEF Call
<1>2. CASE s = "embed"
  <2>1. flush' = flush + 1 /\ loop'["embed"] = "calling" /\ loop["embed"] # "calling"
    BY <1>1, <1>2 DEF Call, Stages
  <2>2. Cardinality(Past) \in Nat /\ Cardinality(Past') = Cardinality(Past)
    BY FS_Subset, FS_CardinalityType DEF Past
  <2> QED
    BY <2>1, <2>2 DEF FlushInv
<1>3. CASE s # "embed"
  <2>1. flush' = flush /\ loop'["embed"] = loop["embed"]
    BY <1>1, <1>3 DEF Call, backend, Stages
  <2> QED
    BY <2>1, FlushInvKept
<1> QED
  BY <1>2, <1>3

LEMMA DrainFlush ==
  ASSUME NEW s \in Stages, Drain(s), FutureInv, FlushInv, IsFiniteSet(Requests)
  PROVE  FlushInv'
<1>1. /\ Past' = Past /\ loop[s] \in {"get", "window"}
      /\ loop \in [Stages -> {"get", "window", "calling", "ended"}]
  BY DEF Drain, TakeFirst, TakeMore, CloseWindow, Collect, Past, FutureInv, Kinds
<1>2. (\E its : Call(s, its)) \/ (loop' = [loop EXCEPT ![s] = "window"] /\ UNCHANGED backend)
  BY DEF Drain, TakeFirst, TakeMore, CloseWindow, Collect
<1>3. CASE \E its : Call(s, its)
  BY <1>1, <1>3, CallFlush
<1>4. CASE loop' = [loop EXCEPT ![s] = "window"] /\ UNCHANGED backend
  <2>1. flush' = flush /\ (loop["embed"] = "calling" => loop'["embed"] = "calling")
    BY <1>1, <1>4 DEF backend, Stages
  <2> QED
    BY <1>1, <2>1, FlushInvKept
<1> QED
  BY <1>2, <1>3, <1>4

\* A batch of the embedder that ends leaves its requests behind.
LEMMA ReturnFlush ==
  ASSUME NEW s \in Stages, loop[s] = "calling",
         NEW outcome \in {"embedded", "found", "error", "invalid"}, Return(s, outcome),
         FutureInv, FlushInv, IsFiniteSet(Requests)
  PROVE  FlushInv'
<1>1. /\ phase' = [r \in Requests |-> IF r \in ToSet(items[s]) THEN outcome ELSE phase[r]]
      /\ loop' = [loop EXCEPT ![s] = "get"] /\ flush' = flush
      /\ loop \in [Stages -> {"get", "window", "calling", "ended"}]
      /\ phase \in [Requests -> Phases]
  BY DEF Return, FutureInv, Kinds
<1>2. ToSet(items[s]) \subseteq Waiting(s) /\ \E r : r \in ToSet(items[s])
  BY BatchIsNew
<1>3. CASE s = "embed"
  <2>1. PICK r : r \in ToSet(items[s])
    BY <1>2
  <2>2. Past \subseteq Past' /\ r \in Past' /\ r \notin Past
    BY <1>1, <1>2, <1>3, <2>1 DEF Past, Waiting, PhaseAt
  <2>3. Cardinality(Past) \in Nat /\ Cardinality(Past') \in Nat
        /\ Cardinality(Past) + 1 <= Cardinality(Past')
    <3>1. Past \in SUBSET Requests /\ Past' \in SUBSET Requests
      BY DEF Past
    <3> QED
      BY <2>2, <3>1, MoreRequests
  <2>4. loop'["embed"] # "calling"
    BY <1>1, <1>3
  <2> QED
    BY <1>1, <2>3, <2>4 DEF FlushInv
<1>4. CASE s # "embed"
  <2>1. Past' = Past
    BY <1>1, <1>2, <1>4 DEF Past, Waiting, PhaseAt
  <2>2. loop'["embed"] = loop["embed"]
    BY <1>1, <1>4 DEF Stages
  <2> QED
    BY <1>1, <2>1, <2>2, FlushInvKept
<1> QED
  BY <1>3, <1>4

LEMMA FlushInvStep ==
  ASSUME FutureInv, FlushInv, [Next]_vars, IsFiniteSet(Requests)
  PROVE  FlushInv'
<1>1. /\ phase \in [Requests -> Phases]
      /\ loop \in [Stages -> {"get", "window", "calling", "ended"}]
  BY DEF FutureInv, Kinds
<1>2. ASSUME NEW r \in Requests, Arrive(r) \/ Handler(r)
      PROVE  FlushInv'
  <2>1. flush' = flush /\ loop' = loop
    BY <1>2 DEF Arrive, Handler, EnterSearch, Respond, Enter, backend, stages
  <2>2. \/ phase[r] = "idle" /\ phase' = [phase EXCEPT ![r] = "embedding"]
        \/ phase[r] = "embedded" /\ phase' = [phase EXCEPT ![r] = "searching"]
        \/ phase[r] = "found" /\ phase' = [phase EXCEPT ![r] = "answered"]
    BY <1>2 DEF Arrive, Handler, EnterSearch, Respond, Enter
  <2>3. Past' = Past
    BY <1>1, <2>2 DEF Past
  <2> QED
    BY <2>1, <2>3, FlushInvKept
<1>3. CASE Returns
  <2>1. \E s \in Stages : \E outcome \in {"embedded", "found", "error", "invalid"} :
          loop[s] = "calling" /\ Return(s, outcome)
    BY <1>3 DEF Returns, EmbedReturns, EmbedFails, SearchReturns, SearchFails, Stages
  <2> QED
    BY <2>1, ReturnFlush
<1>4. ASSUME NEW p \in posts, Post(p)
      PROVE  FlushInv'
  <2>1. UNCHANGED <<phase, loop, flush>>
    BY <1>4 DEF Post, Send, PostSucceeds, PostBacksOff, Resend, PostFails, Abandoned, stages
  <2> QED
    BY <2>1, FlushInvKept DEF Past
<1>5. CASE BeginStop \/ Stopping \/ UNCHANGED vars
  <2>1. UNCHANGED <<phase, flush>>
    BY <1>5 DEF BeginStop, Stopping, CancelAtGet, SearchStopped, EmbedStopped, backend, vars
  <2>2. loop' = loop \/ \E s \in Stages : loop[s] = "get" /\ loop' = [loop EXCEPT ![s] = "ended"]
    BY <1>5 DEF BeginStop, Stopping, CancelAtGet, SearchStopped, EmbedStopped, stages, vars
  <2>3. loop["embed"] = "calling" => loop'["embed"] = "calling"
    BY <1>1, <2>2 DEF Stages
  <2> QED
    BY <2>1, <2>3, FlushInvKept DEF Past
<1> QED
  BY <1>2, <1>3, <1>4, <1>5, DrainFlush DEF Next, Work

\* A post that moves stays one of its batch.
LEMMA BackendTypedStep ==
  ASSUME FlushInv, BackendTyped, [Next]_vars
  PROVE  BackendTyped'
<1> DEFINE P(n) == [flush : 1 .. n, part : Nat \ {0}, attempt : 0 .. MaxRetries,
                    at : Progress]
<1>1. flush \in Nat /\ MaxRetries \in Nat /\ MaxFailures \in Nat /\ posts \subseteq P(flush)
  BY BoundAssumption DEF FlushInv, BackendTyped
<1>2. P(flush) \subseteq P(flush + 1)
  <2>1. 1 .. flush \subseteq 1 .. (flush + 1)
    BY <1>1
  <2> QED
    BY <2>1
<1>3. ASSUME NEW s \in Stages, Drain(s)
      PROVE  BackendTyped'
  <2>1. UNCHANGED <<app, failures>>
    BY <1>3 DEF Drain, TakeFirst, TakeMore, CloseWindow, Collect
  <2>2. UNCHANGED backend \/ \E its : flush' = flush + 1 /\ posts' = posts \cup NewPosts(its)
    BY <1>3 DEF Drain, TakeFirst, TakeMore, CloseWindow, Collect, Call
  <2>3. CASE UNCHANGED backend
    BY <2>1, <2>3 DEF BackendTyped, backend
  <2>4. ASSUME NEW its, flush' = flush + 1, posts' = posts \cup NewPosts(its)
        PROVE  BackendTyped'
    <3>1. ASSUME NEW n, NEW p \in 1 .. n PROVE p \in Nat \ {0}
      BY <3>1
    <3>2. NewPosts(its) \subseteq P(flush + 1)
      BY <1>1, <3>1 DEF NewPosts, Progress
    <3>3. posts' \subseteq P(flush')
      BY <1>1, <1>2, <2>4, <3>2
    <3> QED
      BY <2>1, <3>3 DEF BackendTyped
  <2> QED
    BY <2>2, <2>3, <2>4
<1>4. ASSUME NEW p \in posts, Post(p)
      PROVE  BackendTyped'
  <2>1. flush' = flush /\ app' = app /\ p \in P(flush)
    BY <1>1, <1>4 DEF Post, Send, PostSucceeds, PostBacksOff, Resend, PostFails, Abandoned
  <2>2. failures' \in 0 .. MaxFailures
    <3>1. failures' = failures \/ (failures < MaxFailures /\ failures' = failures + 1)
      BY <1>4, Zenon DEF Post, Send, PostSucceeds, PostBacksOff, Resend, PostFails, Abandoned
    <3> QED
      BY <1>1, <3>1 DEF BackendTyped
  <2>3. \A l \in Progress : [p EXCEPT !.at = l] \in P(flush)
    BY <2>1
  <2>4. p.attempt < MaxRetries => [p EXCEPT !.at = "backoff", !.attempt = @ + 1] \in P(flush)
    <3> SUFFICES ASSUME p.attempt < MaxRetries
                 PROVE  [p EXCEPT !.at = "backoff", !.attempt = @ + 1] \in P(flush)
      OBVIOUS
    <3>1. p.attempt + 1 \in 0 .. MaxRetries /\ "backoff" \in Progress
      BY <1>1, <2>1 DEF Progress
    <3> QED
      BY <2>1, <3>1
  <2>5. posts' \subseteq posts \/ \E q \in P(flush) : posts' = (posts \ {p}) \cup {q}
    <3> HIDE DEF P
    <3>1. {"sent", "ok", "error", "invalid"} \subseteq Progress
      BY DEF Progress
    <3>2. CASE Send(p) \/ PostSucceeds(p) \/ Resend(p)
      BY <2>3, <3>1, <3>2 DEF Send, PostSucceeds, Resend
    <3>3. CASE PostBacksOff(p)
      BY <2>4, <3>3 DEF PostBacksOff
    <3>4. CASE \E kind \in {"error", "invalid"} : PostFails(p, kind)
      BY <2>3, <3>1, <3>4 DEF PostFails
    <3>5. CASE Abandoned(p)
      BY <3>5 DEF Abandoned
    <3> QED
      BY <1>4, <3>2, <3>3, <3>4, <3>5 DEF Post
  <2>6. posts' \subseteq P(flush')
    BY <1>1, <2>1, <2>5
  <2> QED
    BY <2>1, <2>2, <2>6 DEF BackendTyped
<1>5. CASE Returns
  <2>1. flush' = flush /\ app' = app /\ posts' \subseteq posts
    BY <1>5 DEF Returns, EmbedReturns, EmbedFails, SearchReturns, SearchFails, Return
  <2>2. failures' \in 0 .. MaxFailures
    <3>1. failures' = failures \/ (failures < MaxFailures /\ failures' = failures + 1)
      BY <1>5, Zenon DEF Returns, EmbedReturns, EmbedFails, SearchReturns, SearchFails
    <3> QED
      BY <1>1, <3>1 DEF BackendTyped
  <2>3. posts' \subseteq P(flush')
    BY <1>1, <2>1
  <2> QED
    BY <2>1, <2>2, <2>3 DEF BackendTyped
<1>6. CASE BeginStop \/ Stopping
  <2>1. flush' = flush /\ failures' = failures /\ posts' \subseteq posts
    BY <1>6 DEF BeginStop, Stopping, CancelAtGet, SearchStopped, EmbedStopped, backend
  <2>2. app' \in {"serving", "stopping_search", "stopping_embed", "stopped"}
    BY <1>6 DEF BeginStop, Stopping, CancelAtGet, SearchStopped, EmbedStopped, BackendTyped
  <2>3. posts' \subseteq P(flush')
    BY <1>1, <2>1
  <2> QED
    BY <2>1, <2>2, <2>3 DEF BackendTyped
<1>7. CASE (\E r \in Requests : Arrive(r) \/ Handler(r)) \/ UNCHANGED vars
  <2>1. UNCHANGED <<flush, posts, app, failures>>
    BY <1>7 DEF Arrive, Handler, EnterSearch, Respond, Enter, backend, vars
  <2> QED
    BY <2>1 DEF BackendTyped
<1> QED
  BY <1>3, <1>4, <1>5, <1>6, <1>7 DEF Next, Work

\* Each batch takes a request of its own, so there are no more batches than requests.
LEMMA FlushBounded ==
  ASSUME FutureInv, FlushInv, IsFiniteSet(Requests)
  PROVE  flush \in 0 .. Cardinality(Requests)
<1>1. Past \in SUBSET Requests
  BY DEF Past
<1>2. /\ Cardinality(Past) \in Nat /\ Cardinality(Requests) \in Nat
      /\ Cardinality(Past) <= Cardinality(Requests)
  BY <1>1, FS_Subset, FS_CardinalityType
<1>3. ASSUME loop["embed"] = "calling"
      PROVE  Cardinality(Past) + 1 <= Cardinality(Requests)
  <2>1. PICK r : r \in Waiting("embed")
    BY <1>3, BatchIsNew DEF Stages
  <2>2. r \in Requests /\ r \notin Past
    BY <2>1 DEF Waiting, PhaseAt, Past
  <2> QED
    BY <1>1, <2>2, MoreRequests
<1> QED
  BY <1>2, <1>3 DEF FlushInv

(* Every variable keeps a value of its kind; in particular the service     *)
(* makes at most one embedding batch per request, and no post is tried     *)
(* more than 1 + MaxRetries times.                                         *)
THEOREM ServiceTyped == ASSUME IsFiniteSet(Requests) PROVE Spec => []TypeOK
<1>1. Init => FlushInv /\ BackendTyped
  <2> SUFFICES ASSUME Init PROVE FlushInv /\ BackendTyped
    OBVIOUS
  <2>1. flush = 0 /\ posts = {} /\ app = "serving" /\ failures = 0
    BY DEF Init
  <2>2. Cardinality(Past) \in Nat
    BY FS_Subset, FS_CardinalityType DEF Past
  <2>3. FlushInv
    BY <2>1, <2>2 DEF FlushInv
  <2> QED
    BY <2>1, <2>3, BoundAssumption DEF BackendTyped
<1>2. FutureInv /\ FlushInv /\ BackendTyped /\ [Next]_vars => FlushInv' /\ BackendTyped'
  BY FlushInvStep, BackendTypedStep
<1>3. FutureInv /\ FlushInv /\ BackendTyped => TypeOK
  BY FlushBounded DEF FutureInv, Kinds, BackendTyped, TypeOK, Progress
<1> QED
  BY <1>1, <1>2, <1>3, FutureInvAlways, PTL DEF Spec

-----------------------------------------------------------------------------
(* The answers.  What a batch holds of a request is what the request gave, *)
(* so each request gets the rows of its own queries.                       *)

Texts == STRING

Docs == (Texts \X Nat) \cup {Missing}

\* The lists that a batch joins.
Lists(its) == [j \in 1 .. Len(its) |-> Queries[its[j]]]

LEMMA ListsTyped ==
  ASSUME NEW its \in Seq(Requests)
  PROVE  /\ Lists(its) \in Seq(Seq(Texts)) /\ Len(Lists(its)) = Len(its)
         /\ Len(its) \in Nat
         /\ \A j \in 1 .. Len(its) : /\ its[j] \in Requests
                                     /\ Lists(its)[j] = Queries[its[j]]
<1>1. Len(its) \in Nat /\ \A j \in 1 .. Len(its) : its[j] \in Requests
  BY LenProperties, ElementOfSeq
<1>2. \A j \in 1 .. Len(its) : Queries[its[j]] \in Seq(Texts)
  BY <1>1, RequestsAssumption DEF Texts
<1> QED
  BY <1>1, <1>2 DEF Lists

LEMMA AllQueriesTyped ==
  ASSUME NEW its \in Seq(Requests)
  PROVE  AllQueries(its) = FlattenSeq(Lists(its)) /\ AllQueries(its) \in Seq(Texts)
<1>1. AllQueries(its) = FlattenSeq(Lists(its))
  BY DEF AllQueries, Lists
<1>2. PICK o : Offsets(o, Lists(its))
  BY ListsTyped, OffsetsExist
<1> QED
  BY <1>1, <1>2, ListsTyped, FlattenPlaces

\* The sub-batches, posted one by one, give the vectors in the order of the batch.
LEMMA EmbeddingsInOrder ==
  ASSUME NEW its \in Seq(Requests)
  PROVE  AllEmbeddings(its) = AllQueries(its)
<1>1. PICK x \in Seq(Texts) : x = AllQueries(its)
  BY AllQueriesTyped
<1>2. SubBatches(x) = Pieces(x, EmbedBatchSize)
  BY DEF SubBatches, Pieces, Piece, Smaller
<1>3. FlattenSeq(Pieces(x, EmbedBatchSize)) = x
  BY BatchAssumption, PiecesJoin
<1> QED
  BY <1>1, <1>2, <1>3 DEF AllEmbeddings

LEMMA BatchPlace ==
  ASSUME NEW its \in Seq(Requests), NEW r \in ToSet(its)
  PROVE  At(its, r) \in 1 .. Len(its) /\ its[At(its, r)] = r /\ r \in Requests
<1>1. \E j \in 1 .. Len(its) : its[j] = r
  BY LenProperties DEF ToSet
<1>2. At(its, r) \in 1 .. Len(its) /\ its[At(its, r)] = r
  BY <1>1 DEF At
<1> QED
  BY <1>2, ElementOfSeq

\* The queries of a request begin at its offset in those of the batch.
LEMMA OwnSlice ==
  ASSUME NEW its \in Seq(Requests), NEW r \in ToSet(its)
  PROVE  LET b == Offset(its, At(its, r))
             all == AllQueries(its)
         IN  /\ b \in Nat /\ Size(r) \in Nat /\ b + Size(r) <= Len(all)
             /\ \A i \in 1 .. Size(r) : all[b + i] = Queries[r][i]
             /\ RowsOf(all, its, At(its, r)) = Queries[r]
<1>1. PICK j \in 1 .. Len(its) : j = At(its, r) /\ its[j] = r
  BY BatchPlace
<1>2. r \in Requests /\ Queries[r] \in Seq(Texts) /\ Len(Queries[r]) \in Nat
  <2>1. r \in Requests /\ Queries[r] \in Seq(Texts)
    BY BatchPlace, RequestsAssumption DEF Texts
  <2> QED
    BY <2>1, LenProperties
<1>3. PICK s : s = Lists(its)
  OBVIOUS
<1>4. s \in Seq(Seq(Texts)) /\ Len(s) = Len(its) /\ s[j] = Queries[r] /\ j \in 1 .. Len(s)
  BY <1>1, <1>3, ListsTyped
<1>5. Offset(its, j) = Len(FlattenSeq(SubSeq(s, 1, j - 1)))
  <2>1. PICK t : t = SubSeq(its, 1, j - 1)
    OBVIOUS
  <2>2. /\ t \in Seq(Requests) /\ Len(t) = j - 1
        /\ \A i \in 1 .. j - 1 : t[i] = its[i]
    <3>1. \A i \in 1 .. j - 1 : its[i] \in Requests
      BY ListsTyped
    <3>2. /\ SubSeq(its, 1, j - 1) \in Seq(Requests)
          /\ Len(SubSeq(its, 1, j - 1)) = IF 1 <= j - 1 THEN (j - 1) - 1 + 1 ELSE 0
          /\ \A i \in 1 .. (j - 1) - 1 + 1 : SubSeq(its, 1, j - 1)[i] = its[1 + i - 1]
      BY <3>1, SubSeqProperties
    <3> QED
      BY <2>1, <3>2
  <2>3. /\ SubSeq(s, 1, j - 1) \in Seq(Seq(Texts)) /\ Len(SubSeq(s, 1, j - 1)) = j - 1
        /\ \A i \in 1 .. j - 1 : SubSeq(s, 1, j - 1)[i] = s[i]
    <3>1. \A i \in 1 .. j - 1 : s[i] \in Seq(Texts)
      BY <1>4, ElementOfSeq
    <3>2. /\ SubSeq(s, 1, j - 1) \in Seq(Seq(Texts))
          /\ Len(SubSeq(s, 1, j - 1)) = IF 1 <= j - 1 THEN (j - 1) - 1 + 1 ELSE 0
          /\ \A i \in 1 .. (j - 1) - 1 + 1 : SubSeq(s, 1, j - 1)[i] = s[1 + i - 1]
      BY <3>1, SubSeqProperties
    <3> QED
      BY <3>2
  <2>4. /\ Lists(t) \in Seq(Seq(Texts)) /\ Len(Lists(t)) = j - 1
        /\ \A i \in 1 .. j - 1 : Lists(t)[i] = Queries[its[i]]
    <3>1. /\ Lists(t) \in Seq(Seq(Texts)) /\ Len(Lists(t)) = Len(t)
          /\ \A i \in 1 .. Len(t) : Lists(t)[i] = Queries[t[i]]
      BY <2>2, ListsTyped
    <3> QED
      BY <2>2, <3>1
  <2>5. \A i \in 1 .. j - 1 : s[i] = Queries[its[i]]
    BY <1>3, ListsTyped
  <2>6. Lists(t) = SubSeq(s, 1, j - 1)
    BY <2>3, <2>4, <2>5, SeqEqual
  <2>7. AllQueries(t) = FlattenSeq(Lists(t))
    BY <2>2, AllQueriesTyped
  <2> QED
    BY <2>1, <2>6, <2>7 DEF Offset
<1>6. PICK F : F = FlattenSeq(s) /\ F = AllQueries(its)
  BY <1>3, AllQueriesTyped
<1>7. PICK b : b = Len(FlattenSeq(SubSeq(s, 1, j - 1)))
  OBVIOUS
<1>8. LET G == FlattenSeq(s)
           a == Len(FlattenSeq(SubSeq(s, 1, j - 1)))
       IN  /\ a \in Nat /\ G \in Seq(Texts) /\ a + Len(s[j]) <= Len(G)
           /\ \A i \in 1 .. Len(s[j]) : G[a + i] = s[j][i]
           /\ SubSeq(G, a + 1, a + Len(s[j])) = s[j]
  BY <1>4, SliceOfJoin, Zenon
<1>9. /\ b \in Nat /\ b + Len(s[j]) <= Len(F)
      /\ \A i \in 1 .. Len(s[j]) : F[b + i] = s[j][i]
      /\ SubSeq(F, b + 1, b + Len(s[j])) = s[j]
  BY <1>6, <1>7, <1>8
<1> QED
  BY <1>1, <1>2, <1>4, <1>5, <1>6, <1>7, <1>9 DEF RowsOf, Size

\* max() of the k of a request, and of a batch of requests.
LEMMA ToSetFinite ==
  ASSUME NEW T, NEW s \in Seq(T)
  PROVE  /\ IsFiniteSet(ToSet(s)) /\ ToSet(s) \in SUBSET T
         /\ \A i \in 1 .. Len(s) : s[i] \in ToSet(s)
<1>1. Len(s) \in Nat /\ DOMAIN s = 1 .. Len(s) /\ \A i \in 1 .. Len(s) : s[i] \in T
  BY LenProperties, ElementOfSeq
<1>2. ToSet(s) = {s[i] : i \in 1 .. Len(s)}
  BY <1>1 DEF ToSet
<1>3. IsFiniteSet(1 .. Len(s))
  BY <1>1, FS_Interval
<1>4. IsFiniteSet(ToSet(s))
  <2>1. s \in Surjection(1 .. Len(s), ToSet(s))
    <3>1. s \in [1 .. Len(s) -> ToSet(s)]
      BY <1>1, <1>2, LenProperties
    <3> QED
      BY <1>2, <3>1 DEF Surjection
  <2> QED
    BY <1>3, <2>1, FS_Surjection
<1> QED
  BY <1>1, <1>2, <1>4

LEMMA TopKFacts ==
  ASSUME NEW r \in Requests
  PROVE  /\ TopK(r) \in Nat \ {0}
         /\ \A i \in 1 .. Size(r) : Ks[r][i] \in Nat \ {0} /\ Ks[r][i] <= TopK(r)
<1>1. /\ Size(r) \in Nat \ {0} /\ Ks[r] \in [1 .. Size(r) -> Nat \ {0}]
  <2>1. Queries[r] \in Seq(Texts) /\ Len(Queries[r]) > 0
        /\ Ks[r] \in [1 .. Len(Queries[r]) -> Nat \ {0}]
    BY RequestsAssumption DEF Texts
  <2>2. Len(Queries[r]) \in Nat
    BY <2>1, LenProperties
  <2> QED
    BY <2>1, <2>2 DEF Size
<1>2. Ks[r] \in Seq(Nat \ {0}) /\ Len(Ks[r]) = Size(r)
  BY <1>1
<1>3. /\ IsFiniteSet(ToSet(Ks[r])) /\ ToSet(Ks[r]) \in SUBSET (Nat \ {0})
      /\ \A i \in 1 .. Size(r) : Ks[r][i] \in ToSet(Ks[r])
  BY <1>2, ToSetFinite
<1>4. ToSet(Ks[r]) # {} /\ ToSet(Ks[r]) \in SUBSET Int
  BY <1>1, <1>3
<1>5. TopK(r) \in ToSet(Ks[r]) /\ \A k \in ToSet(Ks[r]) : k <= TopK(r)
  BY <1>3, <1>4, GreatestOf DEF TopK
<1> QED
  BY <1>1, <1>3, <1>5

LEMMA MergedTopKFacts ==
  ASSUME NEW its \in Seq(Requests), NEW r \in ToSet(its)
  PROVE  MergedTopK(its) \in Nat \ {0} /\ TopK(r) <= MergedTopK(its)
<1> DEFINE S == {TopK(q) : q \in ToSet(its)}
<1>1. IsFiniteSet(ToSet(its)) /\ ToSet(its) \in SUBSET Requests
  BY ToSetFinite
<1>2. S \in SUBSET (Nat \ {0}) /\ TopK(r) \in S
  BY <1>1, TopKFacts
<1>3. IsFiniteSet(S)
  <2> DEFINE f == [q \in ToSet(its) |-> TopK(q)]
  <2>1. f \in Surjection(ToSet(its), S)
    BY DEF Surjection
  <2> HIDE DEF f, S
  <2> QED
    BY <1>1, <2>1, FS_Surjection
<1>4. S # {} /\ S \in SUBSET Int
  BY <1>2
<1> HIDE DEF S
<1>5. Max(S) \in S /\ \A k \in S : k <= Max(S)
  BY <1>3, <1>4, GreatestOf
<1>6. MergedTopK(its) = Max(S)
  BY DEF MergedTopK, S
<1> QED
  BY <1>2, <1>5, <1>6

\* What stands at a place of a row.
DocAt(q, j) == IF j <= IndexSize THEN <<q, j>> ELSE Missing

LEMMA DocAtTyped ==
  ASSUME NEW q \in Texts, NEW j \in Nat
  PROVE  /\ DocAt(q, j) \in Docs
         /\ DocAt(q, j) # Missing <=> j <= IndexSize
         /\ j <= IndexSize => DocAt(q, j) = <<q, j>>
<1>1. <<q, j>> \in Texts \X Nat
  OBVIOUS
<1>2. <<q, j>> # Missing
  BY DEF Missing
<1>3. CASE j <= IndexSize
  <2>1. DocAt(q, j) = <<q, j>>
    BY <1>3 DEF DocAt
  <2> QED
    BY <1>1, <1>2, <1>3, <2>1 DEF Docs
<1>4. CASE ~(j <= IndexSize)
  <2>1. DocAt(q, j) = Missing
    BY <1>4 DEF DocAt
  <2> QED
    BY <1>4, <2>1 DEF Docs
<1> QED
  BY <1>3, <1>4

\* A row, and what is left of it when it is cut to fewer places.
LEMMA NearestFacts ==
  ASSUME NEW q \in Texts, NEW k \in Nat
  PROVE  /\ Nearest(q, k) \in Seq(Docs) /\ Len(Nearest(q, k)) = k
         /\ DOMAIN Nearest(q, k) = 1 .. k
         /\ \A j \in 1 .. k : Nearest(q, k)[j] = DocAt(q, j)
<1>1. Nearest(q, k) = [j \in 1 .. k |-> DocAt(q, j)]
  BY DEF Nearest, DocAt
<1>2. \A j \in 1 .. k : DocAt(q, j) \in Docs
  BY DocAtTyped
<1> QED
  BY <1>1, <1>2

LEMMA NearestCut ==
  ASSUME NEW q \in Texts, NEW k \in Nat, NEW n \in Nat, n <= k
  PROVE  SubSeq(Nearest(q, k), 1, n) = Nearest(q, n)
<1>1. PICK s \in Seq(Docs) : s = Nearest(q, k)
  BY NearestFacts
<1>2. Len(s) = k /\ \A j \in 1 .. n : j \in 1 .. k /\ s[j] = DocAt(q, j) /\ s[j] \in Docs
  <2>1. Len(s) = k /\ \A j \in 1 .. k : s[j] = DocAt(q, j) /\ DocAt(q, j) \in Docs
    BY <1>1, NearestFacts, DocAtTyped
  <2>2. \A j \in 1 .. n : j \in 1 .. k
    OBVIOUS
  <2> QED
    BY <2>1, <2>2
<1>3. /\ SubSeq(s, 1, n) \in Seq(Docs)
      /\ Len(SubSeq(s, 1, n)) = IF 1 <= n THEN n - 1 + 1 ELSE 0
      /\ \A j \in 1 .. n - 1 + 1 : SubSeq(s, 1, n)[j] = s[1 + j - 1]
  BY <1>2, SubSeqProperties
<1>4. Len(SubSeq(s, 1, n)) = n /\ \A j \in 1 .. n : SubSeq(s, 1, n)[j] = DocAt(q, j)
  BY <1>2, <1>3
<1>5. /\ Nearest(q, n) \in Seq(Docs) /\ Len(Nearest(q, n)) = n
      /\ \A j \in 1 .. n : Nearest(q, n)[j] = DocAt(q, j)
  BY NearestFacts
<1>6. SubSeq(s, 1, n) = Nearest(q, n)
  BY <1>3, <1>4, <1>5, SeqEqual
<1> QED
  BY <1>1, <1>6

\* The places that are filled come first, so the documents of a row are its hits.
LEMMA ListedHits ==
  ASSUME NEW q \in Texts, NEW k \in Nat
  PROVE  Listed(Nearest(q, k)) = Promise!Hits(q, k)
<1> DEFINE n == Smaller(k, IndexSize)
           f == [j \in 1 .. n |-> j]
<1>1. PICK row : row = Nearest(q, k)
  OBVIOUS
<1>2. DOMAIN row = 1 .. k /\ \A j \in 1 .. k : row[j] = DocAt(q, j)
  BY <1>1, NearestFacts
<1>3. /\ n \in Nat /\ \A j \in 1 .. k : j <= IndexSize <=> j <= n
      /\ \A j \in 1 .. n : j \in 1 .. k
      /\ n = IF k <= IndexSize THEN k ELSE IndexSize
  BY BoundAssumption DEF Smaller
<1> HIDE DEF n
<1>4. \A j \in 1 .. k : row[j] # Missing <=> j <= n
  BY <1>2, <1>3, DocAtTyped
<1>5. {j \in DOMAIN row : row[j] # Missing} = 1 .. n
  <2>1. \A j \in 1 .. k : row[j] # Missing <=> j \in 1 .. n
    BY <1>3, <1>4
  <2> QED
    BY <1>2, <1>3, <2>1
<1>6. InOrder(1 .. n) = f
  <2>1. /\ f \in [1 .. n -> Int] /\ \A i, j \in 1 .. n : i < j => f[i] < f[j]
        /\ 1 .. n = {f[j] : j \in 1 .. n}
    <3>1. n \in Nat
      BY <1>3
    <3>2. f \in [1 .. n -> Int] /\ \A j \in 1 .. n : f[j] = j
      BY <3>1
    <3> HIDE DEF f
    <3> QED
      BY <3>1, <3>2
  <2> HIDE DEF f
  <2> QED
    BY <1>3, <2>1, IncreasingInOrder
<1>7. Listed(row) = [j \in DOMAIN f |-> row[f[j]]]
  <2> HIDE DEF f
  <2> QED
    BY <1>5, <1>6 DEF Listed, Picked
<1>8. DOMAIN f = 1 .. n /\ \A j \in 1 .. n : row[f[j]] = <<q, j>>
  <2>1. DOMAIN f = 1 .. n /\ \A j \in 1 .. n : f[j] = j
    OBVIOUS
  <2>2. \A j \in 1 .. n : row[j] = <<q, j>>
    BY <1>2, <1>3, DocAtTyped
  <2> HIDE DEF f
  <2> QED
    BY <2>1, <2>2
<1> HIDE DEF f
<1>9. Listed(row) = [j \in 1 .. n |-> <<q, j>>]
  BY <1>7, <1>8
<1> QED
  BY <1>1, <1>3, <1>9 DEF Promise!Hits

-----------------------------------------------------------------------------
(* The refinement.                                                         *)

\* The vectors of a request are those of its queries, and its rows hold the
\* documents nearest to each.
OwnRows ==
  \A r \in Requests :
    /\ phase[r] \in {"embedded", "searching"} => embedded[r] = Queries[r]
    /\ phase[r] = "found" =>
         found[r] = [i \in 1 .. Size(r) |-> Nearest(Queries[r][i], TopK(r))]

\* Who gets vectors or rows gets them when a batch ends; nobody else's change.
LEMMA OwnRowsKept ==
  ASSUME OwnRows, UNCHANGED <<embedded, found>>,
         \A r \in Requests :
           /\ phase'[r] \in {"embedded", "searching"} => phase[r] \in {"embedded", "searching"}
           /\ phase'[r] = "found" => phase[r] = "found"
  PROVE  OwnRows'
BY DEF OwnRows, Size, TopK, Nearest

LEMMA EmbedReturnsRows ==
  ASSUME FutureInv, OwnRows, EmbedReturns
  PROVE  OwnRows'
<1>1. PICK its \in Seq(Requests) : its = items["embed"]
  BY DEF FutureInv, Kinds, Stages
<1>2. /\ embedded' = [r \in Requests |->
           IF r \in ToSet(its) THEN RowsOf(AllEmbeddings(its), its, At(its, r))
                               ELSE embedded[r]]
      /\ phase' = [r \in Requests |-> IF r \in ToSet(its) THEN "embedded" ELSE phase[r]]
      /\ found' = found
  BY <1>1 DEF EmbedReturns, Return
<1>3. ASSUME NEW r \in Requests, r \in ToSet(its)
      PROVE  embedded'[r] = Queries[r] /\ phase'[r] = "embedded"
  <2>1. RowsOf(AllQueries(its), its, At(its, r)) = Queries[r]
    BY <1>3, OwnSlice
  <2>2. AllEmbeddings(its) = AllQueries(its)
    BY EmbeddingsInOrder
  <2> QED
    BY <1>2, <1>3, <2>1, <2>2
<1>4. ASSUME NEW r \in Requests, r \notin ToSet(its)
      PROVE  embedded'[r] = embedded[r] /\ phase'[r] = phase[r]
  BY <1>2, <1>4
<1>5. ASSUME NEW r \in Requests
      PROVE  /\ phase'[r] \in {"embedded", "searching"} => embedded'[r] = Queries[r]
             /\ phase'[r] = "found" =>
                  found'[r] = [i \in 1 .. Size(r) |-> Nearest(Queries[r][i], TopK(r))]
  <2>1. CASE r \in ToSet(its)
    BY <1>3, <2>1
  <2>2. CASE r \notin ToSet(its)
    BY <1>2, <1>4, <2>2 DEF OwnRows
  <2> QED
    BY <2>1, <2>2
<1> QED
  BY <1>5 DEF OwnRows

\* The rows of a batch, for the queries of all its requests.
Rows(its) ==
  [i \in 1 .. Len(AllQueries(its)) |-> Nearest(AllQueries(its)[i], MergedTopK(its))]

LEMMA RowsAreOwn ==
  ASSUME NEW its \in Seq(Requests), NEW r \in ToSet(its), NEW i \in 1 .. Size(r)
  PROVE  SubSeq(RowsOf(Rows(its), its, At(its, r))[i], 1, Smaller(TopK(r), MergedTopK(its)))
           = Nearest(Queries[r][i], TopK(r))
<1>1. PICK all : all = AllQueries(its)
  OBVIOUS
<1>2. PICK b : b = Offset(its, At(its, r))
  OBVIOUS
<1>3. PICK M : M = MergedTopK(its)
  OBVIOUS
<1>4. /\ all \in Seq(Texts) /\ Len(all) \in Nat /\ \A j \in 1 .. Len(all) : all[j] \in Texts
  BY <1>1, AllQueriesTyped, LenProperties, ElementOfSeq
<1>5. /\ b \in Nat /\ Size(r) \in Nat /\ b + Size(r) <= Len(all)
      /\ \A j \in 1 .. Size(r) : all[b + j] = Queries[r][j]
  BY <1>1, <1>2, OwnSlice
<1>6. r \in Requests /\ its[At(its, r)] = r
  BY BatchPlace
<1>7. M \in Nat /\ TopK(r) \in Nat /\ TopK(r) <= M
  BY <1>3, <1>6, TopKFacts, MergedTopKFacts
<1>8. PICK rows : rows = Rows(its)
  OBVIOUS
<1>9. \A j \in 1 .. Len(all) : rows[j] = Nearest(all[j], M)
  BY <1>1, <1>3, <1>8 DEF Rows
<1>10. \A j \in 1 .. Len(all) : rows[j] \in Seq(Docs)
  <2> TAKE j \in 1 .. Len(all)
  <2>1. all[j] \in Texts /\ rows[j] = Nearest(all[j], M)
    BY <1>4, <1>9
  <2>2. Nearest(all[j], M) \in Seq(Docs)
    BY <1>7, <2>1, NearestFacts
  <2> QED
    BY <2>1, <2>2
<1>11. RowsOf(rows, its, At(its, r)) = SubSeq(rows, b + 1, b + Size(r))
  BY <1>2, <1>6 DEF RowsOf
<1>12. SubSeq(rows, b + 1, b + Size(r))[i] = rows[b + i]
  <2>1. b + 1 \in Int /\ b + Size(r) \in Int
    BY <1>5
  <2>2. \A j \in b + 1 .. b + Size(r) : rows[j] \in Seq(Docs)
    <3>1. \A j \in b + 1 .. b + Size(r) : j \in 1 .. Len(all)
      BY <1>4, <1>5
    <3> QED
      BY <1>10, <3>1
  <2>3. \A j \in 1 .. (b + Size(r)) - (b + 1) + 1 :
           SubSeq(rows, b + 1, b + Size(r))[j] = rows[(b + 1) + j - 1]
    BY <2>1, <2>2, SubSeqProperties
  <2>4. i \in 1 .. (b + Size(r)) - (b + 1) + 1 /\ (b + 1) + i - 1 = b + i
    BY <1>5
  <2> QED
    BY <2>3, <2>4
<1>13. b + i \in 1 .. Len(all) /\ all[b + i] = Queries[r][i]
  BY <1>4, <1>5
<1>14. rows[b + i] = Nearest(Queries[r][i], M) /\ Queries[r][i] \in Texts
  BY <1>4, <1>9, <1>13
<1>15. SubSeq(Nearest(Queries[r][i], M), 1, TopK(r)) = Nearest(Queries[r][i], TopK(r))
  BY <1>7, <1>14, NearestCut
<1>16. Smaller(TopK(r), M) = TopK(r)
  BY <1>7 DEF Smaller
<1> QED
  BY <1>3, <1>8, <1>11, <1>12, <1>14, <1>15, <1>16

LEMMA SearchReturnsRows ==
  ASSUME FutureInv, OwnRows, SearchReturns
  PROVE  OwnRows'
<1>1. PICK its \in Seq(Requests) : its = items["search"]
  BY DEF FutureInv, Kinds, Stages
<1>2. FlattenSeq([j \in 1 .. Len(its) |-> embedded[its[j]]]) = AllQueries(its)
  <2>1. ASSUME NEW j \in 1 .. Len(its)
        PROVE  embedded[its[j]] = Queries[its[j]]
    <3>1. its[j] \in ToSet(its)
      BY ToSetFinite
    <3>2. loop["search"] = "calling"
      BY DEF SearchReturns
    <3>3. its[j] \in Waiting("search")
      BY <1>1, <3>1, <3>2, BatchIsNew DEF Stages
    <3> QED
      BY <3>3 DEF OwnRows, Waiting, PhaseAt
  <2>2. [j \in 1 .. Len(its) |-> embedded[its[j]]] = [j \in 1 .. Len(its) |-> Queries[its[j]]]
    BY <2>1
  <2> QED
    BY <2>2 DEF AllQueries
<1>3. /\ found' = [r \in Requests |->
           IF r \in ToSet(its)
             THEN [i \in 1 .. Size(r) |->
                     SubSeq(RowsOf(Rows(its), its, At(its, r))[i], 1,
                            Smaller(TopK(r), MergedTopK(its)))]
             ELSE found[r]]
      /\ phase' = [r \in Requests |-> IF r \in ToSet(its) THEN "found" ELSE phase[r]]
      /\ embedded' = embedded
  BY <1>1, <1>2 DEF SearchReturns, Return, Rows
<1>4. ASSUME NEW r \in Requests, r \in ToSet(its)
      PROVE  /\ phase'[r] = "found"
             /\ found'[r] = [i \in 1 .. Size(r) |-> Nearest(Queries[r][i], TopK(r))]
  <2>1. \A i \in 1 .. Size(r) :
           SubSeq(RowsOf(Rows(its), its, At(its, r))[i], 1, Smaller(TopK(r), MergedTopK(its)))
             = Nearest(Queries[r][i], TopK(r))
    BY <1>4, RowsAreOwn
  <2> QED
    BY <1>3, <1>4, <2>1
<1>5. ASSUME NEW r \in Requests
      PROVE  /\ phase'[r] \in {"embedded", "searching"} => embedded'[r] = Queries[r]
             /\ phase'[r] = "found" =>
                  found'[r] = [i \in 1 .. Size(r) |-> Nearest(Queries[r][i], TopK(r))]
  <2>1. CASE r \in ToSet(its)
    BY <1>4, <2>1
  <2>2. CASE r \notin ToSet(its)
    BY <1>3, <2>2 DEF OwnRows
  <2> QED
    BY <2>1, <2>2
<1> QED
  BY <1>5 DEF OwnRows

LEMMA OwnRowsStep ==
  ASSUME FutureInv, OwnRows, [Next]_vars
  PROVE  OwnRows'
<1>1. phase \in [Requests -> Phases]
  BY DEF FutureInv, Kinds
<1>2. CASE UNCHANGED <<phase, embedded, found>>
  BY <1>2, OwnRowsKept
<1>3. ASSUME NEW r \in Requests, Arrive(r) \/ Handler(r)
      PROVE  OwnRows'
  <2>1. UNCHANGED <<embedded, found>>
    BY <1>3 DEF Arrive, Handler, EnterSearch, Respond, Enter
  <2>2. \/ phase[r] = "idle" /\ phase' = [phase EXCEPT ![r] = "embedding"]
        \/ phase[r] = "embedded" /\ phase' = [phase EXCEPT ![r] = "searching"]
        \/ phase[r] = "found" /\ phase' = [phase EXCEPT ![r] = "answered"]
    BY <1>3 DEF Arrive, Handler, EnterSearch, Respond, Enter
  <2> QED
    BY <1>1, <2>1, <2>2, OwnRowsKept
<1>4. CASE EmbedFails \/ SearchFails
  <2>1. /\ UNCHANGED <<embedded, found>>
        /\ \E s \in Stages : \E kind \in {"error", "invalid"} : Return(s, kind)
    BY <1>4 DEF EmbedFails, SearchFails, Stages
  <2>2. \A r \in Requests : phase'[r] \in {"error", "invalid"} \/ phase'[r] = phase[r]
    BY <2>1 DEF Return
  <2> QED
    BY <2>1, <2>2, OwnRowsKept
<1>5. ASSUME NEW s \in Stages, Drain(s)
      PROVE  OwnRows'
  BY <1>2, <1>5 DEF Drain, TakeFirst, TakeMore, CloseWindow, Collect
<1>6. ASSUME NEW p \in posts, Post(p)
      PROVE  OwnRows'
  BY <1>2, <1>6 DEF Post, Send, PostSucceeds, PostBacksOff, Resend, PostFails, Abandoned
<1>7. CASE BeginStop \/ Stopping \/ UNCHANGED vars
  BY <1>2, <1>7 DEF BeginStop, Stopping, CancelAtGet, SearchStopped, EmbedStopped, vars
<1> QED
  BY <1>3, <1>4, <1>5, <1>6, <1>7, EmbedReturnsRows, SearchReturnsRows
     DEF Next, Work, Returns

\* What a request sees of the service.
Status == [r \in Requests |-> IF phase[r] \in Ended THEN phase[r] ELSE "pending"]

\* A handler that responds gives each query the documents it asked for.
LEMMA RespondAnswers ==
  ASSUME FutureInv, OwnRows, NEW r \in Requests, Respond(r)
  PROVE  /\ Status[r] = "pending" /\ Status' = [Status EXCEPT ![r] = "answered"]
         /\ answer' = [answer EXCEPT ![r] = Promise!Expected(r)]
<1>1. /\ phase[r] = "found" /\ phase' = [phase EXCEPT ![r] = "answered"]
      /\ phase \in [Requests -> Phases]
  BY DEF Respond, FutureInv, Kinds
<1>2. Status[r] = "pending" /\ Status' = [Status EXCEPT ![r] = "answered"]
  BY <1>1 DEF Status, Ended
<1>3. PICK row : row = found[r]
  OBVIOUS
<1>4. row = [i \in 1 .. Size(r) |-> Nearest(Queries[r][i], TopK(r))]
  BY <1>1, <1>3 DEF OwnRows
<1>5. /\ Queries[r] \in Seq(Texts) /\ Size(r) \in Nat
      /\ \A i \in 1 .. Size(r) : Queries[r][i] \in Texts
  BY RequestsAssumption, LenProperties, ElementOfSeq DEF Size, Texts
<1>6. Len(row) = Size(r)
  BY <1>4, <1>5
<1>7. ASSUME NEW i \in 1 .. Size(r)
      PROVE  Listed(SubSeq(row[i], 1, Smaller(Ks[r][i], Len(row[i]))))
               = Promise!Hits(Queries[r][i], Ks[r][i])
  <2>1. /\ Queries[r][i] \in Texts /\ TopK(r) \in Nat /\ Ks[r][i] \in Nat
        /\ Ks[r][i] <= TopK(r)
    BY <1>5, TopKFacts
  <2>2. row[i] = Nearest(Queries[r][i], TopK(r))
    BY <1>4
  <2>3. Len(row[i]) = TopK(r)
    BY <2>1, <2>2, NearestFacts
  <2>4. Smaller(Ks[r][i], Len(row[i])) = Ks[r][i]
    BY <2>1, <2>3 DEF Smaller
  <2>5. SubSeq(row[i], 1, Ks[r][i]) = Nearest(Queries[r][i], Ks[r][i])
    BY <2>1, <2>2, NearestCut
  <2> QED
    BY <2>1, <2>4, <2>5, ListedHits
<1>8. [i \in 1 .. Len(row) |-> Listed(SubSeq(row[i], 1, Smaller(Ks[r][i], Len(row[i]))))]
        = Promise!Expected(r)
  BY <1>6, <1>7 DEF Promise!Expected, Size
<1>9. answer' = [answer EXCEPT ![r] =
        [i \in 1 .. Len(row) |-> Listed(SubSeq(row[i], 1, Smaller(Ks[r][i], Len(row[i]))))]]
  BY <1>3 DEF Respond
<1> QED
  BY <1>2, <1>8, <1>9

\* A batch that ends well is not seen; one that fails fails its requests.
LEMMA ReturnSeen ==
  ASSUME FutureInv, NEW s \in Stages, loop[s] = "calling",
         NEW outcome, Return(s, outcome)
  PROVE  /\ \A r \in ToSet(items[s]) : r \in Requests /\ Status[r] = "pending"
         /\ Status' = [r \in Requests |->
              IF r \in ToSet(items[s])
                THEN (IF outcome \in Ended THEN outcome ELSE "pending")
                ELSE Status[r]]
<1>1. phase' = [r \in Requests |-> IF r \in ToSet(items[s]) THEN outcome ELSE phase[r]]
  BY DEF Return
<1>2. ToSet(items[s]) \subseteq Waiting(s)
  BY BatchIsNew
<1>3. \A r \in ToSet(items[s]) : r \in Requests /\ phase[r] \notin Ended
  BY <1>2 DEF Waiting, PhaseAt, Ended
<1> QED
  BY <1>1, <1>3 DEF Status

LEMMA PromiseStep ==
  ASSUME FutureInv, OwnRows, [Next]_vars
  PROVE  [Promise!Next]_(Promise!vars)
<1>1. phase \in [Requests -> Phases]
  BY DEF FutureInv, Kinds
<1>2. CASE Status' = Status /\ answer' = answer
  BY <1>2 DEF Promise!vars, Status
<1>3. ASSUME NEW r \in Requests, Arrive(r)
      PROVE  Promise!Ask(r)
  <2>1. /\ phase[r] = "idle" /\ phase' = [phase EXCEPT ![r] = "embedding"]
        /\ answer' = answer
    BY <1>3 DEF Arrive, Enter
  <2>2. Status[r] = "idle" /\ Status' = [Status EXCEPT ![r] = "pending"]
    BY <1>1, <2>1 DEF Status, Ended
  <2> QED
    BY <2>1, <2>2 DEF Promise!Ask, Status
<1>4. ASSUME NEW r \in Requests, EnterSearch(r)
      PROVE  Status' = Status /\ answer' = answer
  <2>1. /\ phase[r] = "embedded" /\ phase' = [phase EXCEPT ![r] = "searching"]
        /\ answer' = answer
    BY <1>4 DEF EnterSearch, Enter
  <2> QED
    BY <1>1, <2>1 DEF Status, Ended
<1>5. ASSUME NEW r \in Requests, Respond(r)
      PROVE  Promise!Answer(r)
  BY <1>5, RespondAnswers DEF Promise!Answer, Status
<1>6. CASE EmbedReturns \/ SearchReturns
  <2>1. /\ answer' = answer
        /\ \E s \in Stages : \E outcome \in {"embedded", "found"} :
             loop[s] = "calling" /\ Return(s, outcome)
    BY <1>6 DEF EmbedReturns, SearchReturns, Return, Stages
  <2>2. PICK s \in Stages, outcome \in {"embedded", "found"} :
          loop[s] = "calling" /\ Return(s, outcome)
    BY <2>1
  <2>3. /\ \A r \in ToSet(items[s]) : r \in Requests /\ Status[r] = "pending"
        /\ Status' = [r \in Requests |->
             IF r \in ToSet(items[s])
               THEN (IF outcome \in Ended THEN outcome ELSE "pending")
               ELSE Status[r]]
    BY <2>2, ReturnSeen
  <2>4. outcome \notin Ended
    BY DEF Ended
  <2>5. Status' = [r \in Requests |-> Status[r]]
    BY <2>3, <2>4
  <2>6. Status' = Status
    BY <2>5 DEF Status
  <2> QED
    BY <1>2, <2>1, <2>6
<1>7. CASE EmbedFails \/ SearchFails
  <2>1. /\ answer' = answer
        /\ \E s \in Stages : \E kind \in {"error", "invalid"} :
             loop[s] = "calling" /\ Return(s, kind)
    BY <1>7 DEF EmbedFails, SearchFails, Return, Stages
  <2>2. PICK s \in Stages, kind \in {"error", "invalid"} :
          loop[s] = "calling" /\ Return(s, kind)
    BY <2>1
  <2>3. /\ \A r \in ToSet(items[s]) : r \in Requests /\ Status[r] = "pending"
        /\ Status' = [r \in Requests |->
             IF r \in ToSet(items[s])
               THEN (IF kind \in Ended THEN kind ELSE "pending")
               ELSE Status[r]]
    BY <2>2, ReturnSeen
  <2>4. kind \in Ended
    BY DEF Ended
  <2>5. PICK S \in SUBSET Requests : S = ToSet(items[s])
    BY <2>3
  <2>6. Status' = [r \in Requests |-> IF r \in S THEN kind ELSE Status[r]]
    BY <2>3, <2>4, <2>5
  <2>7. \A r \in S : Status[r] = "pending"
    BY <2>3, <2>5
  <2>8. Promise!Fail(S, kind)
    BY <2>1, <2>6, <2>7 DEF Promise!Fail, Status
  <2> QED
    BY <2>8 DEF Promise!Next
<1>8. ASSUME NEW s \in Stages, Drain(s)
      PROVE  [Promise!Next]_(Promise!vars)
  BY <1>2, <1>8 DEF Drain, TakeFirst, TakeMore, CloseWindow, Collect, Status
<1>9. ASSUME NEW p \in posts, Post(p)
      PROVE  [Promise!Next]_(Promise!vars)
  BY <1>2, <1>9
     DEF Post, Send, PostSucceeds, PostBacksOff, Resend, PostFails, Abandoned, Status
<1>10. CASE BeginStop \/ Stopping \/ UNCHANGED vars
  BY <1>2, <1>10
     DEF BeginStop, Stopping, CancelAtGet, SearchStopped, EmbedStopped, vars, Status
<1>11. ASSUME NEW r \in Requests, Arrive(r) \/ Handler(r)
       PROVE  [Promise!Next]_(Promise!vars)
  BY <1>2, <1>3, <1>4, <1>5, <1>11 DEF Promise!Next, Handler
<1> QED
  BY <1>6, <1>7, <1>8, <1>9, <1>10, <1>11 DEF Next, Work, Returns

(* Whatever requests share a batch, however it is split into posts, and    *)
(* whatever fails or is retried: each request is answered as if it were    *)
(* alone, with the documents nearest to each of its queries, or fails.     *)
THEOREM EachAnsweredAlone == Spec => ImplementsPromise
<1>1. Init => OwnRows /\ Promise!Init
  <2> SUFFICES ASSUME Init PROVE OwnRows /\ Promise!Init
    OBVIOUS
  <2>1. phase = [r \in Requests |-> "idle"] /\ answer = [r \in Requests |-> <<>>]
    BY DEF Init
  <2>2. OwnRows
    BY <2>1 DEF OwnRows
  <2>3. Promise!Init
    BY <2>1 DEF Promise!Init, Ended
  <2> QED
    BY <2>2, <2>3
<1>2. FutureInv /\ OwnRows /\ [Next]_vars => OwnRows' /\ [Promise!Next]_(Promise!vars)
  BY OwnRowsStep, PromiseStep
<1> QED
  BY <1>1, <1>2, FutureInvAlways, PTL DEF Spec, ImplementsPromise, Promise!Spec

=============================================================================
