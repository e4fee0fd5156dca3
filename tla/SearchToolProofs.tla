--------------------------- MODULE SearchToolProofs ---------------------------
(***************************************************************************)
(* Proofs about SearchTool, for any calls, numbers of attempts and orders  *)
(* of late answers: a call whose arguments the tool accepts is not refused *)
(* by the endpoint, and each list of results belongs to its query; and a   *)
(* call takes no more than its attempts.                                   *)
(*                                                                         *)
(* The first two rest on one fact: when no query is blank, the endpoint    *)
(* finds the same queries and the same numbers in a request as the tool    *)
(* put into it, although both normalise them and the tool may send one     *)
(* number for all.                                                         *)
(***************************************************************************)
EXTENDS SearchTool, OrderedFacts

Statuses == {"idle", "pending", "answered", "error", "invalid"}
Places == {"new", "posted", "backoff"} \cup Returned

NoBlank(c) == \A i \in 1 .. Len(Asked[c]) : Asked[c][i] # " "
OnlyBlanks(c) == \A i \in 1 .. Len(Asked[c]) : Asked[c][i] \in {"", " "}

TypesInv ==
  /\ status \in [Requests -> Statuses]
  /\ DOMAIN reply = Requests
  /\ call \in [Calls -> Places]
  /\ attempt \in [Calls -> 0 .. MaxAttempts]
  /\ DOMAIN result = Calls

\* A call is posted only if the tool accepted its arguments, and is posted
\* again only if attempts are left.
CallInv ==
  \A c \in Calls :
    /\ call[c] = "new" => attempt[c] = 0
    /\ call[c] = "backoff" => attempt[c] < MaxAttempts
    /\ call[c] \in {"posted", "api_error"} => attempt[c] >= 1
    /\ call[c] \in {"posted", "backoff", "success"} =>
         ClientQueries(c) # <<>> /\ ClientKs(c) # <<>> /\ ServerQueries(c) # <<>>

\* The service answers each request with what it promises.
AnswerInv ==
  \A r \in Requests : status[r] = "answered" => reply[r] = Service!Expected(r)

AlignedUnlessBlank ==
  \A c \in Calls : call[c] = "success" /\ NoBlank(c) =>
    \A i \in 1 .. Len(ClientQueries(c)) :
      result[c][i] = Service!Hits(ClientQueries(c)[i], ClientKs(c)[i])

IInv == TypesInv /\ CallInv /\ AnswerInv /\ AcceptedArguments /\ AlignedUnlessBlank

-----------------------------------------------------------------------------
(* Normalisation. *)

KeptFrom(kept, queries, dropped) ==
  /\ kept \in Seq(STRING)
  /\ \A i \in 1 .. Len(kept) :
       /\ kept[i] \notin dropped
       /\ \E j \in 1 .. Len(queries) : kept[i] = queries[j]

LEMMA KeptFacts ==
  ASSUME NEW queries \in Seq(STRING), NEW dropped
  PROVE  KeptFrom(Kept(queries, dropped), queries, dropped)
<1> DEFINE I == {i \in DOMAIN queries : queries[i] \notin dropped}
           kept == Picked(queries, I)
<1>1. I \in SUBSET DOMAIN queries /\ DOMAIN queries = 1 .. Len(queries)
  BY LenProperties
<1>2. \A i \in I : queries[i] \notin dropped
  OBVIOUS
<1> HIDE DEF I
<1>3. /\ kept \in Seq(STRING) /\ Len(kept) = Cardinality(I)
      /\ \A k \in 1 .. Cardinality(I) : /\ InOrder(I)[k] \in I
                                        /\ kept[k] = queries[InOrder(I)[k]]
  BY <1>1, PickedFacts
<1> HIDE DEF kept
<1>4. Kept(queries, dropped) = kept
  BY DEF Kept, kept, I
<1> QED
  BY <1>1, <1>2, <1>3, <1>4 DEF KeptFrom

\* A list without anything to drop is kept as it is.
LEMMA KeptAll ==
  ASSUME NEW queries \in Seq(STRING), NEW dropped,
         \A i \in 1 .. Len(queries) : queries[i] \notin dropped
  PROVE  Kept(queries, dropped) = queries
<1>1. DOMAIN queries = 1 .. Len(queries)
  BY LenProperties
<1>2. {i \in DOMAIN queries : queries[i] \notin dropped} = DOMAIN queries
  BY <1>1
<1> QED
  BY <1>2, PickedAll DEF Kept

\* When no query is blank, both sides see the same queries.
LEMMA SameQueries ==
  ASSUME NEW c \in Calls
  PROVE  /\ ClientQueries(c) \in Seq(STRING) /\ ServerQueries(c) \in Seq(STRING)
         /\ NoBlank(c) => ServerQueries(c) = ClientQueries(c)
         /\ OnlyBlanks(c) => ServerQueries(c) = <<>>
<1>1. Asked[c] \in Seq(STRING)
  BY ToolAssumption
<1> DEFINE qs == ClientQueries(c)
           ss == ServerQueries(c)
           none == {""}
           blank == {"", " "}
<1>2. qs = Kept(Asked[c], none) /\ ss = Kept(qs, blank)
  BY DEF ClientQueries, ServerQueries
<1> HIDE DEF qs, ss, none, blank
<1>3. /\ qs \in Seq(STRING)
      /\ \A i \in 1 .. Len(qs) : /\ qs[i] # ""
                                 /\ \E j \in 1 .. Len(Asked[c]) : qs[i] = Asked[c][j]
  <2>1. /\ qs \in Seq(STRING)
        /\ \A i \in 1 .. Len(qs) : /\ qs[i] \notin none
                                   /\ \E j \in 1 .. Len(Asked[c]) : qs[i] = Asked[c][j]
    <3>1. KeptFrom(Kept(Asked[c], none), Asked[c], none)
      BY <1>1, KeptFacts, Zenon
    <3> QED
      BY <3>1, <1>2 DEF KeptFrom
  <2> QED
    BY <2>1 DEF none
<1>4. /\ ss \in Seq(STRING)
      /\ \A i \in 1 .. Len(ss) : /\ ss[i] \notin blank
                                 /\ \E j \in 1 .. Len(qs) : ss[i] = qs[j]
  <2>1. KeptFrom(Kept(qs, blank), qs, blank)
    BY <1>3, KeptFacts, Zenon
  <2> QED
    BY <2>1, <1>2 DEF KeptFrom
<1>5. ASSUME NoBlank(c) PROVE ss = qs
  <2>1. \A i \in 1 .. Len(qs) : qs[i] \notin blank
    BY <1>3, <1>5 DEF NoBlank, blank
  <2> QED
    BY <1>3, <1>2, <2>1, KeptAll
<1>6. ASSUME OnlyBlanks(c) PROVE ss = <<>>
  <2>1. \A i \in 1 .. Len(qs) : qs[i] \in blank
    BY <1>3, <1>6 DEF OnlyBlanks, blank
  <2>2. ASSUME Len(ss) >= 1 PROVE FALSE
    <3>1. 1 \in 1 .. Len(ss)
      BY <1>4, <2>2, LenProperties
    <3> QED
      BY <3>1, <2>1, <1>4
  <2> QED
    BY <2>2, <1>4, LenProperties, EmptySeq
<1> QED
  BY <1>3, <1>4, <1>5, <1>6 DEF qs, ss

\* What the tool sends for its numbers is read back as these numbers.
LEMMA SameNumbers ==
  ASSUME NEW c \in Calls, ClientQueries(c) # <<>>, ClientKs(c) # <<>>
  PROVE  LET n == Len(ClientQueries(c)) IN
         /\ n \in Nat \ {0}
         /\ ClientKs(c) \in [1 .. n -> Nat \ {0}]
         /\ KList(SentK(c), n) = ClientKs(c)
<1> DEFINE n == Len(ClientQueries(c))
           ks == ClientKs(c)
           k == KArg[c]
<1>1. n \in Nat \ {0}
  BY SameQueries, EmptySeq
<1> HIDE DEF n
<1>2. k \in Seq(Int) /\ DefaultK \in Nat \ {0} /\ Len(k) \in Nat
  BY ToolAssumption, LenProperties
<1>3. ks = KList(k, n)
  BY DEF ClientKs, n
<1>4. ks \in [1 .. n -> Nat \ {0}]
  <2>1. CASE k = <<>>
    BY <2>1, <1>1, <1>2, <1>3 DEF KList
  <2>2. CASE k # <<>>
    <3>1. /\ Len(k) \in {1, n} /\ \A i \in 1 .. Len(k) : ~ (k[i] <= 0)
          /\ ks = [i \in 1 .. n |-> k[IF Len(k) = 1 THEN 1 ELSE i]]
      BY <2>2, <1>3 DEF KList
    <3>2. \A i \in 1 .. Len(k) : k[i] \in Nat \ {0}
      BY <3>1, <1>2, ElementOfSeq
    <3> QED
      BY <3>1, <3>2, <1>1
  <2> QED
    BY <2>1, <2>2
<1> HIDE DEF ks, k
<1>5. ks \in Seq(Nat \ {0}) /\ Len(ks) = n
  BY <1>1, <1>4
<1>6. KList(SentK(c), n) = ks
  <2>1. CASE \A i \in 1 .. n : ks[i] = ks[1]
    <3>1. SentK(c) = <<ks[1]>>
      BY <2>1, <1>5 DEF SentK, ks
    <3>2. ks[1] \in Nat \ {0}
      BY <1>1, <1>4
    <3>3. KList(<<ks[1]>>, n) = [i \in 1 .. n |-> ks[1]]
      BY <3>2, <1>1 DEF KList
    <3> QED
      BY <3>1, <3>3, <2>1, <1>4
  <2>2. CASE ~ \A i \in 1 .. n : ks[i] = ks[1]
    <3>1. SentK(c) = ks
      BY <2>2, <1>5 DEF SentK, ks
    <3>2. n # 1
      BY <2>2
    <3>3. KList(ks, n) = [i \in 1 .. n |-> ks[i]]
      BY <3>2, <1>1, <1>4, <1>5 DEF KList
    <3> QED
      BY <3>1, <3>3, <1>4
  <2> QED
    BY <2>1, <2>2
<1> QED
  BY <1>1, <1>4, <1>6 DEF n, ks

-----------------------------------------------------------------------------
(* The steps. *)

\* A call that may be posted has accepted arguments, and without a blank query
\* the endpoint accepts them too.
LEMMA AcceptedHere ==
  ASSUME IInv, NEW c \in Calls, MayPost(c), NoBlank(c)
  PROVE  ServerQueries(c) # <<>> /\ ServerKs(c) # <<>>
<1>1. ClientQueries(c) # <<>> /\ ClientKs(c) # <<>>
  BY DEF MayPost, IInv, CallInv
<1>2. ServerQueries(c) = ClientQueries(c)
  BY SameQueries
<1>3. ServerKs(c) = ClientKs(c)
  BY <1>1, <1>2, SameNumbers DEF ServerKs
<1> QED
  BY <1>1, <1>2, <1>3

\* The answer to a call without a blank query, cut as the tool cuts it.
LEMMA RowsFit ==
  ASSUME IInv, NEW c \in Calls, NEW r \in Requests, r[1] = c, NoBlank(c),
         ClientQueries(c) # <<>>, ClientKs(c) # <<>>, status[r] = "answered",
         NEW i \in 1 .. Len(ClientQueries(c))
  PROVE  LET rows == Padded(reply[r], Len(ClientQueries(c))) IN
         /\ i \in 1 .. Len(rows)
         /\ Cut(rows[i], ClientKs(c)[i]) = Service!Hits(ClientQueries(c)[i], ClientKs(c)[i])
<1> DEFINE qs == ClientQueries(c)
           ks == ClientKs(c)
           n == Len(qs)
           row == Service!Hits(qs[i], ks[i])
           rows == Padded(reply[r], n)
<1>1. /\ n \in Nat \ {0} /\ ks \in [1 .. n -> Nat \ {0}]
      /\ KList(SentK(c), n) = ks
  BY SameNumbers
<1>2. ServerQueries(c) = qs /\ ServerKs(c) = ks
  BY <1>1, SameQueries DEF ServerKs
<1>3. reply[r] = [j \in 1 .. n |-> Service!Hits(qs[j], ks[j])]
  BY <1>2 DEF IInv, AnswerInv, Service!Expected
<1> HIDE DEF qs, ks, n
<1>4. i \in 1 .. n
  BY DEF n, qs
<1>5. Len(reply[r]) = n
  BY <1>1, <1>3
<1>6. Len(rows) = n /\ rows[i] = row
  BY <1>1, <1>3, <1>4, <1>5 DEF Padded
<1>7. row \in Seq({qs[i]} \X Nat) /\ Len(row) <= ks[i] /\ ks[i] \in Nat
  <2>1. ks[i] \in Nat /\ IndexSize \in Nat
    BY <1>1, <1>4, ToolAssumption
  <2> QED
    BY <2>1 DEF Service!Hits
<1> HIDE DEF row, rows
<1>8. Cut(row, ks[i]) = row
  <2>1. Len(row) \in Nat
    BY <1>7, LenProperties
  <2>2. Cut(row, ks[i]) = SubSeq(row, 1, Len(row))
    BY <1>7, <2>1 DEF Cut
  <2> QED
    BY <2>2, <1>7, SubSeqFull
<1> QED
  BY <1>4, <1>6, <1>8 DEF row, rows, qs, ks, n

LEMMA InitOK == Init => IInv
<1> SUFFICES ASSUME Init PROVE IInv
  OBVIOUS
<1>1. TypesInv
  BY ToolAssumption DEF Init, TypesInv, Service!Init, Statuses, Places
<1> QED
  BY <1>1 DEF Init, IInv, CallInv, AnswerInv, AcceptedArguments, AlignedUnlessBlank,
              Service!Init, TypesInv

\* Answers and refusals of the service are final.
LEMMA RefusalStays ==
  ASSUME IInv, \A r \in Requests : status[r] = "invalid" => status'[r] = "invalid",
         NEW c \in Calls, call[c] = "api_error", attempt[c] < MaxAttempts, NoBlank(c)
  PROVE  status'[<<c, attempt[c]>>] = "invalid"
<1>1. status[<<c, attempt[c]>>] = "invalid"
  BY DEF IInv, AcceptedArguments, NoBlank
<1>2. <<c, attempt[c]>> \in Requests
  BY ToolAssumption DEF IInv, CallInv, TypesInv, Requests
<1> QED
  BY <1>1, <1>2

\* A step of a call, which may ask the service.
LEMMA CallStep ==
  ASSUME IInv, NEW c \in Calls,
         status' \in [Requests -> Statuses], reply' = reply,
         \A r \in Requests : status[r] = "invalid" => status'[r] = "invalid",
         \A r \in Requests : status'[r] = "answered" => status[r] = "answered",
         NEW place \in Places, call' = [call EXCEPT ![c] = place],
         NEW n \in 0 .. MaxAttempts, attempt' = [attempt EXCEPT ![c] = n],
         DOMAIN result' = Calls, \A d \in Calls \ {c} : result'[d] = result[d],
         place # "new",
         place = "backoff" => n < MaxAttempts,
         place \in {"posted", "api_error"} => n >= 1,
         place \in {"posted", "backoff", "success"} =>
           ClientQueries(c) # <<>> /\ ClientKs(c) # <<>> /\ ServerQueries(c) # <<>>,
         place = "api_error" /\ n < MaxAttempts /\ NoBlank(c) =>
           status'[<<c, n>>] = "invalid",
         place = "success" /\ NoBlank(c) =>
           \A i \in 1 .. Len(ClientQueries(c)) :
             result'[c][i] = Service!Hits(ClientQueries(c)[i], ClientKs(c)[i])
  PROVE  IInv'
<1>1. TypesInv'
  BY DEF IInv, TypesInv
<1>2. /\ call'[c] = place /\ attempt'[c] = n
      /\ \A d \in Calls \ {c} : call'[d] = call[d] /\ attempt'[d] = attempt[d]
  BY DEF IInv, TypesInv
<1>3. CallInv'
  BY <1>2 DEF IInv, CallInv
<1>4. AnswerInv'
  BY DEF IInv, AnswerInv
<1>5. AcceptedArguments'
  <2> SUFFICES ASSUME NEW d \in Calls, call'[d] = "api_error", attempt'[d] < MaxAttempts,
                      \A i \in 1 .. Len(Asked[d]) : Asked[d][i] # " "
               PROVE  status'[<<d, attempt'[d]>>] = "invalid"
    BY DEF AcceptedArguments
  <2>1. NoBlank(d)
    BY DEF NoBlank
  <2>2. CASE d = c
    BY <2>1, <2>2, <1>2
  <2>3. CASE d # c
    <3>1. call[d] = "api_error" /\ attempt[d] < MaxAttempts /\ attempt'[d] = attempt[d]
      BY <1>2, <2>3
    <3> QED
      BY <2>1, <3>1, RefusalStays
  <2> QED
    BY <2>2, <2>3
<1>6. AlignedUnlessBlank'
  BY <1>2 DEF IInv, AlignedUnlessBlank
<1> QED
  BY <1>1, <1>3, <1>4, <1>5, <1>6 DEF IInv

\* What CallStep asks of a step that leaves the service, or the results, alone.
LEMMA ServiceStill ==
  ASSUME IInv, UNCHANGED <<status, reply>>
  PROVE  /\ status' \in [Requests -> Statuses] /\ reply' = reply
         /\ \A r \in Requests : status[r] = "invalid" => status'[r] = "invalid"
         /\ \A r \in Requests : status'[r] = "answered" => status[r] = "answered"
  BY DEF IInv, TypesInv

LEMMA ResultsStill ==
  ASSUME IInv, NEW c \in Calls, UNCHANGED result
  PROVE  DOMAIN result' = Calls /\ \A d \in Calls \ {c} : result'[d] = result[d]
  BY DEF IInv, TypesInv

\* A step of the service: answers stay, and are what was promised.
LEMMA ServiceStep ==
  ASSUME IInv, UNCHANGED <<call, attempt, result>>,
         status' \in [Requests -> Statuses], DOMAIN reply' = Requests,
         \A r \in Requests : status[r] = "invalid" => status'[r] = "invalid",
         \A r \in Requests : status'[r] = "answered" => reply'[r] = Service!Expected(r)
  PROVE  IInv'
<1>1. TypesInv' /\ CallInv' /\ AnswerInv' /\ AlignedUnlessBlank'
  BY DEF IInv, TypesInv, CallInv, AnswerInv, AlignedUnlessBlank
<1>2. AcceptedArguments'
  <2> SUFFICES ASSUME NEW c \in Calls, call[c] = "api_error", attempt[c] < MaxAttempts,
                      \A i \in 1 .. Len(Asked[c]) : Asked[c][i] # " "
               PROVE  status'[<<c, attempt[c]>>] = "invalid"
    BY DEF AcceptedArguments
  <2>1. NoBlank(c)
    BY DEF NoBlank
  <2> QED
    BY <2>1, RefusalStays
<1> QED
  BY <1>1, <1>2 DEF IInv

LEMMA RefuseArgumentsOK ==
  ASSUME IInv, NEW c \in Calls, RefuseArguments(c)
  PROVE  IInv'
<1>1. PICK place \in {"invalid_query", "invalid_k"} : call' = [call EXCEPT ![c] = place]
  BY DEF RefuseArguments, End
<1>2. UNCHANGED <<status, reply, attempt, result>>
  BY DEF RefuseArguments, service
<1>3. attempt[c] \in 0 .. MaxAttempts /\ attempt' = [attempt EXCEPT ![c] = attempt[c]]
  BY <1>2 DEF IInv, TypesInv
<1>4. place \in Places
  BY DEF Places, Returned
<1> QED
  BY <1>1, <1>2, <1>3, <1>4, CallStep DEF IInv, TypesInv

LEMMA PostOK ==
  ASSUME IInv, NEW c \in Calls, Post(c)
  PROVE  IInv'
<1> DEFINE n == attempt[c] + 1
<1>1. /\ n \in 0 .. MaxAttempts /\ n >= 1
      /\ attempt' = [attempt EXCEPT ![c] = n]
      /\ call' = [call EXCEPT ![c] = "posted"]
      /\ result' = result
  BY ToolAssumption DEF Post, End, MayPost, IInv, CallInv, TypesInv
<1>2. ClientQueries(c) # <<>> /\ ClientKs(c) # <<>> /\ ServerQueries(c) # <<>>
  BY DEF Post, MayPost, IInv, CallInv
<1>3. /\ status' \in [Requests -> Statuses] /\ reply' = reply
      /\ \A r \in Requests : status[r] = "invalid" => status'[r] = "invalid"
      /\ \A r \in Requests : status'[r] = "answered" => status[r] = "answered"
  <2>1. CASE UNCHANGED service
    BY <2>1 DEF service, IInv, TypesInv
  <2>2. CASE Service!Ask(<<c, attempt'[c]>>)
    <3>1. PICK q : /\ status[q] = "idle" /\ reply' = reply
                   /\ status' = [status EXCEPT ![q] = "pending"]
      BY <2>2 DEF Service!Ask
    <3> QED
      BY <3>1 DEF IInv, TypesInv, Statuses
  <2> QED
    BY <2>1, <2>2 DEF Post
<1> QED
  <2> HIDE DEF n
  <2>1. "posted" \in Places
    BY DEF Places
  <2> QED
    BY <1>1, <1>2, <1>3, <2>1, ResultsStill, CallStep

LEMMA PostRefusedOK ==
  ASSUME IInv, NEW c \in Calls, PostRefused(c)
  PROVE  IInv'
<1> DEFINE n == attempt[c] + 1
<1>1. /\ n \in 0 .. MaxAttempts /\ n >= 1
      /\ attempt' = [attempt EXCEPT ![c] = n]
      /\ call' = [call EXCEPT ![c] = "api_error"]
      /\ UNCHANGED <<status, reply, result>>
  BY ToolAssumption DEF PostRefused, End, MayPost, IInv, CallInv, TypesInv, service
<1>2. ~NoBlank(c)
  BY AcceptedHere DEF PostRefused
<1> QED
  <2> HIDE DEF n
  <2>1. "api_error" \in Places
    BY DEF Places, Returned
  <2> QED
    BY <1>1, <1>2, <2>1, ServiceStill, ResultsStill, CallStep

LEMMA SucceedOK ==
  ASSUME IInv, NEW c \in Calls, Succeed(c)
  PROVE  IInv'
<1> DEFINE rows == Padded(reply[<<c, attempt[c]>>], Len(ClientQueries(c)))
<1>1. /\ call[c] = "posted" /\ status[<<c, attempt[c]>>] = "answered"
      /\ call' = [call EXCEPT ![c] = "success"]
      /\ UNCHANGED <<status, reply, attempt>>
      /\ result' = [result EXCEPT ![c] =
                      [i \in 1 .. Len(rows) |-> Cut(rows[i], ClientKs(c)[i])]]
  BY DEF Succeed, Awaits, End, service
<1>2. /\ attempt[c] \in 0 .. MaxAttempts /\ attempt' = [attempt EXCEPT ![c] = attempt[c]]
      /\ <<c, attempt[c]>> \in Requests
      /\ ClientQueries(c) # <<>> /\ ClientKs(c) # <<>> /\ ServerQueries(c) # <<>>
  BY <1>1 DEF IInv, TypesInv, CallInv, Requests
<1>3. ASSUME NoBlank(c), NEW i \in 1 .. Len(ClientQueries(c))
      PROVE  result'[c][i] = Service!Hits(ClientQueries(c)[i], ClientKs(c)[i])
  <2>1. /\ i \in 1 .. Len(rows)
        /\ Cut(rows[i], ClientKs(c)[i]) = Service!Hits(ClientQueries(c)[i], ClientKs(c)[i])
    <3>1. <<c, attempt[c]>>[1] = c
      OBVIOUS
    <3> QED
      BY <1>1, <1>2, <1>3, <3>1, RowsFit
  <2> HIDE DEF rows
  <2>2. result'[c] = [j \in 1 .. Len(rows) |-> Cut(rows[j], ClientKs(c)[j])]
    BY <1>1 DEF IInv, TypesInv
  <2> QED
    BY <2>1, <2>2
<1>4. DOMAIN result' = Calls /\ \A d \in Calls \ {c} : result'[d] = result[d]
  <2> HIDE DEF rows
  <2> QED
    BY <1>1 DEF IInv, TypesInv
<1> HIDE DEF rows
<1>5. "success" \in Places
  BY DEF Places, Returned
<1> QED
  <2>1. /\ status' \in [Requests -> Statuses] /\ reply' = reply
        /\ \A r \in Requests : status[r] = "invalid" => status'[r] = "invalid"
        /\ \A r \in Requests : status'[r] = "answered" => status[r] = "answered"
    BY <1>1, ServiceStill
  <2>2. NoBlank(c) => \A i \in 1 .. Len(ClientQueries(c)) :
             result'[c][i] = Service!Hits(ClientQueries(c)[i], ClientKs(c)[i])
    BY <1>3
  <2>3. PICK place \in Places : place = "success" /\ call' = [call EXCEPT ![c] = place]
    BY <1>1, <1>5
  <2>4. PICK n \in 0 .. MaxAttempts : attempt' = [attempt EXCEPT ![c] = n]
    BY <1>2
  <2>5. place # "new" /\ place # "backoff" /\ place # "posted" /\ place # "api_error"
    BY <2>3
  <2> QED
    BY <1>2, <1>4, <2>1, <2>2, <2>3, <2>4, <2>5, CallStep

LEMMA ClientErrorOK ==
  ASSUME IInv, NEW c \in Calls, ClientError(c)
  PROVE  IInv'
<1>1. /\ call[c] = "posted" /\ status[<<c, attempt[c]>>] = "invalid"
      /\ call' = [call EXCEPT ![c] = "api_error"]
      /\ UNCHANGED <<status, reply, attempt, result>>
  BY DEF ClientError, Awaits, End, service
<1>2. /\ attempt[c] \in 0 .. MaxAttempts /\ attempt' = [attempt EXCEPT ![c] = attempt[c]]
      /\ attempt[c] >= 1
  BY <1>1 DEF IInv, TypesInv, CallInv
<1>3. "api_error" \in Places
  BY DEF Places, Returned
<1> QED
  BY <1>1, <1>2, <1>3, ServiceStill, ResultsStill, CallStep

LEMMA RetryableOK ==
  ASSUME IInv, NEW c \in Calls, Retryable(c)
  PROVE  IInv'
<1>1. /\ call[c] = "posted"
      /\ call' = [call EXCEPT ![c] = IF attempt[c] < MaxAttempts THEN "backoff"
                                                               ELSE "api_error"]
      /\ UNCHANGED <<status, reply, attempt, result>>
  BY DEF Retryable, End, service
<1>2. /\ attempt[c] \in 0 .. MaxAttempts /\ attempt' = [attempt EXCEPT ![c] = attempt[c]]
      /\ attempt[c] >= 1
      /\ ClientQueries(c) # <<>> /\ ClientKs(c) # <<>> /\ ServerQueries(c) # <<>>
  BY <1>1 DEF IInv, TypesInv, CallInv
<1>3. "api_error" \in Places /\ "backoff" \in Places
  BY DEF Places, Returned
<1>4. CASE attempt[c] < MaxAttempts
  BY <1>1, <1>2, <1>3, <1>4, ServiceStill, ResultsStill, CallStep
<1>5. CASE ~(attempt[c] < MaxAttempts)
  BY <1>1, <1>2, <1>3, <1>5, ServiceStill, ResultsStill, CallStep
<1> QED
  BY <1>4, <1>5

LEMMA ServeOK ==
  ASSUME IInv, Serve
  PROVE  IInv'
<1>1. UNCHANGED <<call, attempt, result>>
  BY DEF Serve
<1>2. ASSUME NEW r \in Requests, Service!Answer(r) PROVE IInv'
  <2>1. /\ status[r] = "pending" /\ status' = [status EXCEPT ![r] = "answered"]
        /\ reply' = [reply EXCEPT ![r] = Service!Expected(r)]
    BY <1>2 DEF Service!Answer
  <2> QED
    BY <1>1, <2>1, ServiceStep DEF IInv, TypesInv, AnswerInv, Statuses
<1>3. ASSUME NEW S \in SUBSET Requests \ {{}}, NEW kind \in {"error", "invalid"},
             Service!Fail(S, kind)
      PROVE  IInv'
  <2>1. /\ \A r \in S : status[r] = "pending"
        /\ status' = [r \in Requests |-> IF r \in S THEN kind ELSE status[r]]
        /\ reply' = reply
    BY <1>3 DEF Service!Fail
  <2> QED
    BY <1>1, <2>1, ServiceStep DEF IInv, TypesInv, AnswerInv, Statuses
<1> QED
  BY <1>2, <1>3 DEF Serve

LEMMA NextOK == IInv /\ [Next]_vars => IInv'
<1> SUFFICES ASSUME IInv, [Next]_vars PROVE IInv'
  OBVIOUS
<1>1. ASSUME NEW c \in Calls, Execute(c) PROVE IInv'
  BY <1>1, RefuseArgumentsOK, PostOK, PostRefusedOK, SucceedOK, ClientErrorOK, RetryableOK
     DEF Execute
<1>2. CASE Serve
  BY <1>2, ServeOK
<1>3. CASE UNCHANGED vars
  <2>1. TypesInv' /\ CallInv' /\ AnswerInv'
    BY <1>3 DEF vars, service, IInv, TypesInv, CallInv, AnswerInv
  <2>2. AcceptedArguments' /\ AlignedUnlessBlank'
    BY <1>3 DEF vars, service, IInv, AcceptedArguments, AlignedUnlessBlank
  <2> QED
    BY <2>1, <2>2 DEF IInv
<1> QED
  BY <1>1, <1>2, <1>3 DEF Next

\* Calls go through their places as CallInv says, and the service keeps its
\* promise, in every behaviour of LocalEmbeddingSearchTool.execute.
LEMMA ToolInvariant == Spec => []IInv
  BY InitOK, NextOK, PTL DEF Spec

-----------------------------------------------------------------------------
(* The properties. *)

\* The endpoint does not refuse what the tool accepted: without a blank query
\* a call ends early only because the service itself reported a client error.
THEOREM AcceptedByServer == Spec => []AcceptedArguments
<1>1. IInv => AcceptedArguments
  BY DEF IInv
<1> QED
  BY <1>1, ToolInvariant, PTL

\* Whatever else runs, row i of a successful call without a blank query holds the
\* documents of its query i (LocalEmbeddingSearchTool.execute).
THEOREM ResultsWithoutBlank == Spec => []AlignedUnlessBlank
<1>1. IInv => AlignedUnlessBlank
  BY DEF IInv
<1> QED
  BY <1>1, ToolInvariant, PTL

\* Row i of a successful call holds the documents of its query i, if the call
\* has no blank query among proper ones: one that has is the finding about
\* _normalize_query_list.  Late answers to abandoned attempts do not matter.
THEOREM ResultsAligned ==
  ASSUME \A c \in Calls : NoBlank(c) \/ OnlyBlanks(c)
  PROVE  Spec => []AnswersAligned
<1>1. IInv => AnswersAligned
  <2> SUFFICES ASSUME IInv, NEW c \in Calls, call[c] = "success",
                      NEW i \in 1 .. Len(ClientQueries(c))
               PROVE  result[c][i] = Service!Hits(ClientQueries(c)[i], ClientKs(c)[i])
    BY DEF AnswersAligned
  <2>1. NoBlank(c)
    BY SameQueries DEF IInv, CallInv
  <2> QED
    BY <2>1 DEF IInv, AlignedUnlessBlank
<1> QED
  BY <1>1, ToolInvariant, PTL

-----------------------------------------------------------------------------
(* The number of attempts. *)

\* The steps a call can still take: two for each attempt that is left, and one
\* to learn how the last went.
Tries(c) ==
  CASE call[c] = "posted" -> 2 * (MaxAttempts - attempt[c]) + 1
    [] call[c] \in {"new", "backoff"} -> 2 * (MaxAttempts - attempt[c])
    [] OTHER -> 0

\* A step of one call takes one of its tries, other calls and the service none.
TriesTaken ==
  \A c \in Calls :
    \/ Tries(c)' < Tries(c)
    \/ call'[c] = call[c] /\ attempt'[c] = attempt[c]

LEMMA CallTypes ==
  ASSUME IInv, NEW c \in Calls
  PROVE  /\ attempt[c] \in 0 .. MaxAttempts /\ MaxAttempts \in Nat \ {0}
         /\ call[c] = "new" => attempt[c] = 0
         /\ call[c] = "backoff" => attempt[c] < MaxAttempts
         /\ call \in [Calls -> Places] /\ attempt \in [Calls -> 0 .. MaxAttempts]
  BY ToolAssumption DEF IInv, TypesInv, CallInv

LEMMA TriesTyped == IInv => \A c \in Calls : Tries(c) \in 0 .. 2 * MaxAttempts
<1> SUFFICES ASSUME IInv, NEW c \in Calls PROVE Tries(c) \in 0 .. 2 * MaxAttempts
  OBVIOUS
<1>1. /\ attempt[c] \in 0 .. MaxAttempts /\ MaxAttempts \in Nat
      /\ call[c] = "posted" => attempt[c] >= 1
  BY ToolAssumption DEF IInv, TypesInv, CallInv
<1>2. MaxAttempts - attempt[c] \in 0 .. MaxAttempts
  BY <1>1
<1>3. call[c] = "posted" => MaxAttempts - attempt[c] \in 0 .. (MaxAttempts - 1)
  BY <1>1
<1> QED
  BY <1>1, <1>2, <1>3 DEF Tries

\* A post takes one of the attempts that are left, whatever comes of it.
LEMMA PostTakes ==
  ASSUME IInv, NEW c \in Calls, MayPost(c),
         call'[c] \in {"posted", "api_error"}, attempt'[c] = attempt[c] + 1
  PROVE  Tries(c)' < Tries(c)
<1>1. /\ attempt[c] \in Nat /\ MaxAttempts \in Nat /\ attempt[c] < MaxAttempts
      /\ call[c] \in {"new", "backoff"}
  BY CallTypes DEF MayPost
<1>2. Tries(c) = 2 * (MaxAttempts - attempt[c])
  BY <1>1 DEF Tries
<1>3. Tries(c)' = 0 \/ Tries(c)' = 2 * (MaxAttempts - (attempt[c] + 1)) + 1
  BY DEF Tries
<1> QED
  BY <1>1, <1>2, <1>3

\* So does the end of an attempt.
LEMMA EndTakes ==
  ASSUME IInv, NEW c \in Calls, call[c] = "posted",
         call'[c] \in Returned \cup {"backoff"}, attempt'[c] = attempt[c]
  PROVE  Tries(c)' < Tries(c)
<1>1. attempt[c] \in Nat /\ MaxAttempts \in Nat /\ attempt[c] <= MaxAttempts
  BY CallTypes
<1>2. Tries(c) = 2 * (MaxAttempts - attempt[c]) + 1
  BY DEF Tries
<1>3. Tries(c)' = 0 \/ Tries(c)' = 2 * (MaxAttempts - attempt[c])
  BY DEF Tries, Returned
<1> QED
  BY <1>1, <1>2, <1>3

LEMMA ExecuteTakes ==
  ASSUME IInv, NEW c \in Calls, Execute(c)
  PROVE  /\ Tries(c)' < Tries(c)
         /\ \A d \in Calls \ {c} : call'[d] = call[d] /\ attempt'[d] = attempt[d]
<1>1. c \in DOMAIN call /\ c \in DOMAIN attempt
  BY CallTypes
<1>2. CASE RefuseArguments(c)
  <2>1. /\ call[c] = "new" /\ attempt' = attempt
        /\ \E how \in {"invalid_query", "invalid_k"} : End(c, how)
    BY <1>2 DEF RefuseArguments
  <2>2. /\ call'[c] \in {"invalid_query", "invalid_k"}
        /\ \A d \in Calls \ {c} : call'[d] = call[d]
    BY <1>1, <2>1 DEF End
  <2>3. attempt[c] = 0 /\ MaxAttempts \in Nat \ {0}
    BY <2>1, CallTypes
  <2>4. Tries(c) = 2 * (MaxAttempts - attempt[c]) /\ Tries(c)' = 0
    BY <2>1, <2>2 DEF Tries
  <2> QED
    BY <2>1, <2>2, <2>3, <2>4
<1>3. CASE Post(c) \/ PostRefused(c)
  <2>1. /\ MayPost(c) /\ attempt' = [attempt EXCEPT ![c] = @ + 1]
        /\ \E how \in {"posted", "api_error"} : End(c, how)
    BY <1>3 DEF Post, PostRefused
  <2>2. /\ call'[c] \in {"posted", "api_error"} /\ attempt'[c] = attempt[c] + 1
        /\ \A d \in Calls \ {c} : call'[d] = call[d] /\ attempt'[d] = attempt[d]
    BY <1>1, <2>1 DEF End
  <2> QED
    BY <2>1, <2>2, PostTakes
<1>4. CASE Succeed(c) \/ ClientError(c) \/ Retryable(c)
  <2>1. /\ call[c] = "posted" /\ attempt' = attempt
        /\ \E how \in {"success", "api_error", "backoff"} : End(c, how)
    BY <1>4 DEF Succeed, ClientError, Retryable, Awaits
  <2>2. /\ call'[c] \in Returned \cup {"backoff"}
        /\ \A d \in Calls \ {c} : call'[d] = call[d]
    BY <1>1, <2>1 DEF End, Returned
  <2> QED
    BY <2>1, <2>2, EndTakes
<1> QED
  BY <1>2, <1>3, <1>4 DEF Execute

LEMMA NextTakes == IInv /\ [Next]_vars => [TriesTaken]_vars
<1> SUFFICES ASSUME IInv, Next PROVE TriesTaken
  OBVIOUS
<1>1. ASSUME NEW c \in Calls, Execute(c) PROVE TriesTaken
  BY <1>1, ExecuteTakes DEF TriesTaken
<1>2. CASE Serve
  BY <1>2 DEF Serve, TriesTaken
<1> QED
  BY <1>1, <1>2 DEF Next

\* A call takes at most 2 * max_retries steps, with at most max_retries posts
\* among them, whatever the service does: each step of execute, under
\* async_retry, takes one of them, and no answer, late or not, gives one back.
THEOREM TriesBounded ==
  Spec => [](\A c \in Calls : Tries(c) \in 0 .. 2 * MaxAttempts) /\ [][TriesTaken]_vars
  BY ToolInvariant, TriesTyped, NextTakes, PTL DEF Spec

=============================================================================
