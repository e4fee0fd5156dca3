--------------------------- MODULE SearchPromise ---------------------------
(***************************************************************************)
(* What the search endpoint promises: each request is answered on its own, *)
(* with the nearest documents of its own queries, or fails.  A failure may *)
(* hit several requests at once; it is a server error, or is reported as   *)
(* the client's fault.                                                     *)
(***************************************************************************)
EXTENDS Integers, Sequences

CONSTANTS
  Requests,     \* requests, each sent once
  Queries,      \* Queries[r] : the non-blank queries of request r
  Ks,           \* Ks[r] : how many documents each of them asks for
  IndexSize     \* number of vectors in the index

VARIABLES status, reply
vars == <<status, reply>>

\* The k documents nearest to query q; an index may hold fewer.
Hits(q, k) == [j \in 1 .. (IF k <= IndexSize THEN k ELSE IndexSize) |-> <<q, j>>]

Expected(r) == [i \in 1 .. Len(Queries[r]) |-> Hits(Queries[r][i], Ks[r][i])]

Init ==
  /\ status = [r \in Requests |-> "idle"]
  /\ reply = [r \in Requests |-> <<>>]

Ask(r) ==
  /\ status[r] = "idle"
  /\ status' = [status EXCEPT ![r] = "pending"]
  /\ UNCHANGED reply

Answer(r) ==
  /\ status[r] = "pending"
  /\ status' = [status EXCEPT ![r] = "answered"]
  /\ reply' = [reply EXCEPT ![r] = Expected(r)]

Fail(S, kind) ==
  /\ \A r \in S : status[r] = "pending"
  /\ status' = [r \in Requests |-> IF r \in S THEN kind ELSE status[r]]
  /\ UNCHANGED reply

Next ==
  \/ \E r \in Requests : Ask(r) \/ Answer(r)
  \/ \E S \in SUBSET Requests, kind \in {"error", "invalid"} : Fail(S, kind)

Spec == Init /\ [][Next]_vars
=============================================================================
