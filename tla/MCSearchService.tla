-------------------------- MODULE MCSearchService --------------------------
(***************************************************************************)
(* Instances of SearchService: requests of different sizes that want       *)
(* different numbers of documents from an index of two vectors.            *)
(***************************************************************************)
EXTENDS SearchService

CONSTANTS r1, r2, r3

MCQueries == [r \in Requests |->
  IF r = r1 THEN <<"a", "b">> ELSE IF r = r2 THEN <<"c">> ELSE <<"d", "e">>]
MCKs == [r \in Requests |->
  IF r = r1 THEN <<1, 3>> ELSE IF r = r2 THEN <<1>> ELSE <<1, 1>>]
MCMaxBatch == [s \in Stages |-> 4]
=============================================================================
