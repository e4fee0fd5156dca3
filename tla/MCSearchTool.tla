---------------------------- MODULE MCSearchTool ----------------------------
(***************************************************************************)
(* Instances of SearchTool: a proper call with an empty query in it; calls *)
(* without a query, with too long a list k, and with nothing but a blank   *)
(* query; and a call with a blank query before a proper one.               *)
(***************************************************************************)
EXTENDS SearchTool

CONSTANTS c1, c2, c3, c4

MCAsked == [c \in Calls |->
  IF c = c1 THEN <<"a", "", "b">>
  ELSE IF c = c2 THEN <<"">>
  ELSE IF c = c3 THEN <<"d", "", "e">>
  ELSE <<" ">>]
MCKArg == [c \in Calls |->
  IF c = c1 THEN <<1, 3>> ELSE IF c = c2 THEN <<>> ELSE IF c = c3 THEN <<2, 1, 2>> ELSE <<1>>]

MCBlankAsked == [c \in Calls |-> <<" ", "b">>]
MCBlankKArg == [c \in Calls |-> <<2>>]
=============================================================================
