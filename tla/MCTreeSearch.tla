---------------------------- MODULE MCTreeSearch ----------------------------
(***************************************************************************)
(* Instances of TreeSearch: one tree, and one tree for each of two prompts.*)
(***************************************************************************)
EXTENDS TreeSearch

MCOneRow == <<1>>
MCTwoRows == <<1, 2>>
=============================================================================
