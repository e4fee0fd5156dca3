---------------------------- MODULE MCArpoBranching ----------------------------
(* Two prompts of three rows each for the module ArpoBranching.            *)
EXTENDS ArpoBranching
CONSTANTS p1, p2
MCRowPrompt == <<p1, p1, p1, p2, p2, p2>>
=============================================================================
