--------------------------- MODULE ResumableBuild ---------------------------
(***************************************************************************)
(* What a resumable build promises, whatever its files and steps are.      *)
(* A prefix of the work is durable: a rerun never starts before boundary.  *)
(* A rerun started now would continue at resume_at; work beyond boundary   *)
(* may be lost.  The result is published once, and complete; until then a  *)
(* build that is complete may lose its record and be done again.           *)
(***************************************************************************)
EXTENDS Integers

CONSTANT Total     \* amount of work, a natural number

VARIABLES boundary, resume_at, result
vars == <<boundary, resume_at, result>>

Init == boundary = 0 /\ resume_at = 0 /\ result = "none"

\* The durable prefix grows; the point of resumption moves within the rest.
Save ==
  /\ result = "none"
  /\ boundary' \in boundary .. Total
  /\ resume_at' \in boundary' .. Total
  /\ UNCHANGED result

\* The record of a complete build is gone before its result is published.
Reopen ==
  /\ result = "none"
  /\ boundary = Total
  /\ boundary' \in 0 .. Total
  /\ resume_at' \in boundary' .. Total
  /\ UNCHANGED result

Publish ==
  /\ result = "none"
  /\ boundary = Total
  /\ result' = "complete"
  /\ UNCHANGED <<boundary, resume_at>>

Next == Save \/ Reopen \/ Publish

Spec == Init /\ [][Next]_vars
=============================================================================
