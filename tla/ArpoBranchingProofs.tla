-------------------------- MODULE ArpoBranchingProofs --------------------------
(***************************************************************************)
(* Proofs about the module ArpoBranching, for every batch and every        *)
(* configuration: the types, the budget of rollouts of a prompt, and that  *)
(* the worker's loop ends with every rollout collected.                    *)
(***************************************************************************)
EXTENDS ArpoBranching, OrderedFacts

Limit == Larger(NRollouts, InitialRollouts)

\* the rollouts are rows of the batch and, numbered without a gap, branches
NumbersInv ==
    DOMAIN rollouts \ Rows =
        (Len(RowPrompt) + 1) ..
            (Len(RowPrompt) + Cardinality(DOMAIN rollouts \ Rows))

\* the coordinator's count is at least the number of rollouts: a branch is
\* counted when it is queued, and once more when it is launched
CountInv == \A p \in Prompts : Cardinality(RolloutsOf(p)) <= rollout_counts[p]

IInv == TypeOK /\ NumbersInv /\ CountInv /\ BudgetKept /\ NoBranchLost

LEMMA RowsFinite ==
    /\ Len(RowPrompt) \in Nat
    /\ Rows = 1 .. Len(RowPrompt)
    /\ IsFiniteSet(Rows)
  <1>1. Len(RowPrompt) \in Nat /\ Rows = 1 .. Len(RowPrompt)
    BY BatchAssumption DEF Rows
  <1>2. IsFiniteSet(1 .. Len(RowPrompt))
    BY <1>1, FS_Interval
  <1> QED
    BY <1>1, <1>2

LEMMA LargerFacts ==
  ASSUME NEW m \in Nat, NEW n \in Nat
  PROVE  Larger(m, n) \in Nat /\ Larger(m, n) >= m /\ Larger(m, n) >= n
  BY DEF Larger

LEMMA LimitFacts == Limit \in Nat /\ Limit >= NRollouts /\ Limit >= InitialRollouts
  BY ConfigAssumption, LargerFacts DEF Limit

\* A non-empty set of naturals with a bound has a greatest element: the
\* distances from the bound have a least one.
LEMMA Greatest ==
  ASSUME NEW n \in Nat, NEW S, S \subseteq 0 .. n, S # {}
  PROVE  \E m \in S : \A i \in S : i <= m
  <1> DEFINE T == {n - i : i \in S}
             R == OpToRel(<, Nat)
  <1>1. \A x, y \in Nat : y < x => <<y, x>> \in R
    BY DEF OpToRel
  <1>2. IsWellFoundedOn(R, Nat)
    BY NatLessThanWellFounded
  <1> HIDE DEF R
  <1>3. T \subseteq Nat
    OBVIOUS
  <1>9. T # {}
    OBVIOUS
  <1>4. PICK x \in T : \A y \in T : ~ (<<y, x>> \in R)
    BY <1>2, <1>3, <1>9, WFMin
  <1>5. PICK m \in S : x = n - m
    OBVIOUS
  <1>6. ASSUME NEW i \in S PROVE i <= m
    <2>1. n - i \in T
      OBVIOUS
    <2>2. ~ (n - i < x)
      BY <2>1, <1>1, <1>3, <1>4
    <2> QED
      BY <2>2, <1>5
  <1> QED
    BY <1>6

\* Of every prompt no more than InitialRollouts rows are selected: the last
\* selected row has all the others before it.
LEMMA SelectedBound ==
  ASSUME NEW p \in Prompts
  PROVE  /\ IsFiniteSet(SelectedOf(p))
         /\ Cardinality(SelectedOf(p)) \in Nat
         /\ Cardinality(SelectedOf(p)) <= InitialRollouts
  <1>1. SelectedOf(p) \in SUBSET Rows /\ Selected \in SUBSET Rows
    BY DEF SelectedOf, Selected
  <1>2. IsFiniteSet(SelectedOf(p)) /\ Cardinality(SelectedOf(p)) \in Nat
    BY <1>1, RowsFinite, FS_Subset, FS_CardinalityType
  <1>3. CASE SelectedOf(p) = {}
    BY <1>3, <1>2, FS_EmptySet, ConfigAssumption
  <1>4. CASE SelectedOf(p) # {}
    <2>1. PICK m \in SelectedOf(p) : \A i \in SelectedOf(p) : i <= m
      <3>1. SelectedOf(p) \subseteq 0 .. Len(RowPrompt)
        BY <1>1, RowsFinite
      <3> QED
        BY <3>1, <1>4, RowsFinite, Greatest
    <2>2. SelectedOf(p) \ {m} \in SUBSET Earlier(m)
      BY <2>1, <1>1, RowsFinite DEF SelectedOf, Earlier, Rows
    <2>3. IsFiniteSet(Earlier(m)) /\ Cardinality(Earlier(m)) \in Nat
      BY RowsFinite, FS_Subset, FS_CardinalityType DEF Earlier
    <2>4. Cardinality(SelectedOf(p) \ {m}) = Cardinality(SelectedOf(p)) - 1
      BY <1>2, <2>1, FS_RemoveElement
    <2>5. Cardinality(SelectedOf(p) \ {m}) <= Cardinality(Earlier(m))
      BY <2>2, <2>3, FS_Subset
    <2>6. Cardinality(Earlier(m)) < InitialRollouts
      BY <2>1 DEF SelectedOf, Selected
    <2> QED
      BY <1>2, <2>3, <2>4, <2>5, <2>6, ConfigAssumption
  <1> QED
    BY <1>2, <1>3, <1>4

-----------------------------------------------------------------------------
(***************************************************************************)
(* The initial states                                                      *)
(***************************************************************************)
LEMMA InitInv == Init => IInv
  <1> SUFFICES ASSUME Init PROVE IInv
    OBVIOUS
  <1> USE DEF Init
  <1>1. Selected \subseteq Rows /\ DOMAIN rollouts = Selected
    BY DEF Selected
  <1>2. TypeOK
    <2>1. IsFiniteSet(Selected)
      BY <1>1, RowsFinite, FS_Subset
    <2>2. Selected \in SUBSET Ids
      BY <1>1, RowsFinite DEF Ids
    <2>3. \A t \in Selected : rollouts[t] \in Rollout
      BY <1>1, ConfigAssumption DEF Rollout, Status, Prompts
    <2>4. rollout_counts \in [Prompts -> Nat]
      BY SelectedBound
    <2> QED
      BY <1>1, <2>1, <2>2, <2>3, <2>4 DEF TypeOK
  <1>3. NumbersInv
    <2>1. DOMAIN rollouts \ Rows = {}
      BY <1>1
    <2>2. Cardinality(DOMAIN rollouts \ Rows) = 0
      BY <2>1, FS_EmptySet
    <2>3. (Len(RowPrompt) + 1) .. (Len(RowPrompt) + 0) = {}
      BY RowsFinite
    <2> QED
      BY <2>1, <2>2, <2>3 DEF NumbersInv
  <1>4. \A p \in Prompts : RolloutsOf(p) = SelectedOf(p)
    BY <1>1 DEF RolloutsOf, SelectedOf
  <1>5. CountInv
    BY <1>4, SelectedBound DEF CountInv
  <1>6. BudgetKept
    BY <1>4, SelectedBound, LimitFacts, ConfigAssumption DEF BudgetKept, Limit
  <1>7. NoBranchLost
    BY DEF NoBranchLost
  <1> QED
    BY <1>2, <1>3, <1>5, <1>6, <1>7 DEF IInv

-----------------------------------------------------------------------------
(***************************************************************************)
(* The steps                                                               *)
(***************************************************************************)
\* Rollouts that only change their status or turn keep their prompts.
LEMMA SameRollouts ==
  ASSUME DOMAIN rollouts' = DOMAIN rollouts,
         \A t \in DOMAIN rollouts : rollouts'[t].sample = rollouts[t].sample
  PROVE  /\ \A p : RolloutsOf(p)' = RolloutsOf(p)
         /\ NumbersInv => NumbersInv'
         /\ BudgetKept => BudgetKept'
  <1>1. \A p : RolloutsOf(p)' = RolloutsOf(p)
    BY DEF RolloutsOf
  <1>2. NumbersInv => NumbersInv'
    BY DEF NumbersInv
  <1>3. BudgetKept => BudgetKept'
    BY <1>1 DEF BudgetKept
  <1> QED
    BY <1>1, <1>2, <1>3

LEMMA CountsGrow ==
  ASSUME TypeOK, CountInv, \A p \in Prompts : RolloutsOf(p)' = RolloutsOf(p),
         \A p \in Prompts : /\ rollout_counts'[p] \in Nat
                           /\ rollout_counts'[p] >= rollout_counts[p]
  PROVE  CountInv'
  <1> SUFFICES ASSUME NEW p \in Prompts
               PROVE  Cardinality(RolloutsOf(p)') <= rollout_counts'[p]
    BY DEF CountInv
  <1>1. RolloutsOf(p) \in SUBSET DOMAIN rollouts
    BY DEF RolloutsOf
  <1>2. Cardinality(RolloutsOf(p)) \in Nat
    BY <1>1, FS_Subset, FS_CardinalityType DEF TypeOK
  <1>3. rollout_counts[p] \in Nat
    BY DEF TypeOK
  <1>4. Cardinality(RolloutsOf(p)) <= rollout_counts[p]
    BY DEF CountInv
  <1> QED
    BY <1>2, <1>3, <1>4

\* A running rollout: its number is known and its record has the type.
LEMMA RunningStep ==
  ASSUME IInv, NEW t \in DOMAIN rollouts, rollouts[t].status = "running"
  PROVE  /\ pc \notin {"group", "fill", "returned"}
         /\ rollouts[t] \in Rollout
  BY DEF IInv, TypeOK, NoBranchLost, WithStatus

LEMMA ContinueInv ==
  ASSUME IInv, NEW t \in DOMAIN rollouts, Continue(t)
  PROVE  IInv'
  <1> USE DEF Continue
  <1>1. DOMAIN rollouts' = DOMAIN rollouts
        /\ \A u \in DOMAIN rollouts : rollouts'[u] =
               IF u = t THEN [rollouts[u] EXCEPT !.turns = @ + 1] ELSE rollouts[u]
    BY DEF Turn
  <1>2. rollouts[t] \in Rollout /\ pc \notin {"group", "fill", "returned"}
    BY RunningStep
  <1>3. \A u \in DOMAIN rollouts : rollouts'[u].sample = rollouts[u].sample
    BY <1>1, <1>2 DEF IInv, TypeOK, Rollout
  <1>4. rollouts'[t] \in Rollout
    BY <1>1, <1>2, ConfigAssumption DEF MoreTurns, Rollout
  <1>5. TypeOK'
    BY <1>1, <1>4 DEF IInv, TypeOK
  <1>6. NumbersInv' /\ BudgetKept'
    BY <1>1, <1>3, SameRollouts DEF IInv
  <1>7. CountInv'
    BY <1>1, <1>3, SameRollouts DEF IInv, CountInv
  <1>8. NoBranchLost'
    BY <1>2 DEF NoBranchLost
  <1> QED
    BY <1>5, <1>6, <1>7, <1>8 DEF IInv

LEMMA EndsInv ==
  ASSUME IInv, NEW t \in DOMAIN rollouts, NEW how \in {"done", "failed"},
         Ends(t, how)
  PROVE  IInv'
  <1> USE DEF Ends
  <1>1. DOMAIN rollouts' = DOMAIN rollouts
        /\ \A u \in DOMAIN rollouts : rollouts'[u] =
               IF u = t THEN [rollouts[u] EXCEPT !.status = how] ELSE rollouts[u]
    OBVIOUS
  <1>2. rollouts[t] \in Rollout /\ pc \notin {"group", "fill", "returned"}
    BY RunningStep
  <1>3. \A u \in DOMAIN rollouts : rollouts'[u].sample = rollouts[u].sample
    BY <1>1, <1>2 DEF IInv, TypeOK, Rollout
  <1>4. rollouts'[t] \in Rollout
    BY <1>1, <1>2 DEF Status, Rollout
  <1>5. TypeOK'
    BY <1>1, <1>4 DEF IInv, TypeOK
  <1>6. NumbersInv' /\ BudgetKept'
    BY <1>1, <1>3, SameRollouts DEF IInv
  <1>7. CountInv'
    BY <1>1, <1>3, SameRollouts DEF IInv, CountInv
  <1>8. NoBranchLost'
    BY <1>2 DEF NoBranchLost
  <1> QED
    BY <1>5, <1>6, <1>7, <1>8 DEF IInv

\* A branch: the new numbers are free, they are as many as the coordinator
\* counts, and the count was below the budget.
LEMMA BranchInv ==
  ASSUME IInv, NEW t \in DOMAIN rollouts, Branch(t)
  PROVE  IInv'
  <1> DEFINE p == rollouts[t].sample
             n == Branches(p)
             c == Cardinality(DOMAIN rollouts \ Rows)
             last == Len(RowPrompt) + c
             new == NextIds(n)
  <1>1. rollouts[t] \in Rollout /\ pc \notin {"group", "fill", "returned"}
    BY RunningStep DEF Branch
  <1>2. p \in Prompts /\ rollout_counts[p] \in Nat /\ rollout_counts[p] < NRollouts
    BY <1>1 DEF Rollout, IInv, TypeOK, Branch, MayBranch
  <1>3. n \in Nat /\ rollout_counts[p] + n <= NRollouts
    BY <1>2, ConfigAssumption DEF Branches, Smaller
  <1>4. c \in Nat /\ last \in Nat /\ new = (last + 1) .. (last + n)
    <2>1. IsFiniteSet(DOMAIN rollouts \ Rows)
      BY FS_Subset DEF IInv, TypeOK
    <2> QED
      BY <2>1, FS_CardinalityType, RowsFinite DEF NextIds
  <1>5. DOMAIN rollouts \ Rows = (Len(RowPrompt) + 1) .. last
    BY DEF IInv, NumbersInv
  <1>6. new \cap (DOMAIN rollouts \cup Rows) = {}
    <2>1. last >= Len(RowPrompt)
      BY <1>4, RowsFinite
    <2> HIDE DEF n, c, last, new
    <2>2. \A k \in DOMAIN rollouts \cup Rows : k \in 1 .. last
      BY <1>4, <1>5, <2>1, RowsFinite
    <2>3. \A k \in new : k > last
      BY <1>3, <1>4
    <2> QED
      BY <2>2, <2>3, <1>4
  <1>7. IsFiniteSet(new) /\ Cardinality(new) = n
    <2> HIDE DEF n, c, last, new
    <2>1. last + 1 \in Int /\ last + n \in Int
      BY <1>3, <1>4
    <2>2. IsFiniteSet((last + 1) .. (last + n))
          /\ Cardinality((last + 1) .. (last + n)) =
               IF last + 1 > last + n THEN 0 ELSE (last + n) - (last + 1) + 1
      BY <2>1, FS_Interval
    <2> QED
      BY <2>2, <1>3, <1>4
  <1>8. /\ DOMAIN rollouts' = DOMAIN rollouts \cup new
        /\ \A u \in new : rollouts'[u] = [Turn(t)[t] EXCEPT !.status = "queued"]
        /\ \A u \in DOMAIN rollouts : rollouts'[u] = Turn(t)[u]
    BY <1>6 DEF Branch
  <1>9. /\ pc' = pc
        /\ rollout_counts' = [rollout_counts EXCEPT ![p] = @ + n]
        /\ MoreTurns(t)
    BY DEF Branch, Enqueued
  <1> HIDE DEF n, c, last, new
  <1>10. \A u \in DOMAIN rollouts : Turn(t)[u] \in Rollout
                                 /\ Turn(t)[u].sample = rollouts[u].sample
    <2>1. \A u \in DOMAIN rollouts : rollouts[u] \in Rollout
      BY DEF IInv, TypeOK
    <2>2. \A u \in DOMAIN rollouts : Turn(t)[u] =
             IF u = t THEN [rollouts[u] EXCEPT !.turns = @ + 1] ELSE rollouts[u]
      BY DEF Turn
    <2>3. rollouts[t].turns + 1 \in 0 .. (MaxTurns - 1)
      BY <1>1, <1>9, ConfigAssumption DEF MoreTurns, Rollout
    <2> QED
      BY <2>1, <2>2, <2>3 DEF Rollout
  <1>11. \A u \in new : rollouts'[u] \in Rollout /\ rollouts'[u].sample = p
    BY <1>8, <1>10 DEF Rollout, Status
  <1>12. \A u \in DOMAIN rollouts : rollouts'[u] \in Rollout
                                  /\ rollouts'[u].sample = rollouts[u].sample
    BY <1>8, <1>10
  <1>13. TypeOK'
    <2>1. new \in SUBSET Ids
      BY <1>3, <1>4 DEF Ids
    <2>2. IsFiniteSet(DOMAIN rollouts \cup new)
      BY <1>7, FS_Union DEF IInv, TypeOK
    <2>3. rollout_counts' \in [Prompts -> Nat]
      BY <1>2, <1>3, <1>9 DEF IInv, TypeOK
    <2> QED
      BY <2>1, <2>2, <2>3, <1>8, <1>9, <1>11, <1>12 DEF IInv, TypeOK
  <1>14. NumbersInv'
    <2>1. DOMAIN rollouts' \ Rows = (Len(RowPrompt) + 1) .. (last + n)
      <3>1. DOMAIN rollouts' \ Rows = (DOMAIN rollouts \ Rows) \cup new
        BY <1>6, <1>8
      <3>2. last >= Len(RowPrompt)
        BY <1>4, RowsFinite DEF last
      <3> QED
        BY <3>1, <3>2, <1>3, <1>4, <1>5, RowsFinite
    <2>2. Cardinality((Len(RowPrompt) + 1) .. (last + n)) = c + n
      BY <1>3, <1>4, RowsFinite, FS_Interval DEF last
    <2>3. last + n = Len(RowPrompt) + (c + n)
      BY <1>3, <1>4, RowsFinite DEF last
    <2> QED
      BY <2>1, <2>2, <2>3 DEF NumbersInv
  <1>15. RolloutsOf(p)' = RolloutsOf(p) \cup new
    BY <1>8, <1>11, <1>12 DEF RolloutsOf
  <1>16. \A q \in Prompts \ {p} : RolloutsOf(q)' = RolloutsOf(q)
    BY <1>8, <1>11, <1>12 DEF RolloutsOf
  <1>17. /\ IsFiniteSet(RolloutsOf(p))
         /\ Cardinality(RolloutsOf(p)) \in Nat
         /\ Cardinality(RolloutsOf(p)) <= rollout_counts[p]
    <2>1. RolloutsOf(p) \in SUBSET DOMAIN rollouts
      BY DEF RolloutsOf
    <2> QED
      BY <1>2, <2>1, FS_Subset, FS_CardinalityType DEF IInv, TypeOK, CountInv
  <1>18. Cardinality(RolloutsOf(p)') <= Cardinality(RolloutsOf(p)) + n
    <2>1. RolloutsOf(p) \cap new = {}
      BY <1>6 DEF RolloutsOf
    <2> QED
      <3>1. Cardinality(RolloutsOf(p) \cup new) = Cardinality(RolloutsOf(p))
              + Cardinality(new) - Cardinality(RolloutsOf(p) \cap new)
        BY <1>7, <1>17, FS_Union
      <3>2. Cardinality(RolloutsOf(p) \cap new) = 0
        BY <2>1, FS_EmptySet
      <3> QED
        BY <3>1, <3>2, <1>3, <1>7, <1>15, <1>17
  <1>19. /\ Cardinality(RolloutsOf(p)') \in Nat
         /\ rollout_counts'[p] = rollout_counts[p] + n
    BY <1>2, <1>7, <1>9, <1>15, <1>17, FS_Union, FS_CardinalityType
       DEF IInv, TypeOK
  <1>20. CountInv'
    <2>1. Cardinality(RolloutsOf(p)') <= rollout_counts'[p]
      BY <1>2, <1>3, <1>17, <1>18, <1>19
    <2>2. \A q \in Prompts \ {p} : rollout_counts'[q] = rollout_counts[q]
      BY <1>9 DEF IInv, TypeOK
    <2>3. \A q \in Prompts : Cardinality(RolloutsOf(q)') <= rollout_counts'[q]
      <3> TAKE q \in Prompts
      <3>1. CASE q = p
        <4>1. RolloutsOf(q)' = RolloutsOf(p)'
          BY <3>1, <1>12 DEF RolloutsOf
        <4> QED
          BY <3>1, <4>1, <2>1
      <3>2. CASE q # p
        BY <3>2, <2>2, <1>16 DEF CountInv, IInv
      <3> QED
        BY <3>1, <3>2
    <2> QED
      BY <2>3 DEF CountInv
  <1>21. BudgetKept'
    <2>1. Cardinality(RolloutsOf(p)') <= Limit
      BY <1>2, <1>3, <1>17, <1>18, <1>19, LimitFacts, ConfigAssumption
    <2>2. \A q \in Prompts : Cardinality(RolloutsOf(q)') <= Limit
      <3> TAKE q \in Prompts
      <3>1. CASE q = p
        <4>1. RolloutsOf(q)' = RolloutsOf(p)'
          BY <3>1, <1>12 DEF RolloutsOf
        <4> QED
          BY <3>1, <4>1, <2>1
      <3>2. CASE q # p
        BY <3>2, <1>16 DEF BudgetKept, IInv, Limit
      <3> QED
        BY <3>1, <3>2
    <2> QED
      BY <2>2 DEF BudgetKept, Limit
  <1>22. NoBranchLost'
    BY <1>1, <1>9 DEF NoBranchLost
  <1> QED
    BY <1>13, <1>14, <1>20, <1>21, <1>22 DEF IInv

LEMMA CollectInv ==
  ASSUME IInv, Collect
  PROVE  IInv'
  <1>1. DOMAIN rollouts' = DOMAIN rollouts
        /\ \A t \in DOMAIN rollouts : rollouts'[t] =
             [rollouts[t] EXCEPT !.status = CASE @ = "done"   -> "collected"
                                              [] @ = "queued" -> "running"
                                              [] OTHER        -> @]
    BY DEF Collect, Collected
  <1>2. \A t \in DOMAIN rollouts : rollouts[t] \in Rollout
    BY DEF IInv, TypeOK
  <1>3. \A t \in DOMAIN rollouts : rollouts'[t] \in Rollout
                                /\ rollouts'[t].sample = rollouts[t].sample
    BY <1>1, <1>2 DEF Rollout, Status
  <1>4. \A p \in Prompts : /\ rollout_counts'[p] \in Nat
                           /\ rollout_counts'[p] >= rollout_counts[p]
    <2> TAKE p \in Prompts
    <2>1. rollout_counts'[p] =
            rollout_counts[p] + Cardinality(RolloutsOf(p) \cap WithStatus("queued"))
      BY DEF Collect, Registered
    <2>2. Cardinality(RolloutsOf(p) \cap WithStatus("queued")) \in Nat
      BY FS_Subset, FS_CardinalityType DEF IInv, TypeOK, RolloutsOf
    <2>3. rollout_counts[p] \in Nat
      BY DEF IInv, TypeOK
    <2> QED
      BY <2>1, <2>2, <2>3
  <1>5. TypeOK'
    <2>1. rollout_counts' \in [Prompts -> Nat]
      BY <1>4 DEF Collect, Registered
    <2>2. pc' \in {"group", "collect"}
      BY DEF Collect
    <2> QED
      BY <1>1, <1>3, <2>1, <2>2 DEF IInv, TypeOK
  <1>6. NumbersInv' /\ BudgetKept'
    BY <1>1, <1>3, SameRollouts DEF IInv
  <1>7. CountInv'
    BY <1>1, <1>3, <1>4, SameRollouts, CountsGrow DEF IInv
  <1>8. NoBranchLost'
    <2>1. CASE Pending = {}
      <3>1. \A t \in DOMAIN rollouts : rollouts[t].status \in {"done", "collected"}
        BY <2>1, <1>2 DEF Pending, WithStatus, Rollout, Status, Collect
      <3>2. \A t \in DOMAIN rollouts : rollouts'[t].status = "collected"
        BY <3>1, <1>1, <1>2 DEF Rollout
      <3> QED
        BY <3>2, <1>1 DEF NoBranchLost, WithStatus
    <2>2. CASE Pending # {}
      BY <2>2 DEF Collect, NoBranchLost
    <2> QED
      BY <2>1, <2>2
  <1> QED
    BY <1>5, <1>6, <1>7, <1>8 DEF IInv

\* Steps that leave the rollouts and the counts as they are, and stand where
\* all the rollouts are collected or give the call up.
LEMMA QuietInv ==
  ASSUME IInv, UNCHANGED <<rollouts, rollout_counts>>,
         \/ pc' = pc
         \/ pc' = "raised"
         \/ pc = "group" /\ pc' = "fill"
         \/ pc = "fill" /\ pc' = "returned"
  PROVE  IInv'
  <1>1. TypeOK'
    BY DEF IInv, TypeOK
  <1>2. NumbersInv' /\ CountInv' /\ BudgetKept'
    BY DEF IInv, NumbersInv, CountInv, BudgetKept, RolloutsOf
  <1>3. NoBranchLost'
    BY DEF IInv, NoBranchLost, WithStatus
  <1> QED
    BY <1>1, <1>2, <1>3 DEF IInv

LEMMA NextInv == IInv /\ [Next]_vars => IInv'
  <1> SUFFICES ASSUME IInv, [Next]_vars PROVE IInv'
    OBVIOUS
  <1>1. CASE \E t \in DOMAIN rollouts : Continue(t)
    BY <1>1, ContinueInv
  <1>2. CASE \E t \in DOMAIN rollouts : Branch(t)
    BY <1>2, BranchInv
  <1>3. CASE \E t \in DOMAIN rollouts : Finish(t)
    BY <1>3, EndsInv DEF Finish
  <1>4. CASE \E t \in DOMAIN rollouts : Fail(t)
    BY <1>4, EndsInv DEF Fail
  <1>5. CASE Collect
    BY <1>5, CollectInv
  <1>6. CASE Raise
    BY <1>6, QuietInv DEF Raise
  <1>7. CASE Group
    BY <1>7, QuietInv DEF Group
  <1>8. CASE \E p \in Prompts : FillOne(p)
    BY <1>8, QuietInv DEF FillOne
  <1>9. CASE Return
    BY <1>9, QuietInv DEF Return
  <1>10. CASE UNCHANGED vars
    BY <1>10, QuietInv DEF vars
  <1> QED
    BY <1>1, <1>2, <1>3, <1>4, <1>5, <1>6, <1>7, <1>8, <1>9, <1>10 DEF Next

-----------------------------------------------------------------------------
(***************************************************************************)
(* The outputs.  Until the loop ends the list of outputs is the list of    *)
(* the collected rollouts, each once.  The fill-up then adds copies under  *)
(* the prompts in the order of registration: every output has an owner,    *)
(* such that a prompt owns as many outputs as are grouped under it.  The   *)
(* owner need not be the prompt of the output's rollout, but the numbers   *)
(* add up: when no prompt is short, no prompt owns fewer outputs than it   *)
(* has rows, and there is an output for every row.                         *)
(***************************************************************************)
HeldBy(owner, p) == {k \in DOMAIN all_outputs : owner[k] = p}

OutputsTyped ==
    /\ all_outputs \in Seq(Ids)
    /\ outputs_by_sample \in [Prompts -> Seq(Ids)]

\* every prompt keeps the rollouts it was started with
StartedInv ==
    \A i \in Selected : i \in DOMAIN rollouts /\ rollouts[i].sample = RowPrompt[i]

CollectedInv ==
    pc \in {"collect", "group"}
        => /\ Range(all_outputs) = WithStatus("collected")
           /\ Len(all_outputs) = Cardinality(WithStatus("collected"))

Owned ==
    \E owner \in [DOMAIN all_outputs -> Prompts] :
        \A p \in Prompts :
            Cardinality(HeldBy(owner, p)) = Len(outputs_by_sample[p])

GroupedInv ==
    /\ Owned
    /\ \A p \in Prompts : /\ Len(outputs_by_sample[p]) >= 1
                          /\ Range(outputs_by_sample[p]) \subseteq DOMAIN rollouts

FillInv ==
    pc = "fill"
        => /\ Range(all_outputs) = DOMAIN rollouts
           /\ Len(all_outputs) > Len(RowPrompt)
                => Len(all_outputs) = Cardinality(DOMAIN rollouts)
           /\ Len(all_outputs) < Len(RowPrompt) => GroupedInv

OutputsInv ==
    OutputsTyped /\ StartedInv /\ CollectedInv /\ FillInv /\ OneOutputPerRow

\* The first row of a prompt is selected, as InitialRollouts is not zero.
LEMMA EveryPromptStarts ==
  ASSUME NEW p \in Prompts
  PROVE  \E i \in Selected : RowPrompt[i] = p
  <1> DEFINE S == {i \in Rows : RowPrompt[i] = p}
  <1>1. S \in SUBSET Nat /\ S # {}
    BY RowsFinite DEF Prompts
  <1>2. PICK i \in S : \A j \in S : i <= j
    <2> HIDE DEF S
    <2> QED
      BY <1>1, LeastNat
  <1>3. Earlier(i) = {}
    BY <1>2, RowsFinite DEF Earlier
  <1>4. Cardinality(Earlier(i)) = 0
    BY <1>3, FS_EmptySet
  <1> QED
    BY <1>2, <1>4, ConfigAssumption DEF Selected

LEMMA InitOutputs == Init => OutputsInv
  <1> SUFFICES ASSUME Init PROVE OutputsInv
    OBVIOUS
  <1> USE DEF Init
  <1>1. OutputsTyped
    BY DEF OutputsTyped
  <1>2. StartedInv
    BY DEF StartedInv
  <1>3. WithStatus("collected") = {} /\ Range(all_outputs) = {}
    BY DEF WithStatus, Range
  <1>4. CollectedInv
    BY <1>3, FS_EmptySet DEF CollectedInv
  <1> QED
    BY <1>1, <1>2, <1>4 DEF OutputsInv, FillInv, OneOutputPerRow

\* A step of a rollout leaves the lists alone and neither collects a rollout
\* nor takes one back.
LEMMA RolloutStepOutputs ==
  ASSUME OutputsInv, pc \notin {"group", "fill", "returned"},
         UNCHANGED <<all_outputs, outputs_by_sample, pc>>,
         WithStatus("collected")' = WithStatus("collected"),
         StartedInv'
  PROVE  OutputsInv'
  <1>1. OutputsTyped'
    BY DEF OutputsInv, OutputsTyped
  <1>2. CollectedInv'
    BY DEF OutputsInv, CollectedInv
  <1> QED
    BY <1>1, <1>2 DEF OutputsInv, FillInv, OneOutputPerRow

LEMMA ContinueOutputs ==
  ASSUME IInv, OutputsInv, NEW t \in DOMAIN rollouts, Continue(t)
  PROVE  OutputsInv'
  <1>1. /\ DOMAIN rollouts' = DOMAIN rollouts
        /\ \A u \in DOMAIN rollouts : rollouts'[u] =
               IF u = t THEN [rollouts[u] EXCEPT !.turns = @ + 1] ELSE rollouts[u]
        /\ UNCHANGED <<all_outputs, outputs_by_sample, pc>>
        /\ rollouts[t].status = "running"
    BY DEF Turn, Continue
  <1>2. rollouts[t] \in Rollout /\ pc \notin {"group", "fill", "returned"}
    BY <1>1, RunningStep
  <1>3. \A u \in DOMAIN rollouts : /\ rollouts'[u].sample = rollouts[u].sample
                                   /\ rollouts'[u].status = rollouts[u].status
    BY <1>1, <1>2 DEF IInv, TypeOK, Rollout
  <1>4. WithStatus("collected")' = WithStatus("collected")
    BY <1>1, <1>3 DEF WithStatus
  <1>5. StartedInv'
    BY <1>1, <1>3 DEF OutputsInv, StartedInv
  <1> QED
    BY <1>1, <1>2, <1>4, <1>5, RolloutStepOutputs

LEMMA EndsOutputs ==
  ASSUME IInv, OutputsInv, NEW t \in DOMAIN rollouts,
         NEW how \in {"done", "failed"}, Ends(t, how)
  PROVE  OutputsInv'
  <1>1. /\ DOMAIN rollouts' = DOMAIN rollouts
        /\ \A u \in DOMAIN rollouts : rollouts'[u] =
               IF u = t THEN [rollouts[u] EXCEPT !.status = how] ELSE rollouts[u]
        /\ UNCHANGED <<all_outputs, outputs_by_sample, pc>>
        /\ rollouts[t].status = "running"
    BY DEF Ends
  <1>2. rollouts[t] \in Rollout /\ pc \notin {"group", "fill", "returned"}
    BY <1>1, RunningStep
  <1>3. rollouts'[t].status = how /\ rollouts'[t].sample = rollouts[t].sample
    BY <1>1, <1>2 DEF Rollout
  <1>4. WithStatus("collected")' = WithStatus("collected")
    BY <1>1, <1>3 DEF WithStatus
  <1>5. StartedInv'
    BY <1>1, <1>3 DEF OutputsInv, StartedInv
  <1> QED
    BY <1>1, <1>2, <1>4, <1>5, RolloutStepOutputs

LEMMA FreshIds ==
  ASSUME IInv, NEW t \in DOMAIN rollouts, Branch(t)
  PROVE  NextIds(Branches(rollouts[t].sample)) \cap DOMAIN rollouts = {}
  <1> DEFINE c == Cardinality(DOMAIN rollouts \ Rows)
             last == Len(RowPrompt) + c
  <1>1. c \in Nat /\ Len(RowPrompt) \in Nat
    <2>1. IsFiniteSet(DOMAIN rollouts \ Rows)
      BY FS_Subset DEF IInv, TypeOK
    <2> QED
      BY <2>1, FS_CardinalityType, RowsFinite
  <1>2. \A k \in DOMAIN rollouts : k \in Nat /\ k <= last
    <2>1. DOMAIN rollouts \ Rows = (Len(RowPrompt) + 1) .. last
      BY DEF IInv, NumbersInv
    <2>2. DOMAIN rollouts \in SUBSET Nat
      BY DEF IInv, TypeOK, Ids
    <2>3. last \in Nat /\ Len(RowPrompt) <= last
      BY <1>1
    <2> HIDE DEF last, c
    <2> QED
      BY <1>1, <2>1, <2>2, <2>3, RowsFinite
  <1>3. \A n : \A k \in NextIds(n) : k > last
    BY <1>1 DEF NextIds
  <1> HIDE DEF last
  <1>4. last \in Nat
    BY <1>1 DEF last
  <1> QED
    BY <1>2, <1>3, <1>4

LEMMA BranchOutputs ==
  ASSUME IInv, OutputsInv, NEW t \in DOMAIN rollouts, Branch(t)
  PROVE  OutputsInv'
  <1> DEFINE new == NextIds(Branches(rollouts[t].sample))
             old == DOMAIN rollouts
  <1>1. /\ DOMAIN rollouts' = old \cup new
        /\ \A u \in old \cup new :
             rollouts'[u] = IF u \in new
                            THEN [Turn(t)[t] EXCEPT !.status = "queued"]
                            ELSE Turn(t)[u]
        /\ UNCHANGED <<all_outputs, outputs_by_sample, pc>>
        /\ rollouts[t].status = "running"
    BY DEF Branch
  <1>2. rollouts[t] \in Rollout /\ pc \notin {"group", "fill", "returned"}
    BY <1>1, RunningStep
  <1>3. new \cap old = {}
    BY FreshIds
  <1> HIDE DEF new
  <1>4. \A u \in old : Turn(t)[u] =
             IF u = t THEN [rollouts[u] EXCEPT !.turns = @ + 1] ELSE rollouts[u]
    BY DEF Turn
  <1>5. \A u \in old : /\ rollouts'[u].sample = rollouts[u].sample
                       /\ rollouts'[u].status = rollouts[u].status
    <2> SUFFICES ASSUME NEW u \in old
                 PROVE  /\ rollouts'[u].sample = rollouts[u].sample
                        /\ rollouts'[u].status = rollouts[u].status
      OBVIOUS
    <2>1. rollouts'[u] = Turn(t)[u]
      BY <1>1, <1>3
    <2>2. CASE u = t
      BY <1>2, <1>4, <2>1, <2>2 DEF Rollout
    <2>3. CASE u # t
      BY <1>4, <2>1, <2>3
    <2> QED
      BY <2>2, <2>3
  <1>6. \A u \in new : rollouts'[u].status = "queued"
    BY <1>1, <1>2, <1>4 DEF Rollout
  <1>7. WithStatus("collected")' = WithStatus("collected")
    BY <1>1, <1>5, <1>6 DEF WithStatus
  <1>8. StartedInv'
    BY <1>1, <1>5 DEF OutputsInv, StartedInv
  <1> QED
    BY <1>1, <1>2, <1>7, <1>8, RolloutStepOutputs

\* A round of the loop: the done rollouts are not among the outputs yet.
LEMMA CollectOutputs ==
  ASSUME IInv, OutputsInv, Collect
  PROVE  OutputsInv'
  <1> DEFINE done == WithStatus("done")
             coll == WithStatus("collected")
  <1>1. /\ DOMAIN rollouts' = DOMAIN rollouts
        /\ \A t \in DOMAIN rollouts : rollouts'[t] =
             [rollouts[t] EXCEPT !.status = CASE @ = "done"   -> "collected"
                                              [] @ = "queued" -> "running"
                                              [] OTHER        -> @]
        /\ pc = "collect" /\ pc' \in {"collect", "group"}
        /\ all_outputs' = all_outputs \o InOrder(done)
        /\ outputs_by_sample' = outputs_by_sample
    BY DEF Collect, Collected
  <1>2. \A t \in DOMAIN rollouts :
          /\ rollouts'[t].sample = rollouts[t].sample
          /\ rollouts'[t].status = "collected"
               <=> rollouts[t].status \in {"done", "collected"}
    BY <1>1 DEF IInv, TypeOK, Rollout, Status
  <1>3. WithStatus("collected")' = coll \cup done /\ coll \cap done = {}
    BY <1>1, <1>2 DEF WithStatus
  <1>4. /\ done \in SUBSET Int /\ done \subseteq Ids
        /\ IsFiniteSet(done) /\ IsFiniteSet(coll)
    BY FS_Subset DEF WithStatus, IInv, TypeOK, Ids
  <1>5. Cardinality(coll \cup done) = Cardinality(coll) + Cardinality(done)
    <2> HIDE DEF coll, done
    <2>1. Cardinality(coll \cap done) = 0
      BY <1>3, FS_EmptySet
    <2>2. Cardinality(coll) \in Nat /\ Cardinality(done) \in Nat
      BY <1>4, FS_CardinalityType
    <2>3. Cardinality(coll \cup done) =
            Cardinality(coll) + Cardinality(done) - Cardinality(coll \cap done)
      BY <1>4, FS_Union
    <2> QED
      BY <2>1, <2>2, <2>3
  <1> HIDE DEF done, coll
  <1>6. /\ InOrder(done) \in Seq(done)
        /\ Len(InOrder(done)) = Cardinality(done) /\ Cardinality(done) \in Nat
        /\ Range(InOrder(done)) = done
    BY <1>4, InOrderFacts
  <1>7. all_outputs \in Seq(Ids) /\ InOrder(done) \in Seq(Ids)
    BY <1>4, <1>6, SeqMonotonic DEF OutputsInv, OutputsTyped
  <1>8. /\ all_outputs' \in Seq(Ids)
        /\ Len(all_outputs') = Len(all_outputs) + Cardinality(done)
        /\ Range(all_outputs') = Range(all_outputs) \cup done
    <2> DEFINE more == InOrder(done)
    <2>1. more \in Seq(Ids) /\ Len(more) = Cardinality(done) /\ Range(more) = done
      BY <1>6, <1>7
    <2>2. all_outputs' = all_outputs \o more
      BY <1>1
    <2> HIDE DEF more
    <2>3. /\ all_outputs \o more \in Seq(Ids)
          /\ Len(all_outputs \o more) = Len(all_outputs) + Len(more)
          /\ Range(all_outputs \o more) = Range(all_outputs) \cup Range(more)
      <3>1. all_outputs \in Seq(Ids) /\ more \in Seq(Ids)
        BY <2>1, <1>7
      <3> QED
        BY <3>1, RangeOfJoin
    <2> QED
      BY <2>1, <2>2, <2>3
  <1>9. OutputsTyped'
    BY <1>1, <1>8 DEF OutputsInv, OutputsTyped
  <1>10. StartedInv'
    BY <1>1, <1>2 DEF OutputsInv, StartedInv
  <1>11. CollectedInv'
    BY <1>1, <1>3, <1>5, <1>8 DEF OutputsInv, CollectedInv, coll
  <1> QED
    BY <1>1, <1>9, <1>10, <1>11 DEF OutputsInv, FillInv, OneOutputPerRow

\* The k-th output goes to the prompt of the k-th registered rollout: a
\* prompt gets as many outputs as it has rollouts, and it has one.
LEMMA GroupOutputs ==
  ASSUME IInv, OutputsInv, Group
  PROVE  OutputsInv'
  <1> DEFINE D == DOMAIN rollouts
             n == Len(all_outputs)
             registered == InOrder(D)
             owner == [k \in DOMAIN all_outputs |-> rollouts[registered[k]].sample]
  <1>1. /\ pc = "group" /\ pc' = "fill"
        /\ UNCHANGED <<rollouts, all_outputs>>
        /\ outputs_by_sample' = IF n < Len(RowPrompt)
                                THEN [p \in Prompts |-> GroupedUnder(p)]
                                ELSE outputs_by_sample
    BY DEF Group
  <1>2. Range(all_outputs) = D /\ n = Cardinality(D)
    BY <1>1 DEF OutputsInv, CollectedInv, IInv, NoBranchLost
  <1>3. /\ all_outputs \in Seq(Ids) /\ n \in Nat
        /\ DOMAIN all_outputs = 1 .. n
    BY LenProperties DEF OutputsInv, OutputsTyped
  <1>4. D \in SUBSET Int /\ IsFiniteSet(D)
    BY DEF IInv, TypeOK, Ids
  <1>5. /\ \A k \in 1 .. n : registered[k] \in D
        /\ \A i \in D : Rank(D, i) \in 1 .. n /\ registered[Rank(D, i)] = i
    <2> HIDE DEF D, n
    <2> QED
      BY <1>2, <1>4, InOrderFacts, RankFacts
  <1>6. owner \in [DOMAIN all_outputs -> Prompts]
    <2>1. \A i \in D : rollouts[i].sample \in Prompts
      BY DEF IInv, TypeOK, Rollout
    <2> HIDE DEF D, n, registered
    <2> QED
      BY <2>1, <1>3, <1>5
  <1>7. ASSUME NEW p \in Prompts
        PROVE  /\ GroupedUnder(p) \in Seq(Ids)
               /\ Len(GroupedUnder(p)) = Cardinality(HeldBy(owner, p))
               /\ Len(GroupedUnder(p)) >= 1
               /\ Range(GroupedUnder(p)) \subseteq D
    <2> DEFINE I == {k \in DOMAIN all_outputs : rollouts[registered[k]].sample = p}
    <2>1. GroupedUnder(p) = Picked(all_outputs, I)
      BY DEF GroupedUnder
    <2>2. I = HeldBy(owner, p)
      BY DEF HeldBy
    <2>3. I # {}
      <3>1. PICK i \in Selected : RowPrompt[i] = p
        BY EveryPromptStarts
      <3>2. i \in D /\ rollouts[i].sample = p
        BY <3>1 DEF OutputsInv, StartedInv
      <3>3. Rank(D, i) \in 1 .. n /\ registered[Rank(D, i)] = i
        BY <3>2, <1>5
      <3> HIDE DEF registered, D, n
      <3> QED
        BY <3>2, <3>3, <1>3
    <2>4. I \in SUBSET DOMAIN all_outputs
      OBVIOUS
    <2> HIDE DEF I, owner, D, n, registered
    <2>5. /\ IsFiniteSet(I) /\ Cardinality(I) \in Nat
          /\ Picked(all_outputs, I) \in Seq(Ids)
          /\ Len(Picked(all_outputs, I)) = Cardinality(I)
          /\ \A k \in 1 .. Cardinality(I) :
                 /\ InOrder(I)[k] \in I
                 /\ Picked(all_outputs, I)[k] = all_outputs[InOrder(I)[k]]
      BY <1>3, <2>4, PickedFacts
    <2>6. Cardinality(I) >= 1
      <3>1. Cardinality(I) # 0
        BY <2>3, <2>5, FS_EmptySet
      <3> QED
        BY <3>1, <2>5
    <2>7. \A k \in 1 .. Cardinality(I) : Picked(all_outputs, I)[k] \in Range(all_outputs)
      BY <2>4, <2>5 DEF Range
    <2>8. DOMAIN Picked(all_outputs, I) = 1 .. Cardinality(I)
      BY <2>5, LenProperties
    <2>9. Range(Picked(all_outputs, I)) \subseteq D
      BY <2>7, <2>8, <1>2 DEF Range
    <2> QED
      BY <2>1, <2>2, <2>5, <2>6, <2>9
  <1> HIDE DEF owner
  <1>8. OutputsTyped'
    <2>1. outputs_by_sample' \in [Prompts -> Seq(Ids)]
      BY <1>1, <1>7 DEF OutputsInv, OutputsTyped
    <2> QED
      BY <2>1, <1>1, <1>3 DEF OutputsTyped
  <1>9. StartedInv'
    BY <1>1 DEF OutputsInv, StartedInv
  <1>10. ASSUME n < Len(RowPrompt) PROVE GroupedInv'
    <2>1. \A p \in Prompts : outputs_by_sample'[p] = GroupedUnder(p)
      BY <1>1, <1>10
    <2>2. \A p \in Prompts : HeldBy(owner, p)' = HeldBy(owner, p)
      BY <1>1 DEF HeldBy, owner
    <2>3. \E own \in [DOMAIN all_outputs -> Prompts] :
             \A p \in Prompts :
                 Cardinality({k \in DOMAIN all_outputs : own[k] = p})
                     = Len(outputs_by_sample'[p])
      BY <2>1, <1>6, <1>7 DEF HeldBy
    <2>4. Owned'
      BY <2>3, <1>1 DEF Owned, HeldBy
    <2> QED
      BY <2>1, <2>4, <1>1, <1>7 DEF GroupedInv
  <1>11. FillInv'
    BY <1>1, <1>2, <1>10 DEF FillInv
  <1> QED
    BY <1>1, <1>8, <1>9, <1>11 DEF OutputsInv, CollectedInv, OneOutputPerRow

\* A copy of a prompt's last output belongs to that prompt.
LEMMA FillOutputs ==
  ASSUME IInv, OutputsInv, NEW p \in Prompts, FillOne(p)
  PROVE  OutputsInv'
  <1> DEFINE n == Len(all_outputs)
             group == outputs_by_sample[p]
             x == Last(group)
  <1>1. /\ pc = "fill" /\ pc' = "fill" /\ rollouts' = rollouts
        /\ n < Len(RowPrompt)
        /\ all_outputs' = Append(all_outputs, x)
        /\ outputs_by_sample' =
             [outputs_by_sample EXCEPT ![p] = Append(outputs_by_sample[p],
                                                     Last(outputs_by_sample[p]))]
    BY DEF FillOne
  <1>2. /\ all_outputs \in Seq(Ids) /\ n \in Nat
        /\ DOMAIN all_outputs = 1 .. n
        /\ outputs_by_sample \in [Prompts -> Seq(Ids)]
        /\ group \in Seq(Ids) /\ Len(group) \in Nat
        /\ DOMAIN group = 1 .. Len(group)
    BY LenProperties DEF OutputsInv, OutputsTyped
  <1>3. GroupedInv /\ Range(all_outputs) = DOMAIN rollouts
    BY <1>1 DEF OutputsInv, FillInv
  <1>4. x \in DOMAIN rollouts /\ x \in Ids
    <2>1. Len(group) \in DOMAIN group
      BY <1>2, <1>3 DEF GroupedInv
    <2>2. x \in Range(group)
      BY <2>1 DEF Last, Range
    <2> QED
      BY <2>2, <1>3 DEF GroupedInv, IInv, TypeOK
  <1> HIDE DEF x, group, n
  <1>5. /\ all_outputs' \in Seq(Ids) /\ Len(all_outputs') = n + 1
        /\ DOMAIN all_outputs' = 1 .. (n + 1)
        /\ \A k \in 1 .. n : all_outputs'[k] = all_outputs[k]
        /\ all_outputs'[n + 1] = x
    BY <1>1, <1>2, <1>4, AppendProperties DEF n
  <1>6. /\ Append(group, x) \in Seq(Ids) /\ Len(Append(group, x)) = Len(group) + 1
        /\ DOMAIN Append(group, x) = 1 .. (Len(group) + 1)
        /\ \A k \in 1 .. Len(group) : Append(group, x)[k] = group[k]
        /\ Append(group, x)[Len(group) + 1] = x
    BY <1>2, <1>4, AppendProperties
  <1>7. \A q \in Prompts : outputs_by_sample'[q] =
           IF q = p THEN Append(group, x) ELSE outputs_by_sample[q]
    BY <1>1, <1>2 DEF x, group
  <1>8. OutputsTyped'
    BY <1>1, <1>2, <1>5, <1>6 DEF OutputsTyped, x, group
  <1>9. StartedInv'
    BY <1>1 DEF OutputsInv, StartedInv
  <1>10. Range(all_outputs') = DOMAIN rollouts
    <2>1. Range(all_outputs') = Range(all_outputs) \cup {x}
      BY <1>1, <1>2, <1>4, RangeOfAppend
    <2> QED
      BY <2>1, <1>3, <1>4
  <1>11. Owned'
    <2>1. PICK owner \in [DOMAIN all_outputs -> Prompts] :
             \A q \in Prompts :
                 Cardinality({k \in DOMAIN all_outputs : owner[k] = q})
                     = Len(outputs_by_sample[q])
      BY <1>3 DEF GroupedInv, Owned, HeldBy
    <2> DEFINE own == [k \in 1 .. (n + 1) |-> IF k = n + 1 THEN p ELSE owner[k]]
               I(q) == {k \in 1 .. n : owner[k] = q}
               J(q) == {k \in 1 .. (n + 1) : own[k] = q}
    <2>2. own \in [1 .. (n + 1) -> Prompts]
      BY <2>1, <1>2
    <2>3. \A q \in Prompts : J(q) = IF q = p THEN I(q) \cup {n + 1} ELSE I(q)
      BY <1>2
    <2>4. \A q \in Prompts : Cardinality(I(q)) = Len(outputs_by_sample[q])
      BY <2>1, <1>2
    <2>5. \A q \in Prompts : IsFiniteSet(I(q)) /\ n + 1 \notin I(q)
      <3>1. \A q \in Prompts : I(q) \in SUBSET (1 .. n) /\ n + 1 \notin I(q)
        BY <1>2
      <3> HIDE DEF I
      <3>2. IsFiniteSet(1 .. n)
        BY <1>2, FS_Interval
      <3> QED
        BY <3>1, <3>2, FS_Subset
    <2> HIDE DEF I, J, own
    <2>6. \A q \in Prompts : Cardinality(J(q)) = Len(outputs_by_sample'[q])
      <3> TAKE q \in Prompts
      <3>1. CASE q = p
        <4>1. Cardinality(I(q) \cup {n + 1}) = Cardinality(I(q)) + 1
          BY <2>5, FS_AddElement
        <4> QED
          BY <3>1, <4>1, <2>3, <2>4, <1>6, <1>7 DEF group
      <3>2. CASE q # p
        BY <3>2, <2>3, <2>4, <1>7
      <3> QED
        BY <3>1, <3>2
    <2>7. \A q \in Prompts :
             Cardinality({k \in DOMAIN all_outputs' : own[k] = q})
                 = Len(outputs_by_sample'[q])
      BY <2>6, <1>5 DEF J
    <2> QED
      BY <2>2, <2>7, <1>5 DEF Owned, HeldBy
  <1>12. GroupedInv'
    <2>1. Range(Append(group, x)) = Range(group) \cup {x}
      BY <1>2, <1>4, RangeOfAppend
    <2>2. Range(group) \subseteq DOMAIN rollouts
      BY <1>3 DEF GroupedInv, group
    <2>3. \A q \in Prompts : /\ Len(outputs_by_sample'[q]) >= 1
                             /\ Range(outputs_by_sample'[q]) \subseteq DOMAIN rollouts
      <3> TAKE q \in Prompts
      <3>1. CASE q = p
        <4>1. Len(Append(group, x)) >= 1
          BY <1>2, <1>6
        <4> QED
          BY <3>1, <4>1, <2>1, <2>2, <1>4, <1>7
      <3>2. CASE q # p
        BY <3>2, <1>3, <1>7 DEF GroupedInv
      <3> QED
        BY <3>1, <3>2
    <2> QED
      BY <2>3, <1>1, <1>11 DEF GroupedInv
  <1>13. FillInv'
    <2>1. ~ (n + 1 > Len(RowPrompt))
      BY <1>1, <1>2, RowsFinite DEF n
    <2> QED
      BY <2>1, <1>1, <1>5, <1>10, <1>12 DEF FillInv
  <1> QED
    BY <1>1, <1>8, <1>9, <1>13 DEF OutputsInv, CollectedInv, OneOutputPerRow

\* When no prompt is short there is an output for every row.
LEMMA NoneShort ==
  ASSUME OutputsTyped, GroupedInv, Short = {}
  PROVE  Len(all_outputs) >= Len(RowPrompt)
  <1>1. PICK owner \in [DOMAIN all_outputs -> Prompts] :
           \A p \in Prompts :
               Cardinality({k \in DOMAIN all_outputs : owner[k] = p})
                   = Len(outputs_by_sample[p])
    BY DEF GroupedInv, Owned, HeldBy
  <1>2. \A p \in Prompts : /\ Len(outputs_by_sample[p]) \in Nat
                           /\ Len(outputs_by_sample[p]) >= 1
                           /\ outputs_by_sample[p] # << >>
    BY LenProperties, EmptySeq DEF OutputsTyped, GroupedInv
  <1>3. \A p \in Prompts : Cardinality({i \in Rows : RowPrompt[i] = p}) \in Nat
    BY RowsFinite, FS_Subset, FS_CardinalityType
  <1>4. \A p \in Prompts :
           Cardinality(Labelled(Rows, RowPrompt, p))
               <= Cardinality(Labelled(DOMAIN all_outputs, owner, p))
    BY <1>1, <1>2, <1>3 DEF Short, RowsOf, Labelled
  <1>5. Len(all_outputs) \in Nat /\ DOMAIN all_outputs = 1 .. Len(all_outputs)
    BY LenProperties DEF OutputsTyped
  <1>6. /\ IsFiniteSet(DOMAIN all_outputs)
        /\ Cardinality(DOMAIN all_outputs) = Len(all_outputs)
    BY <1>5, CountTo
  <1>7. Cardinality(Rows) = Len(RowPrompt)
    BY RowsFinite, CountTo
  <1>8. RowPrompt \in [Rows -> Prompts]
    BY BatchAssumption, LenProperties DEF Rows
  <1>9. Cardinality(Rows) <= Cardinality(DOMAIN all_outputs)
    BY <1>4, <1>6, <1>8, RowsFinite, FewerOfEach
  <1> QED
    BY <1>5, <1>6, <1>7, <1>9, RowsFinite

\* With room for the budget in every group the rollouts are no more than the
\* rows.
LEMMA RoomForAll ==
  ASSUME TypeOK, BudgetKept,
         \A p \in Prompts : Limit <= Cardinality(RowsOf(p))
  PROVE  Cardinality(DOMAIN rollouts) <= Len(RowPrompt)
  <1> DEFINE prompt == [t \in DOMAIN rollouts |-> rollouts[t].sample]
  <1>1. prompt \in [DOMAIN rollouts -> Prompts]
    BY DEF TypeOK, Rollout
  <1>2. RowPrompt \in [Rows -> Prompts]
    BY BatchAssumption, LenProperties DEF Rows
  <1>3. ASSUME NEW p \in Prompts
        PROVE  Cardinality(Labelled(DOMAIN rollouts, prompt, p))
                   <= Cardinality(Labelled(Rows, RowPrompt, p))
    <2>1. Labelled(DOMAIN rollouts, prompt, p) = RolloutsOf(p)
      BY DEF RolloutsOf, Labelled
    <2>2. Labelled(Rows, RowPrompt, p) = RowsOf(p)
      BY DEF RowsOf, Labelled
    <2>3. Cardinality(RolloutsOf(p)) \in Nat /\ Cardinality(RowsOf(p)) \in Nat
      BY RowsFinite, FS_Subset, FS_CardinalityType DEF TypeOK, RolloutsOf, RowsOf
    <2>4. Cardinality(RolloutsOf(p)) <= Limit /\ Limit <= Cardinality(RowsOf(p))
      BY DEF BudgetKept, Limit
    <2> HIDE DEF prompt
    <2> QED
      BY <2>1, <2>2, <2>3, <2>4, LimitFacts
  <1>4. IsFiniteSet(DOMAIN rollouts)
    BY DEF TypeOK
  <1> HIDE DEF prompt
  <1>5. Cardinality(DOMAIN rollouts) <= Cardinality(Rows)
    BY <1>1, <1>2, <1>3, <1>4, RowsFinite, FewerOfEach
  <1>6. Cardinality(Rows) = Len(RowPrompt)
    BY RowsFinite, CountTo
  <1> QED
    BY <1>5, <1>6

LEMMA ReturnOutputs ==
  ASSUME IInv, OutputsInv, Return
  PROVE  OutputsInv'
  <1> DEFINE n == Len(all_outputs)
             m == Len(RowPrompt)
  <1>1. /\ pc = "fill" /\ pc' = "returned"
        /\ n >= m \/ Short = {}
        /\ all_outputs' = SubSeq(all_outputs, 1, Smaller(n, m))
        /\ UNCHANGED <<rollouts, outputs_by_sample>>
    BY DEF Return
  <1>2. /\ all_outputs \in Seq(Ids) /\ n \in Nat /\ m \in Nat
        /\ DOMAIN all_outputs = 1 .. n
    BY RowsFinite, LenProperties DEF OutputsInv, OutputsTyped
  <1>3. n >= m
    <2> SUFFICES ASSUME n < m PROVE FALSE
      BY <1>2
    <2>1. GroupedInv /\ Short = {}
      BY <1>1, <1>2 DEF OutputsInv, FillInv
    <2> QED
      BY <2>1, <1>2, NoneShort DEF OutputsInv
  <1>4. all_outputs' = SubSeq(all_outputs, 1, m)
    BY <1>1, <1>2, <1>3 DEF Smaller
  <1>5. all_outputs' \in Seq(Ids) /\ Len(all_outputs') = m
    <2>1. \A i \in 1 .. m : all_outputs[i] \in Ids
      BY <1>2, <1>3, ElementOfSeq
    <2> HIDE DEF m, n
    <2>2. /\ SubSeq(all_outputs, 1, m) \in Seq(Ids)
          /\ Len(SubSeq(all_outputs, 1, m)) = IF 1 <= m THEN m - 1 + 1 ELSE 0
      BY <2>1, <1>2, SubSeqProperties
    <2> QED
      BY <2>2, <1>2, <1>4
  <1>6. ASSUME \A p \in Prompts : Limit <= Cardinality(RowsOf(p))
        PROVE  Range(all_outputs') = DOMAIN rollouts
    <2>1. Cardinality(DOMAIN rollouts) <= m
      BY <1>6, RoomForAll DEF IInv
    <2>2. Cardinality(DOMAIN rollouts) \in Nat
      BY FS_CardinalityType DEF IInv, TypeOK
    <2>3. n = m
      BY <2>1, <2>2, <1>1, <1>2, <1>3 DEF OutputsInv, FillInv
    <2>4. all_outputs' = all_outputs
      BY <2>3, <1>2, <1>4, SubSeqFull
    <2> QED
      BY <2>4, <1>1 DEF OutputsInv, FillInv
  <1>7. OutputsTyped' /\ StartedInv'
    BY <1>1, <1>5 DEF OutputsInv, OutputsTyped, StartedInv
  <1>8. OneOutputPerRow'
    BY <1>1, <1>5, <1>6 DEF OneOutputPerRow, Limit, RowsOf
  <1> QED
    BY <1>1, <1>7, <1>8 DEF OutputsInv, CollectedInv, FillInv

LEMMA NextOutputs == IInv /\ OutputsInv /\ [Next]_vars => OutputsInv'
  <1> SUFFICES ASSUME IInv, OutputsInv, [Next]_vars PROVE OutputsInv'
    OBVIOUS
  <1>1. CASE \E t \in DOMAIN rollouts : Continue(t)
    BY <1>1, ContinueOutputs
  <1>2. CASE \E t \in DOMAIN rollouts : Branch(t)
    BY <1>2, BranchOutputs
  <1>3. CASE \E t \in DOMAIN rollouts : Finish(t)
    BY <1>3, EndsOutputs DEF Finish
  <1>4. CASE \E t \in DOMAIN rollouts : Fail(t)
    BY <1>4, EndsOutputs DEF Fail
  <1>5. CASE Collect
    BY <1>5, CollectOutputs
  <1>6. CASE Raise
    <2>1. UNCHANGED <<rollouts, all_outputs, outputs_by_sample>> /\ pc' = "raised"
      BY <1>6 DEF Raise
    <2> QED
      BY <2>1 DEF OutputsInv, OutputsTyped, StartedInv, CollectedInv, FillInv,
                  OneOutputPerRow
  <1>7. CASE Group
    BY <1>7, GroupOutputs
  <1>8. CASE \E p \in Prompts : FillOne(p)
    BY <1>8, FillOutputs
  <1>9. CASE Return
    BY <1>9, ReturnOutputs
  <1>10. CASE UNCHANGED vars
    BY <1>10 DEF vars, OutputsInv, OutputsTyped, StartedInv, CollectedInv,
                 WithStatus, FillInv, GroupedInv, Owned, HeldBy, OneOutputPerRow
  <1> QED
    BY <1>1, <1>2, <1>3, <1>4, <1>5, <1>6, <1>7, <1>8, <1>9, <1>10 DEF Next

-----------------------------------------------------------------------------
(***************************************************************************)
(* The theorems                                                            *)
(***************************************************************************)
LEMMA Invariance == Spec => []IInv
  <1> QED
    BY InitInv, NextInv, PTL DEF Spec

\* The worker's bookkeeping (_generate_sequences_arpo) keeps its types.
THEOREM TypeCorrect == Spec => []TypeOK
  <1>1. IInv => TypeOK
    BY DEF IInv
  <1> QED
    BY <1>1, Invariance, PTL

\* No order of boundaries, ends and launches gives a prompt more rollouts
\* than its budget (ArpoBranchCoordinator.on_tool_boundary).
THEOREM BudgetHolds == Spec => []BudgetKept
  <1>1. IInv => BudgetKept
    BY DEF IInv
  <1> QED
    BY <1>1, Invariance, PTL

\* When the loop of _generate_sequences_arpo ends every rollout, launched or
\* branched, has been collected.
THEOREM NoBranchIsLost == Spec => []NoBranchLost
  <1>1. IInv => NoBranchLost
    BY DEF IInv
  <1> QED
    BY <1>1, Invariance, PTL

\* A call that returns has one output per row, and when every group has room
\* for the budget no rollout is cut off (the fill-up and the trim of
\* _generate_sequences_arpo): whatever the order of ends and branches was.
THEOREM OutputsMatchRows == Spec => []OneOutputPerRow
  <1>1. Init => IInv /\ OutputsInv
    BY InitInv, InitOutputs
  <1>2. (IInv /\ OutputsInv) /\ [Next]_vars => (IInv /\ OutputsInv)'
    BY NextInv, NextOutputs
  <1>3. OutputsInv => OneOutputPerRow
    BY DEF OutputsInv
  <1> QED
    BY <1>1, <1>2, <1>3, PTL DEF Spec
=============================================================================
