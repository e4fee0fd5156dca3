-------------------------- MODULE TreeSearchProofs --------------------------
(***************************************************************************)
(* Proofs about TreeSearch, for any number of trees, chains and turns: of  *)
(* every tree that is done, K finished leaves are sampled; each turn has a *)
(* token within the response; ids are unique in a tree; the outputs fit    *)
(* the rows; and every step brings the search nearer to its end.           *)
(*                                                                         *)
(* The invariant is about one tree, given by its values, so that the       *)
(* lemmas on the steps of a tree are about values and not about variables. *)
(***************************************************************************)
EXTENDS TreeSearch, OrderedFacts

Node ==
  [id : Nat \ {0}, parent : Nat, depth : 0 .. MaxTurns, start : Nat,
   len : Lengths \cup {0}, obs : ObsLengths \cup {0}, terminal : BOOLEAN]
ChainType == [tip : Nat, at : {"generating", "searching", "done"}]
PhaseType == {"new", "growing", "raised", "sampled"}

\* A node from which a chain may go on.
Open(node) == ~node.terminal /\ node.depth < MaxTurns /\ End(node) < ResponseLength

\* Nodes that have children are open, so terminal nodes are leaves; and every
\* turn starts before the end of the response.
NodesOK(ns) ==
  \A n \in DOMAIN ns :
    /\ ns[n].parent < n
    /\ ns[n].start < ResponseLength
    /\ n \notin LeavesOf(ns) => Open(ns[n])

ChainOK(ns, chain, ph) ==
  /\ chain.tip \in DOMAIN ns
  /\ chain.at = "generating" => Open(ns[chain.tip])
  /\ chain.at = "searching" => /\ chain.tip \in LeavesOf(ns) /\ chain.tip > 1
                               /\ ~ns[chain.tip].terminal
  /\ ph \in {"growing", "sampled"} /\ chain.at = "done" => ns[chain.tip].terminal

\* Two chains share a tip only as long as neither has made a turn.
Apart(ns, cs) ==
  \A c, d \in DOMAIN cs :
    cs[c].tip \in LeavesOf(ns) /\ cs[c].tip = cs[d].tip => c = d

\* A leaf is finished, or a chain grows from it.
Attended(ns, cs) ==
  \A n \in LeavesOf(ns) :
    ns[n].terminal \/ \E c \in DOMAIN cs : cs[c].at # "done" /\ cs[c].tip = n

\* The chains that have made no turn since they were started.
Unmoved(ns, cs) == {c \in DOMAIN cs : cs[c].tip \notin LeavesOf(ns)}

\* Each chain of an iteration will have added one leaf to the tree.
Counted(ns, cs, it) ==
  /\ Len(ns) > 0 /\ ~ns[1].terminal
  /\ Cardinality(LeavesOf(ns)) + Cardinality(Unmoved(ns, cs)) = 1 + TsN * it

SampleOK(ns, cs, ph, sm) ==
  IF ph = "sampled"
    THEN /\ sm \subseteq LeavesOf(ns)
         /\ \A c \in DOMAIN cs : cs[c].at = "done"
         /\ EnoughExpansions => (\A n \in sm : ns[n].terminal) /\ Cardinality(sm) = K
    ELSE sm = {}

IdsOK(ns, cnt) ==
  /\ \A n \in DOMAIN ns : ns[n].id <= cnt
  /\ \A m, n \in DOMAIN ns : ns[m].id = ns[n].id => m = n

TreeOK(ns, cs, it, ph, sm, cnt) ==
  /\ ns \in Seq(Node) /\ cs \in Seq(ChainType) /\ it \in 0 .. TsL /\ ph \in PhaseType
  /\ NodesOK(ns) /\ IdsOK(ns, cnt)
  /\ \A c \in DOMAIN cs : ChainOK(ns, cs[c], ph)
  /\ Apart(ns, cs)
  /\ ph = "growing" => Attended(ns, cs)
  /\ IF ph = "new" THEN ns = <<>> /\ cs = <<>> /\ it = 0 ELSE Counted(ns, cs, it)
  /\ SampleOK(ns, cs, ph, sm)

IInv ==
  /\ nodes \in [Trees -> Seq(Node)]
  /\ chains \in [Trees -> Seq(ChainType)]
  /\ iteration \in [Trees -> 0 .. TsL]
  /\ phase \in [Trees -> PhaseType]
  /\ sampled \in [Trees -> SUBSET Nat]
  /\ counter \in Nat
  /\ run \in {"new", "running", "failed", "done"}
  /\ run = "new" => \A t \in Trees : phase[t] = "new"
  /\ \A t \in Trees :
       TreeOK(nodes[t], chains[t], iteration[t], phase[t], sampled[t], counter)

-----------------------------------------------------------------------------
(* Leaves of a sequence of nodes. *)

LEMMA NodeTypes ==
  ASSUME NEW ns \in Seq(Node), NEW n \in DOMAIN ns
  PROVE  /\ ns[n] \in Node /\ n \in Nat \ {0} /\ n <= Len(ns) /\ Len(ns) \in Nat
         /\ ns[n].parent \in Nat /\ ns[n].depth \in 0 .. MaxTurns
         /\ ns[n].start \in Nat /\ ns[n].len \in Nat /\ ns[n].obs \in Nat
         /\ ns[n].terminal \in BOOLEAN /\ ns[n].id \in Nat
<1>1. ns[n] \in Node /\ n \in Nat \ {0} /\ n <= Len(ns) /\ Len(ns) \in Nat
  OBVIOUS
<1>2. /\ ns[n].parent \in Nat /\ ns[n].depth \in 0 .. MaxTurns /\ ns[n].start \in Nat
      /\ ns[n].len \in Lengths \cup {0} /\ ns[n].obs \in ObsLengths \cup {0}
      /\ ns[n].terminal \in BOOLEAN /\ ns[n].id \in Nat \ {0}
  BY <1>1 DEF Node
<1>3. Lengths \cup {0} \subseteq Nat /\ ObsLengths \cup {0} \subseteq Nat
  BY LengthAssumption
<1> QED
  BY <1>1, <1>2, <1>3

LEMMA LeavesFinite ==
  ASSUME NEW ns \in Seq(Node)
  PROVE  /\ IsFiniteSet(LeavesOf(ns))
         /\ LeavesOf(ns) \subseteq DOMAIN ns
         /\ LeavesOf(ns) \subseteq Nat
<1>1. DOMAIN ns = 1 .. Len(ns) /\ Len(ns) \in Nat
  OBVIOUS
<1>2. IsFiniteSet(1 .. Len(ns))
  BY <1>1, FS_Interval
<1>3. LeavesOf(ns) \subseteq 1 .. Len(ns)
  BY <1>1 DEF LeavesOf
<1> QED
  BY <1>1, <1>2, <1>3, FS_Subset

\* A child takes the place of its parent among the leaves.
LEMMA LeavesAppend ==
  ASSUME NEW ns \in Seq(Node), NEW child \in Node, child.parent \in DOMAIN ns,
         \A n \in DOMAIN ns : ns[n].parent < n
  PROVE  LeavesOf(Append(ns, child)) = (LeavesOf(ns) \ {child.parent}) \cup {Len(ns) + 1}
<1> DEFINE ms == Append(ns, child)
<1>1. /\ Len(ns) \in Nat /\ DOMAIN ns = 1 .. Len(ns)
      /\ DOMAIN ms = 1 .. Len(ns) + 1
      /\ \A n \in 1 .. Len(ns) : ms[n] = ns[n]
      /\ ms[Len(ns) + 1] = child
  OBVIOUS
<1>2. \A n \in 1 .. Len(ns) : ns[n].parent \in Nat /\ ns[n].parent < Len(ns) + 1
  BY <1>1, NodeTypes
<1>3. child.parent \in Nat /\ child.parent < Len(ns) + 1
  BY <1>1
<1> HIDE DEF ms
<1>4. ASSUME NEW n \in 1 .. Len(ns)
      PROVE  n \in LeavesOf(ms) <=> n \in LeavesOf(ns) /\ n # child.parent
  BY <1>1, <1>4 DEF LeavesOf
<1>5. Len(ns) + 1 \in LeavesOf(ms)
  BY <1>1, <1>2, <1>3 DEF LeavesOf
<1>6. LeavesOf(ms) \subseteq 1 .. Len(ns) + 1 /\ LeavesOf(ns) \subseteq 1 .. Len(ns)
  BY <1>1 DEF LeavesOf
<1>7. LeavesOf(ms) = (LeavesOf(ns) \ {child.parent}) \cup {Len(ns) + 1}
  BY <1>1, <1>4, <1>5, <1>6
<1> QED
  BY <1>7 DEF ms

\* A change that keeps the parent keeps the leaves.
LEMMA LeavesExcept ==
  ASSUME NEW ns \in Seq(Node), NEW i \in DOMAIN ns, NEW node \in Node,
         node.parent = ns[i].parent
  PROVE  LeavesOf([ns EXCEPT ![i] = node]) = LeavesOf(ns)
  BY DEF LeavesOf

\* A finished node is a leaf, and a tree has finitely many leaves and chains.
LEMMA Finite ==
  ASSUME NEW ns \in Seq(Node), NEW cs \in Seq(ChainType)
  PROVE  /\ IsFiniteSet(LeavesOf(ns)) /\ Cardinality(LeavesOf(ns)) \in Nat
         /\ IsFiniteSet(Unmoved(ns, cs)) /\ Cardinality(Unmoved(ns, cs)) \in Nat
<1>1. IsFiniteSet(LeavesOf(ns))
  BY LeavesFinite
<1>2. DOMAIN cs = 1 .. Len(cs) /\ Len(cs) \in Nat
  OBVIOUS
<1>3. IsFiniteSet(Unmoved(ns, cs))
  <2>1. IsFiniteSet(1 .. Len(cs)) /\ Unmoved(ns, cs) \subseteq 1 .. Len(cs)
    BY <1>2, FS_Interval DEF Unmoved
  <2> QED
    BY <2>1, FS_Subset
<1> QED
  BY <1>1, <1>3, FS_CardinalityType

LEMMA EndType ==
  ASSUME NEW ns \in Seq(Node), NEW n \in DOMAIN ns
  PROVE  End(ns[n]) \in Nat
  BY NodeTypes DEF End

-----------------------------------------------------------------------------
(* The steps of a chain. *)

LEMMA OneDeeper ==
  ASSUME NEW n \in Nat, NEW d \in 0 .. n, d < n
  PROVE  d + 1 \in 0 .. n
  OBVIOUS

\* A chain replaced in its list.
LEMMA ReplacedInSeq ==
  ASSUME NEW S, NEW s \in Seq(S), NEW i \in DOMAIN s, NEW x \in S
  PROVE  [s EXCEPT ![i] = x] \in Seq(S)
  OBVIOUS

\* A turn: the chain moves from its tip to a new child of it.
NewNode(cnt, ns, tip, len, searches) ==
  [id |-> cnt + 1, parent |-> tip, depth |-> ns[tip].depth + 1,
   start |-> End(ns[tip]), len |-> len, obs |-> 0, terminal |-> ~searches]

Moved(cs, c, n, searches) ==
  [cs EXCEPT ![c] = Chain(n + 1, IF searches THEN "searching" ELSE "done")]

LEMMA TurnOK ==
  ASSUME NEW ns, NEW cs, NEW it, NEW ph, NEW sm, NEW cnt \in Nat,
         TreeOK(ns, cs, it, ph, sm, cnt), ph # "new",
         NEW c \in DOMAIN cs, cs[c].at = "generating",
         NEW len \in Lengths, NEW searches \in BOOLEAN,
         NEW child, child = NewNode(cnt, ns, cs[c].tip, len, searches),
         NEW ds, ds = Moved(cs, c, Len(ns), searches)
  PROVE  /\ TreeOK(Append(ns, child), ds, it, ph, sm, cnt + 1)
         /\ Append(ns, child) \in Seq(Node) /\ ds \in Seq(ChainType)
<1> DEFINE tip == cs[c].tip
           N == Len(ns)
           ms == Append(ns, child)
<1>0. /\ child = [id |-> cnt + 1, parent |-> tip, depth |-> ns[tip].depth + 1,
                  start |-> End(ns[tip]), len |-> len, obs |-> 0, terminal |-> ~searches]
      /\ ds = [cs EXCEPT ![c] = Chain(N + 1, IF searches THEN "searching" ELSE "done")]
  BY DEF NewNode, Moved
<1>1. /\ ns \in Seq(Node) /\ cs \in Seq(ChainType) /\ N \in Nat /\ DOMAIN ns = 1 .. N
      /\ tip \in 1 .. N /\ Open(ns[tip]) /\ ns[tip] \in Node
      /\ DOMAIN ds = DOMAIN cs /\ c \in DOMAIN cs
      /\ \A d \in DOMAIN cs : cs[d].tip \in 1 .. N /\ cs[d] \in ChainType
  BY <1>0 DEF TreeOK, ChainOK
<1>2. ds[c] = Chain(N + 1, IF searches THEN "searching" ELSE "done")
      /\ \A d \in DOMAIN cs : d # c => ds[d] = cs[d]
  BY <1>0, <1>1
<1>3. child \in Node
  <2>1. ns[tip].depth \in 0 .. MaxTurns /\ ns[tip].depth < MaxTurns /\ End(ns[tip]) \in Nat
    BY <1>1, NodeTypes, EndType DEF Open
  <2>2. ns[tip].depth + 1 \in 0 .. MaxTurns
    <3>1. PICK d \in 0 .. MaxTurns : d = ns[tip].depth /\ d < MaxTurns
      BY <2>1
    <3>2. MaxTurns \in Nat
      BY SearchAssumption
    <3>3. d + 1 \in 0 .. MaxTurns
      BY <3>1, <3>2, OneDeeper
    <3> QED
      BY <3>1, <3>3
  <2>3. 0 \in ObsLengths \cup {0} /\ len \in Lengths \cup {0} /\ cnt + 1 \in Nat \ {0}
    OBVIOUS
  <2>4. (~searches) \in BOOLEAN /\ tip \in Nat
    BY <1>1
  <2>5. child = [id |-> cnt + 1, parent |-> tip, depth |-> ns[tip].depth + 1,
                 start |-> End(ns[tip]), len |-> len, obs |-> 0, terminal |-> ~searches]
    BY <1>0
  <2> HIDE DEF tip
  <2> QED
    BY <2>5, <2>1, <2>2, <2>3, <2>4 DEF Node
<1>4. /\ child.parent = tip /\ child.id = cnt + 1 /\ child.start = End(ns[tip])
      /\ child.terminal = ~searches
  BY <1>0
<1>5. /\ ms \in Seq(Node) /\ Len(ms) = N + 1 /\ DOMAIN ms = 1 .. N + 1
      /\ ms[N + 1] = child /\ \A n \in 1 .. N : ms[n] = ns[n]
  BY <1>1, <1>3
<1>6. ds \in Seq(ChainType)
  <2>1. Chain(N + 1, IF searches THEN "searching" ELSE "done") \in ChainType
    BY <1>1 DEF Chain, ChainType
  <2> DEFINE next == Chain(N + 1, IF searches THEN "searching" ELSE "done")
  <2>2. ds = [cs EXCEPT ![c] = next] /\ next \in ChainType
    BY <1>0, <2>1
  <2> HIDE DEF next
  <2>3. cs \in Seq(ChainType) /\ c \in DOMAIN cs
    BY <1>1
  <2> QED
    BY <2>2, <2>3, ReplacedInSeq
<1>7. LeavesOf(ms) = (LeavesOf(ns) \ {tip}) \cup {N + 1}
  <2>1. \A n \in DOMAIN ns : ns[n].parent < n
    BY DEF TreeOK, NodesOK
  <2>2. child.parent \in DOMAIN ns
    BY <1>1, <1>4
  <2>3. LeavesOf(Append(ns, child)) = (LeavesOf(ns) \ {child.parent}) \cup {Len(ns) + 1}
    BY <1>1, <1>3, <2>1, <2>2, LeavesAppend
  <2> QED
    BY <2>3, <1>4
<1>8. LeavesOf(ns) \subseteq 1 .. N
  BY <1>1, LeavesFinite
<1>9. ds[c].tip = N + 1 /\ ds[c].at = IF searches THEN "searching" ELSE "done"
  BY <1>2 DEF Chain
<1> HIDE DEF ms
<1>10. NodesOK(ms)
  <2> SUFFICES ASSUME NEW n \in 1 .. N + 1
               PROVE  /\ ms[n].parent < n
                      /\ ms[n].start < ResponseLength
                      /\ n \notin LeavesOf(ms) => Open(ms[n])
    BY <1>5 DEF NodesOK
  <2>1. CASE n \in 1 .. N
    <3>1. /\ ns[n].parent < n /\ ns[n].start < ResponseLength
          /\ n \notin LeavesOf(ns) => Open(ns[n])
      BY <1>1, <2>1 DEF TreeOK, NodesOK
    <3>2. n \notin LeavesOf(ms) => n \notin LeavesOf(ns) \/ n = tip
      BY <1>7
    <3> QED
      BY <1>1, <1>5, <2>1, <3>1, <3>2
  <2>2. CASE n = N + 1
    <3>1. n \in LeavesOf(ms)
      BY <1>7, <2>2
    <3>2. child.start < ResponseLength
      BY <1>1, <1>4 DEF Open
    <3> QED
      BY <1>1, <1>4, <1>5, <2>2, <3>1, <3>2
  <2> QED
    BY <1>1, <2>1, <2>2
<1>11. \A d \in DOMAIN ds : ChainOK(ms, ds[d], ph)
  <2> SUFFICES ASSUME NEW d \in DOMAIN cs PROVE ChainOK(ms, ds[d], ph)
    BY <1>1
  <2>1. CASE d = c
    <3>1. ds[d].tip \in DOMAIN ms /\ ds[d].tip \in LeavesOf(ms) /\ ds[d].tip > 1
      BY <1>1, <1>5, <1>7, <1>9, <2>1
    <3>2. ms[ds[d].tip].terminal = ~searches
      BY <1>4, <1>5, <1>9, <2>1
    <3> QED
      BY <1>9, <2>1, <3>1, <3>2 DEF ChainOK
  <2>2. CASE d # c
    <3>1. ds[d] = cs[d] /\ ChainOK(ns, cs[d], ph) /\ cs[d].tip \in 1 .. N
      BY <1>1, <1>2, <2>2 DEF TreeOK
    <3>2. ms[cs[d].tip] = ns[cs[d].tip] /\ cs[d].tip \in DOMAIN ms
      BY <1>1, <1>5, <3>1
    <3>3. cs[d].tip \in LeavesOf(ns) => cs[d].tip \in LeavesOf(ms)
      BY <1>7, <2>2 DEF TreeOK, Apart
    <3> QED
      BY <3>1, <3>2, <3>3 DEF ChainOK
  <2> QED
    BY <2>1, <2>2
<1>12. Apart(ms, ds)
  <2> SUFFICES ASSUME NEW d \in DOMAIN cs, NEW e \in DOMAIN cs,
                      ds[d].tip \in LeavesOf(ms), ds[d].tip = ds[e].tip, d # c
               PROVE  d = e
    BY <1>1, <1>2, <1>9 DEF Apart
  <2>1. ds[d].tip \in 1 .. N /\ ds[d] = cs[d]
    BY <1>1, <1>2
  <2>2. e # c
    BY <1>1, <1>9, <2>1
  <2>3. ds[e] = cs[e] /\ cs[d].tip \in LeavesOf(ns)
    BY <1>1, <1>2, <1>7, <2>1, <2>2
  <2> QED
    BY <2>1, <2>3 DEF TreeOK, Apart
<1>13. ASSUME ph = "growing" PROVE Attended(ms, ds)
  <2> SUFFICES ASSUME NEW n \in LeavesOf(ms)
               PROVE  ms[n].terminal \/ \E d \in DOMAIN ds : ds[d].at # "done" /\ ds[d].tip = n
    BY DEF Attended
  <2>1. CASE n = N + 1
    BY <1>1, <1>4, <1>5, <1>9, <2>1
  <2>2. CASE n # N + 1
    <3>1. n \in LeavesOf(ns) /\ n # tip /\ n \in 1 .. N
      BY <1>7, <1>8, <2>2
    <3>2. ns[n].terminal \/ \E d \in DOMAIN cs : cs[d].at # "done" /\ cs[d].tip = n
      BY <1>13, <3>1 DEF TreeOK, Attended
    <3> QED
      BY <1>1, <1>2, <1>5, <3>1, <3>2
  <2> QED
    BY <2>1, <2>2
<1>14. Counted(ms, ds, it)
  <2>1. /\ Len(ns) > 0 /\ ~ns[1].terminal
        /\ Cardinality(LeavesOf(ns)) + Cardinality(Unmoved(ns, cs)) = 1 + TsN * it
    BY DEF TreeOK, Counted
  <2>2. /\ IsFiniteSet(LeavesOf(ns)) /\ Cardinality(LeavesOf(ns)) \in Nat
        /\ IsFiniteSet(Unmoved(ns, cs)) /\ Cardinality(Unmoved(ns, cs)) \in Nat
    BY <1>1, Finite
  <2>3. IsFiniteSet(LeavesOf(ns) \ {tip}) /\ N + 1 \notin LeavesOf(ns) \ {tip}
    <3>1. IsFiniteSet(LeavesOf(ns) \ {tip})
      BY <2>2, FS_RemoveElement
    <3> QED
      BY <1>1, <1>8, <3>1
  <2>4. Cardinality(LeavesOf(ms)) = Cardinality(LeavesOf(ns) \ {tip}) + 1
    BY <1>7, <2>3, FS_AddElement
  <2>7. Len(ms) > 0 /\ ~ms[1].terminal
    <3>1. 1 \in 1 .. N /\ Len(ms) > 0
      BY <1>1, <1>5, <2>1
    <3>2. ms[1] = ns[1]
      BY <1>5, <3>1
    <3> QED
      BY <2>1, <3>1, <3>2
  <2>5. CASE tip \in LeavesOf(ns)
    <3>1. Cardinality(LeavesOf(ns) \ {tip}) = Cardinality(LeavesOf(ns)) - 1
      BY <2>2, <2>5, FS_RemoveElement
    <3>2. ASSUME NEW d \in DOMAIN cs
          PROVE  ds[d].tip \notin LeavesOf(ms) <=> cs[d].tip \notin LeavesOf(ns)
      <4>1. CASE d = c
        BY <1>7, <1>9, <2>5, <4>1
      <4>2. CASE d # c
        <5>1. ds[d].tip = cs[d].tip /\ cs[d].tip # N + 1
          BY <1>1, <1>2, <4>2
        <5>2. cs[d].tip # tip
          BY <2>5, <4>2 DEF TreeOK, Apart
        <5> QED
          BY <1>7, <5>1, <5>2
      <4> QED
        BY <4>1, <4>2
    <3>3. Unmoved(ms, ds) = Unmoved(ns, cs)
      BY <1>1, <3>2 DEF Unmoved
    <3>4. Cardinality(LeavesOf(ms)) = Cardinality(LeavesOf(ns))
      BY <2>2, <2>4, <3>1
    <3>5. Cardinality(LeavesOf(ms)) + Cardinality(Unmoved(ms, ds)) = 1 + TsN * it
      BY <2>1, <3>3, <3>4, Zenon
    <3> QED
      BY <2>7, <3>5 DEF Counted
  <2>6. CASE tip \notin LeavesOf(ns)
    <3>1. LeavesOf(ns) \ {tip} = LeavesOf(ns)
      BY <2>6
    <3>2. Cardinality(LeavesOf(ms)) = Cardinality(LeavesOf(ns)) + 1
      BY <2>4, <3>1
    <3>3. ASSUME NEW d \in DOMAIN cs
          PROVE  ds[d].tip \notin LeavesOf(ms) <=> cs[d].tip \notin LeavesOf(ns) /\ d # c
      <4>1. CASE d = c
        BY <1>7, <1>9, <4>1
      <4>2. CASE d # c
        BY <1>1, <1>2, <1>7, <2>6, <4>2
      <4> QED
        BY <4>1, <4>2
    <3>4. Unmoved(ms, ds) = Unmoved(ns, cs) \ {c} /\ c \in Unmoved(ns, cs)
      BY <1>1, <2>6, <3>3 DEF Unmoved
    <3>5. Cardinality(Unmoved(ns, cs) \ {c}) = Cardinality(Unmoved(ns, cs)) - 1
      BY <2>2, <3>4, FS_RemoveElement
    <3>6. Cardinality(Unmoved(ms, ds)) = Cardinality(Unmoved(ns, cs)) - 1
      BY <3>4, <3>5, Zenon
    <3>7. Cardinality(LeavesOf(ms)) + Cardinality(Unmoved(ms, ds)) = 1 + TsN * it
      BY <2>1, <2>2, <3>2, <3>6
    <3> QED
      BY <2>7, <3>7 DEF Counted
  <2> QED
    BY <2>5, <2>6
<1>15. SampleOK(ms, ds, ph, sm)
  <2>1. ph # "sampled"
    BY DEF TreeOK, SampleOK
  <2> QED
    BY <2>1 DEF TreeOK, SampleOK
<1>16. IdsOK(ms, cnt + 1)
  <2>1. \A n \in 1 .. N : ns[n].id \in Nat /\ ns[n].id <= cnt
    BY <1>1, NodeTypes DEF TreeOK, IdsOK
  <2>2. \A n \in 1 .. N : ms[n].id = ns[n].id /\ ms[n].id <= cnt /\ ms[n].id # cnt + 1
    BY <1>5, <2>1
  <2>3. \A n \in 1 .. N + 1 : ms[n].id <= cnt + 1
    BY <1>1, <1>4, <1>5, <2>1, <2>2
  <2>4. \A m, n \in 1 .. N + 1 : ms[m].id = ms[n].id => m = n
    <3> SUFFICES ASSUME NEW m \in 1 .. N + 1, NEW n \in 1 .. N + 1, ms[m].id = ms[n].id
                 PROVE  m = n
      OBVIOUS
    <3>1. ms[N + 1].id = cnt + 1
      BY <1>4, <1>5
    <3>2. (m \in 1 .. N \/ m = N + 1) /\ (n \in 1 .. N \/ n = N + 1)
      BY <1>1
    <3>3. CASE m \in 1 .. N /\ n \in 1 .. N
      BY <1>1, <2>2, <3>3 DEF TreeOK, IdsOK
    <3>4. CASE m = N + 1 \/ n = N + 1
      BY <2>2, <3>1, <3>2, <3>4, Zenon
    <3> QED
      BY <3>2, <3>3, <3>4
  <2> QED
    BY <1>5, <2>3, <2>4 DEF IdsOK
<1>17. TreeOK(ms, ds, it, ph, sm, cnt + 1)
  BY <1>5, <1>6, <1>10, <1>11, <1>12, <1>13, <1>14, <1>15, <1>16 DEF TreeOK
<1> QED
  BY <1>5, <1>6, <1>17 DEF ms

\* A search result: the tip stays the same node, longer or finished.
LEMMA ResultOK ==
  ASSUME NEW ns, NEW cs, NEW it, NEW ph, NEW sm, NEW cnt \in Nat,
         TreeOK(ns, cs, it, ph, sm, cnt), ph # "new",
         NEW c \in DOMAIN cs, cs[c].at = "searching",
         NEW obs \in ObsLengths,
         NEW seen, seen = Seen(ns[cs[c].tip], obs)
  PROVE  LET ms == [ns EXCEPT ![cs[c].tip] = seen]
             ds == [cs EXCEPT ![c] = Chain(cs[c].tip, Continue(seen))]
         IN  /\ TreeOK(ms, ds, it, ph, sm, cnt)
             /\ ms \in Seq(Node) /\ ds \in Seq(ChainType)
<1> DEFINE tip == cs[c].tip
           node == ns[tip]
           ms == [ns EXCEPT ![tip] = seen]
           ds == [cs EXCEPT ![c] = Chain(tip, Continue(seen))]
<1>1. /\ ns \in Seq(Node) /\ cs \in Seq(ChainType)
      /\ tip \in DOMAIN ns /\ tip \in LeavesOf(ns) /\ tip > 1
      /\ \A d \in DOMAIN cs : cs[d].tip \in DOMAIN ns /\ cs[d] \in ChainType
  BY DEF TreeOK, ChainOK
<1>2. /\ node \in Node /\ node.depth \in 0 .. MaxTurns /\ node.start \in Nat
      /\ node.len \in Nat /\ node.obs \in Nat /\ tip \in Nat
  BY <1>1, NodeTypes
<1>3. /\ seen \in Node /\ seen.parent = node.parent /\ seen.id = node.id
      /\ seen.start = node.start /\ seen.depth = node.depth
  <2>1. obs \in ObsLengths \cup {0} /\ (node.depth >= MaxTurns) \in BOOLEAN
    OBVIOUS
  <2>2. \/ seen = [node EXCEPT !.obs = obs, !.terminal = node.depth >= MaxTurns]
        \/ seen = [node EXCEPT !.terminal = TRUE]
    BY DEF Seen
  <2> HIDE DEF node
  <2>3. CASE seen = [node EXCEPT !.obs = obs, !.terminal = node.depth >= MaxTurns]
    BY <1>2, <2>1, <2>3 DEF Node
  <2>4. CASE seen = [node EXCEPT !.terminal = TRUE]
    BY <1>2, <2>4 DEF Node
  <2> QED
    BY <2>2, <2>3, <2>4
<1>4. seen.terminal \/ Open(seen)
  <2>1. CASE Fits(node, obs)
    <3>1. seen = [node EXCEPT !.obs = obs, !.terminal = node.depth >= MaxTurns]
      BY <2>1 DEF Seen
    <3>2. node.start + node.len + obs < ResponseLength
      BY <2>1 DEF Fits
    <3> HIDE DEF node
    <3>3. seen.obs = obs /\ seen.len = node.len /\ seen.terminal = (node.depth >= MaxTurns)
      BY <1>2, <3>1 DEF Node
    <3>4. ~(node.depth >= MaxTurns) => node.depth < MaxTurns
      BY <1>2, SearchAssumption
    <3> QED
      BY <1>3, <3>2, <3>3, <3>4 DEF Open, End
  <2>2. CASE ~Fits(node, obs)
    <3>1. seen = [node EXCEPT !.terminal = TRUE]
      BY <2>2 DEF Seen
    <3> HIDE DEF node
    <3> QED
      BY <1>2, <3>1 DEF Node
  <2> QED
    BY <2>1, <2>2
<1>5. /\ DOMAIN ms = DOMAIN ns /\ ms[tip] = seen
      /\ \A n \in DOMAIN ns : n # tip => ms[n] = ns[n]
  BY <1>1
<1>6. ms \in Seq(Node) /\ Len(ms) = Len(ns) /\ LeavesOf(ms) = LeavesOf(ns)
  <2>1. ms \in Seq(Node) /\ Len(ms) = Len(ns)
    BY <1>1, <1>3
  <2>2. LeavesOf([ns EXCEPT ![tip] = seen]) = LeavesOf(ns)
    BY <1>1, <1>3, LeavesExcept
  <2> QED
    BY <2>1, <2>2
<1>7. Continue(seen) \in {"generating", "done"}
      /\ (Continue(seen) = "generating" => Open(seen))
      /\ (Continue(seen) = "done" => seen.terminal)
  <2>1. ~seen.terminal => seen.depth < MaxTurns /\ ~(seen.depth >= MaxTurns)
    BY <1>2, <1>3, <1>4, SearchAssumption DEF Open
  <2> QED
    BY <1>4, <2>1 DEF Continue
<1>8. /\ DOMAIN ds = DOMAIN cs /\ ds[c].tip = tip /\ ds[c].at = Continue(seen)
      /\ \A d \in DOMAIN cs : d # c => ds[d] = cs[d]
      /\ \A d \in DOMAIN cs : ds[d].tip = cs[d].tip
  BY <1>1 DEF Chain
<1>9. ds \in Seq(ChainType)
  <2>1. Chain(tip, Continue(seen)) \in ChainType
    BY <1>2, <1>7 DEF Chain, ChainType
  <2> QED
    BY <1>1, <2>1
<1> HIDE DEF ms, ds
<1>10. NodesOK(ms)
  <2> SUFFICES ASSUME NEW n \in DOMAIN ns
               PROVE  /\ ms[n].parent < n
                      /\ ms[n].start < ResponseLength
                      /\ n \notin LeavesOf(ms) => Open(ms[n])
    BY <1>5 DEF NodesOK
  <2>1. /\ ns[n].parent < n /\ ns[n].start < ResponseLength
        /\ n \notin LeavesOf(ns) => Open(ns[n])
    BY DEF TreeOK, NodesOK
  <2> QED
    BY <1>1, <1>3, <1>5, <1>6, <2>1
<1>11. \A d \in DOMAIN ds : ChainOK(ms, ds[d], ph)
  <2> SUFFICES ASSUME NEW d \in DOMAIN cs PROVE ChainOK(ms, ds[d], ph)
    BY <1>8
  <2>1. CASE d = c
    BY <1>1, <1>5, <1>7, <1>8, <2>1 DEF ChainOK
  <2>2. CASE d # c
    <3>1. ds[d] = cs[d] /\ ChainOK(ns, cs[d], ph)
      BY <1>8, <2>2 DEF TreeOK
    <3>2. cs[d].tip # tip
      BY <1>1, <2>2 DEF TreeOK, Apart
    <3> QED
      BY <1>1, <1>5, <1>6, <3>1, <3>2 DEF ChainOK
  <2> QED
    BY <2>1, <2>2
<1>12. Apart(ms, ds)
  BY <1>6, <1>8 DEF TreeOK, Apart
<1>13. ASSUME ph = "growing" PROVE Attended(ms, ds)
  <2> SUFFICES ASSUME NEW n \in LeavesOf(ns)
               PROVE  ms[n].terminal \/ \E d \in DOMAIN ds : ds[d].at # "done" /\ ds[d].tip = n
    BY <1>6 DEF Attended
  <2>1. CASE n = tip
    <3>1. ms[n] = seen /\ c \in DOMAIN ds /\ ds[c].tip = n
      BY <1>5, <1>8, <2>1
    <3>2. ~seen.terminal => ds[c].at # "done"
      BY <1>7, <1>8
    <3> QED
      BY <3>1, <3>2, Zenon
  <2>2. CASE n # tip
    <3>1. n \in DOMAIN ns
      BY DEF LeavesOf
    <3>2. ns[n].terminal \/ \E d \in DOMAIN cs : cs[d].at # "done" /\ cs[d].tip = n
      BY <1>13 DEF TreeOK, Attended
    <3> QED
      BY <1>5, <1>8, <2>2, <3>1, <3>2
  <2> QED
    BY <2>1, <2>2
<1>14. Counted(ms, ds, it)
  <2>1. Unmoved(ms, ds) = Unmoved(ns, cs)
    BY <1>6, <1>8 DEF Unmoved
  <2>2. Len(ns) > 0 /\ ~ns[1].terminal
    BY DEF TreeOK, Counted
  <2>3. Len(ms) > 0 /\ ~ms[1].terminal
    <3>1. 1 \in DOMAIN ns /\ 1 # tip
      BY <1>1, <2>2
    <3> QED
      BY <1>5, <1>6, <2>2, <3>1
  <2>4. Cardinality(LeavesOf(ns)) + Cardinality(Unmoved(ns, cs)) = 1 + TsN * it
    BY DEF TreeOK, Counted
  <2>5. Cardinality(LeavesOf(ms)) + Cardinality(Unmoved(ms, ds)) = 1 + TsN * it
    BY <1>6, <2>1, <2>4, Zenon
  <2> QED
    BY <2>3, <2>5 DEF Counted
<1>15. SampleOK(ms, ds, ph, sm)
  BY DEF TreeOK, SampleOK
<1>16. IdsOK(ms, cnt)
  <2>1. \A n \in DOMAIN ns : ms[n].id = ns[n].id
    BY <1>1, <1>3, <1>5
  <2> QED
    BY <1>5, <2>1 DEF TreeOK, IdsOK
<1>17. TreeOK(ms, ds, it, ph, sm, cnt)
  BY <1>6, <1>9, <1>10, <1>11, <1>12, <1>13, <1>14, <1>15, <1>16 DEF TreeOK
<1> QED
  BY <1>6, <1>9, <1>17 DEF ms, ds

\* An exception: the chain ends where it is, and with it the task of the tree.
LEMMA ExceptionOK ==
  ASSUME NEW ns, NEW cs, NEW it, NEW sm, NEW cnt \in Nat,
         TreeOK(ns, cs, it, "growing", sm, cnt),
         NEW c \in DOMAIN cs,
         NEW ds, ds = [cs EXCEPT ![c].at = "done"]
  PROVE  TreeOK(ns, ds, it, "raised", sm, cnt) /\ ds \in Seq(ChainType)
<1>1. ns \in Seq(Node) /\ cs \in Seq(ChainType) /\ cs[c] \in ChainType
  BY DEF TreeOK
<1>2. /\ DOMAIN ds = DOMAIN cs /\ ds[c] = [cs[c] EXCEPT !.at = "done"]
      /\ ds[c].tip = cs[c].tip /\ ds[c].at = "done" /\ ds[c] \in ChainType
      /\ \A d \in DOMAIN cs : d # c => ds[d] = cs[d]
  BY <1>1 DEF ChainType
<1>3. ds \in Seq(ChainType) /\ \A d \in DOMAIN cs : ds[d].tip = cs[d].tip
  BY <1>1, <1>2
<1>4. \A d \in DOMAIN ds : ChainOK(ns, ds[d], "raised")
  BY <1>2, <1>3 DEF TreeOK, ChainOK
<1>5. Apart(ns, ds)
  BY <1>2, <1>3 DEF TreeOK, Apart
<1>6. Unmoved(ns, ds) = Unmoved(ns, cs)
  BY <1>2, <1>3 DEF Unmoved
<1>7. Counted(ns, ds, it)
  BY <1>6, Zenon DEF TreeOK, Counted
<1>8. SampleOK(ns, ds, "raised", sm)
  BY DEF TreeOK, SampleOK
<1> QED
  BY <1>3, <1>4, <1>5, <1>7, <1>8 DEF TreeOK, PhaseType

-----------------------------------------------------------------------------
(* The steps of a tree whose chains are all done. *)

\* Such a tree has but finished leaves, one for each chain so far and one more.
LEMMA BarrierOK ==
  ASSUME NEW ns, NEW cs, NEW it, NEW sm, NEW cnt \in Nat,
         TreeOK(ns, cs, it, "growing", sm, cnt),
         \A c \in DOMAIN cs : cs[c].at = "done"
  PROVE  /\ \A n \in LeavesOf(ns) : ns[n].terminal
         /\ IsFiniteSet(LeavesOf(ns)) /\ Cardinality(LeavesOf(ns)) = 1 + TsN * it
         /\ LeavesOf(ns) \subseteq Nat
         /\ 1 \in DOMAIN ns \ LeavesOf(ns)
<1>1. ns \in Seq(Node) /\ cs \in Seq(ChainType)
  BY DEF TreeOK
<1>2. \A n \in LeavesOf(ns) : ns[n].terminal
  BY DEF TreeOK, Attended
<1>3. \A c \in DOMAIN cs : cs[c].tip \in LeavesOf(ns)
  BY DEF TreeOK, ChainOK, NodesOK, Open
<1>4. Unmoved(ns, cs) = {}
  BY <1>3 DEF Unmoved
<1>5. Cardinality(LeavesOf(ns)) + Cardinality(Unmoved(ns, cs)) = 1 + TsN * it
      /\ Len(ns) > 0 /\ ~ns[1].terminal
  BY DEF TreeOK, Counted
<1>6. Cardinality(LeavesOf(ns)) \in Nat /\ IsFiniteSet(LeavesOf(ns))
  BY <1>1, Finite
<1>7. Cardinality(LeavesOf(ns)) = 1 + TsN * it
  <2>1. Cardinality(Unmoved(ns, cs)) = 0
    BY <1>4, FS_EmptySet, Zenon
  <2> QED
    BY <1>5, <1>6, <2>1
<1>8. 1 \in DOMAIN ns \ LeavesOf(ns)
  BY <1>1, <1>2, <1>5
<1> QED
  BY <1>1, <1>2, <1>6, <1>7, <1>8, LeavesFinite

\* A new iteration: its chains start from nodes with children.
LEMMA IterationOK ==
  ASSUME NEW ns, NEW cs, NEW it, NEW sm, NEW cnt \in Nat,
         TreeOK(ns, cs, it, "growing", sm, cnt), it < TsL,
         \A c \in DOMAIN cs : cs[c].at = "done",
         NEW pick \in [1 .. TsN -> DOMAIN ns \ LeavesOf(ns)],
         NEW ds, ds = [i \in 1 .. TsN |-> Chain(pick[i], Continue(ns[pick[i]]))]
  PROVE  TreeOK(ns, ds, it + 1, "growing", sm, cnt) /\ ds \in Seq(ChainType)
<1>1. ns \in Seq(Node) /\ TsN \in Nat /\ it \in Nat /\ it + 1 \in 0 .. TsL
  BY SearchAssumption DEF TreeOK
<1>2. \A i \in 1 .. TsN : /\ pick[i] \in DOMAIN ns /\ pick[i] \notin LeavesOf(ns)
                          /\ Open(ns[pick[i]]) /\ pick[i] \in Nat
  BY <1>1 DEF TreeOK, NodesOK
<1>3. \A i \in 1 .. TsN : Continue(ns[pick[i]]) = "generating"
  <2> SUFFICES ASSUME NEW i \in 1 .. TsN PROVE Continue(ns[pick[i]]) = "generating"
    OBVIOUS
  <2>1. ns[pick[i]].depth \in 0 .. MaxTurns
    BY <1>1, <1>2, NodeTypes
  <2>2. ~(ns[pick[i]].depth >= MaxTurns) /\ ~ns[pick[i]].terminal
    BY <1>2, <2>1, SearchAssumption DEF Open
  <2> QED
    BY <2>2 DEF Continue
<1>4. DOMAIN ds = 1 .. TsN
      /\ \A i \in 1 .. TsN : ds[i].tip = pick[i] /\ ds[i].at = "generating" /\ ds[i] \in ChainType
  BY <1>2, <1>3 DEF Chain, ChainType
<1>5. ds \in Seq(ChainType)
  BY <1>1, <1>4
<1>6. \A c \in DOMAIN ds : ChainOK(ns, ds[c], "growing")
  BY <1>2, <1>4 DEF ChainOK
<1>7. Apart(ns, ds)
  BY <1>2, <1>4 DEF Apart
<1>8. Attended(ns, ds)
  BY BarrierOK DEF Attended
<1>9. Counted(ns, ds, it + 1)
  <2>1. Unmoved(ns, ds) = 1 .. TsN
    BY <1>2, <1>4 DEF Unmoved
  <2>2. Cardinality(1 .. TsN) = TsN
    BY SearchAssumption, FS_Interval
  <2>3. Cardinality(Unmoved(ns, ds)) = TsN
    BY <2>1, <2>2, Zenon
  <2>4. Cardinality(LeavesOf(ns)) = 1 + TsN * it
    BY BarrierOK
  <2>5. TsN * (it + 1) = TsN * it + TsN /\ TsN * it \in Nat
    BY <1>1
  <2>6. Cardinality(LeavesOf(ns)) + Cardinality(Unmoved(ns, ds)) = 1 + TsN * (it + 1)
    BY <1>1, <2>3, <2>4, <2>5
  <2>7. Len(ns) > 0 /\ ~ns[1].terminal
    BY DEF TreeOK, Counted
  <2> QED
    BY <2>6, <2>7 DEF Counted
<1>10. SampleOK(ns, ds, "growing", sm)
  BY DEF TreeOK, SampleOK
<1> QED
  BY <1>1, <1>5, <1>6, <1>7, <1>8, <1>9, <1>10 DEF TreeOK

\* The sample, taken when all iterations have been made: there are enough
\* leaves for K of them, and all are finished.
LEMMA SamplingOK ==
  ASSUME NEW ns, NEW cs, NEW it, NEW sm, NEW cnt \in Nat,
         TreeOK(ns, cs, it, "growing", sm, cnt),
         it = TsL \/ DOMAIN ns \ LeavesOf(ns) = {},
         \A c \in DOMAIN cs : cs[c].at = "done",
         NEW terminal, terminal = {n \in LeavesOf(ns) : ns[n].terminal},
         NEW S, S \subseteq LeavesOf(ns),
         IF Cardinality(terminal) >= K
           THEN S \subseteq terminal /\ Cardinality(S) = K
           ELSE /\ terminal \subseteq S
                /\ Cardinality(S) =
                     IF Cardinality(LeavesOf(ns)) < K THEN Cardinality(LeavesOf(ns)) ELSE K
  PROVE  TreeOK(ns, cs, it, "sampled", S, cnt) /\ S \subseteq Nat
<1>1. /\ \A n \in LeavesOf(ns) : ns[n].terminal
      /\ IsFiniteSet(LeavesOf(ns)) /\ Cardinality(LeavesOf(ns)) = 1 + TsN * it
      /\ LeavesOf(ns) \subseteq Nat
      /\ 1 \in DOMAIN ns \ LeavesOf(ns)
  BY BarrierOK
<1>2. it = TsL
  BY <1>1
<1>3. terminal = LeavesOf(ns)
  BY <1>1
<1>4. Cardinality(terminal) = 1 + TsN * TsL
  BY <1>1, <1>2, <1>3, Zenon
<1>5. EnoughExpansions => Cardinality(S) = K
  BY <1>4, Zenon DEF EnoughExpansions
<1>6. SampleOK(ns, cs, "sampled", S)
  BY <1>1, <1>5 DEF SampleOK
<1>7. \A c \in DOMAIN cs : ChainOK(ns, cs[c], "sampled")
  BY DEF TreeOK, ChainOK
<1> QED
  BY <1>1, <1>6, <1>7 DEF TreeOK, PhaseType

-----------------------------------------------------------------------------
(* The invariant. *)

LEMMA InitOK == Init => IInv
<1> SUFFICES ASSUME Init PROVE IInv
  OBVIOUS
<1>1. ASSUME NEW t \in Trees
      PROVE  TreeOK(nodes[t], chains[t], iteration[t], phase[t], sampled[t], counter)
  <2>1. /\ nodes[t] = <<>> /\ chains[t] = <<>> /\ iteration[t] = 0
        /\ phase[t] = "new" /\ sampled[t] = {}
    BY DEF Init
  <2>2. TreeOK(<<>>, <<>>, 0, "new", {}, counter)
    BY SearchAssumption
    DEF TreeOK, NodesOK, IdsOK, Apart, SampleOK, PhaseType
  <2> QED
    BY <2>1, <2>2
<1> QED
  BY <1>1, SearchAssumption DEF Init, IInv, PhaseType

\* Ids that are not above the counter stay so when it grows.
LEMMA IdsBelow ==
  ASSUME NEW ns, NEW cs, NEW it, NEW ph, NEW sm, NEW cnt \in Nat, NEW next \in Nat,
         TreeOK(ns, cs, it, ph, sm, cnt), cnt <= next
  PROVE  TreeOK(ns, cs, it, ph, sm, next)
<1>1. ns \in Seq(Node) /\ IdsOK(ns, cnt)
  BY DEF TreeOK
<1>2. \A n \in DOMAIN ns : ns[n].id \in Nat /\ ns[n].id <= next
  BY <1>1, NodeTypes DEF IdsOK
<1>3. IdsOK(ns, next)
  BY <1>1, <1>2 DEF IdsOK
<1> QED
  BY <1>3 DEF TreeOK

\* A step of one tree: the others are as before, but for the counter.
LEMMA OneTree ==
  ASSUME IInv, NEW t \in Trees,
         NEW ns \in Seq(Node), NEW cs \in Seq(ChainType), NEW it \in 0 .. TsL,
         NEW ph \in PhaseType, NEW sm \in SUBSET Nat, NEW cnt \in Nat,
         TreeOK(ns, cs, it, ph, sm, cnt), counter <= cnt,
         /\ nodes' = [nodes EXCEPT ![t] = ns]
         /\ chains' = [chains EXCEPT ![t] = cs]
         /\ iteration' = [iteration EXCEPT ![t] = it]
         /\ phase' = [phase EXCEPT ![t] = ph]
         /\ sampled' = [sampled EXCEPT ![t] = sm]
         /\ counter' = cnt,
         run' \in {"running", "failed", "done"}
  PROVE  IInv'
<1>1. /\ nodes' \in [Trees -> Seq(Node)]
      /\ chains' \in [Trees -> Seq(ChainType)]
      /\ iteration' \in [Trees -> 0 .. TsL]
      /\ phase' \in [Trees -> PhaseType]
      /\ sampled' \in [Trees -> SUBSET Nat]
  BY DEF IInv
<1>2. ASSUME NEW s \in Trees
      PROVE  TreeOK(nodes[s], chains[s], iteration[s], phase[s], sampled[s], counter)'
  <2>1. CASE s = t
    <3>1. /\ nodes'[s] = ns /\ chains'[s] = cs /\ iteration'[s] = it
          /\ phase'[s] = ph /\ sampled'[s] = sm
      BY <2>1 DEF IInv
    <3> QED
      BY <3>1
  <2>2. CASE s # t
    <3>1. /\ nodes'[s] = nodes[s] /\ chains'[s] = chains[s] /\ iteration'[s] = iteration[s]
          /\ phase'[s] = phase[s] /\ sampled'[s] = sampled[s]
      BY <2>2 DEF IInv
    <3>2. TreeOK(nodes[s], chains[s], iteration[s], phase[s], sampled[s], counter)
          /\ counter \in Nat
      BY DEF IInv
    <3>3. TreeOK(nodes[s], chains[s], iteration[s], phase[s], sampled[s], counter')
      BY <3>2, IdsBelow
    <3> QED
      BY <3>1, <3>3
  <2> QED
    BY <2>1, <2>2
<1>3. run' \in {"new", "running", "failed", "done"} /\ run' # "new"
  OBVIOUS
<1> QED
  BY <1>1, <1>2, <1>3 DEF IInv

\* The values of one tree, and those that a step leaves as they are.
LEMMA TreeValues ==
  ASSUME IInv, NEW t \in Trees
  PROVE  /\ TreeOK(nodes[t], chains[t], iteration[t], phase[t], sampled[t], counter)
         /\ nodes[t] \in Seq(Node) /\ chains[t] \in Seq(ChainType)
         /\ iteration[t] \in 0 .. TsL /\ phase[t] \in PhaseType /\ sampled[t] \in SUBSET Nat
         /\ nodes = [nodes EXCEPT ![t] = nodes[t]]
         /\ chains = [chains EXCEPT ![t] = chains[t]]
         /\ iteration = [iteration EXCEPT ![t] = iteration[t]]
         /\ phase = [phase EXCEPT ![t] = phase[t]]
         /\ sampled = [sampled EXCEPT ![t] = sampled[t]]
         /\ counter \in Nat
  BY DEF IInv

\* A tree with a chain has begun, and so has the run.
LEMMA Begun ==
  ASSUME IInv, NEW t \in Trees
  PROVE  /\ run = "new" => phase[t] = "new"
         /\ phase[t] = "new" => chains[t] = <<>>
  BY DEF IInv, TreeOK

LEMMA RootOK == TreeOK(<<Root(1)>>, <<Chain(1, "generating")>>, 0, "growing", {}, 1)
<1> DEFINE ns == <<Root(1)>>
           cs == <<Chain(1, "generating")>>
<1>1. /\ Root(1) \in Node /\ Root(1).parent = 0 /\ Root(1).start = 0 /\ Root(1).id = 1
      /\ ~Root(1).terminal /\ Root(1).depth = 0 /\ End(Root(1)) = 0
  BY SearchAssumption DEF Root, Node, End
<1>2. /\ ns \in Seq(Node) /\ DOMAIN ns = {1} /\ ns[1] = Root(1) /\ Len(ns) = 1
      /\ cs \in Seq(ChainType) /\ DOMAIN cs = {1}
      /\ cs[1].tip = 1 /\ cs[1].at = "generating"
  BY <1>1 DEF Chain, ChainType
<1> HIDE DEF ns, cs
<1>3. LeavesOf(ns) = {1}
  BY <1>1, <1>2 DEF LeavesOf
<1>4. Open(ns[1])
  BY <1>1, <1>2, SearchAssumption, LengthAssumption DEF Open
<1>5. NodesOK(ns)
  BY <1>1, <1>2, <1>4, LengthAssumption DEF NodesOK
<1>6. IdsOK(ns, 1)
  BY <1>1, <1>2 DEF IdsOK
<1>7. \A c \in DOMAIN cs : ChainOK(ns, cs[c], "growing")
  BY <1>2, <1>4 DEF ChainOK
<1>8. Apart(ns, cs) /\ Attended(ns, cs)
  BY <1>2, <1>3 DEF Apart, Attended
<1>9. Counted(ns, cs, 0)
  <2>1. Unmoved(ns, cs) = {}
    BY <1>2, <1>3 DEF Unmoved
  <2>2. Cardinality(LeavesOf(ns)) = 1 /\ Cardinality(Unmoved(ns, cs)) = 0
    BY <1>3, <2>1, FS_Singleton, FS_EmptySet, Zenon
  <2>3. 1 + 0 = 1 + TsN * 0
    BY SearchAssumption
  <2>4. Len(ns) > 0 /\ ~ns[1].terminal
    BY <1>1, <1>2
  <2> QED
    BY <2>2, <2>3, <2>4 DEF Counted
<1>10. SampleOK(ns, cs, "growing", {})
  BY DEF SampleOK
<1>11. 0 \in 0 .. TsL /\ "growing" \in PhaseType
  BY SearchAssumption DEF PhaseType
<1>12. TreeOK(ns, cs, 0, "growing", {}, 1)
  BY <1>2, <1>5, <1>6, <1>7, <1>8, <1>9, <1>10, <1>11 DEF TreeOK
<1> QED
  BY <1>12 DEF ns, cs

LEMMA StartOK ==
  ASSUME IInv, Start
  PROVE  IInv'
<1>1. /\ nodes' = [t \in Trees |-> <<Root(1)>>]
      /\ chains' = [t \in Trees |-> <<Chain(1, "generating")>>]
      /\ phase' = [t \in Trees |-> "growing"]
      /\ counter' = 1 /\ run' = "running"
      /\ iteration' = iteration /\ sampled' = sampled
  BY DEF Start, StartTrees
<1>2. /\ <<Root(1)>> \in Seq(Node) /\ <<Chain(1, "generating")>> \in Seq(ChainType)
  BY RootOK DEF TreeOK
<1>3. ASSUME NEW t \in Trees PROVE iteration[t] = 0 /\ sampled[t] = {}
  <2>1. phase[t] = "new"
    BY DEF IInv, Start
  <2>2. TreeOK(nodes[t], chains[t], iteration[t], phase[t], sampled[t], counter)
    BY TreeValues
  <2> QED
    BY <2>1, <2>2 DEF TreeOK, SampleOK
<1>4. ASSUME NEW t \in Trees
      PROVE  TreeOK(nodes[t], chains[t], iteration[t], phase[t], sampled[t], counter)'
  <2>1. /\ nodes'[t] = <<Root(1)>> /\ chains'[t] = <<Chain(1, "generating")>>
        /\ phase'[t] = "growing" /\ iteration'[t] = 0 /\ sampled'[t] = {} /\ counter' = 1
    BY <1>1, <1>3, Zenon
  <2> QED
    BY <2>1, RootOK, Zenon
<1> QED
  BY <1>1, <1>2, <1>4 DEF IInv, PhaseType

LEMMA GenerateOK ==
  ASSUME IInv, NEW t \in Trees, NEW c \in DOMAIN chains[t],
         NEW len \in Lengths, NEW searches \in BOOLEAN, Generate(t, c, len, searches)
  PROVE  IInv'
<1> DEFINE ns == nodes[t]
           cs == chains[t]
           child == Child(t, cs[c].tip, len, searches)
           ds == [cs EXCEPT ![c] = Chain(Len(ns) + 1, IF searches THEN "searching" ELSE "done")]
<1>1. /\ TreeOK(ns, cs, iteration[t], phase[t], sampled[t], counter) /\ counter \in Nat
      /\ nodes \in [Trees -> Seq(Node)] /\ chains \in [Trees -> Seq(ChainType)]
  BY TreeValues DEF IInv
<1>2. cs[c].at = "generating" /\ phase[t] # "new" /\ run # "new"
  BY Begun DEF Generate
<1>3. /\ child = NewNode(counter, ns, cs[c].tip, len, searches)
      /\ ds = Moved(cs, c, Len(ns), searches)
  BY DEF Child, NewNode, Moved
<1>4. /\ nodes' = [nodes EXCEPT ![t] = Append(ns, child)]
      /\ chains' = [chains EXCEPT ![t] = ds]
      /\ counter' = counter + 1
      /\ UNCHANGED <<iteration, phase, sampled, run>>
  BY <1>1 DEF Generate
<1> HIDE DEF child, ds
<1>5. /\ TreeOK(Append(ns, child), ds, iteration[t], phase[t], sampled[t], counter + 1)
      /\ Append(ns, child) \in Seq(Node) /\ ds \in Seq(ChainType)
  <2> HIDE DEF cs, ns
  <2>1. c \in DOMAIN cs
    BY DEF cs
  <2>2. TreeOK(ns, cs, iteration[t], phase[t], sampled[t], counter)
    BY <1>1
  <2>3. phase[t] # "new" /\ cs[c].at = "generating" /\ counter \in Nat
    BY <1>1, <1>2
  <2>4. len \in Lengths /\ searches \in BOOLEAN
    OBVIOUS
  <2> QED
    BY <1>3, <2>1, <2>2, <2>3, <2>4, TurnOK, Zenon
<1>6. counter' \in Nat /\ counter <= counter'
  BY <1>1, <1>4
<1>7. /\ nodes' = [nodes EXCEPT ![t] = Append(ns, child)]
      /\ chains' = [chains EXCEPT ![t] = ds]
      /\ iteration' = [iteration EXCEPT ![t] = iteration[t]]
      /\ phase' = [phase EXCEPT ![t] = phase[t]]
      /\ sampled' = [sampled EXCEPT ![t] = sampled[t]]
      /\ counter' = counter + 1
  BY <1>4, TreeValues
<1>8. /\ Append(ns, child) \in Seq(Node) /\ ds \in Seq(ChainType) /\ iteration[t] \in 0 .. TsL
      /\ phase[t] \in PhaseType /\ sampled[t] \in SUBSET Nat
  BY <1>5, TreeValues
<1>9. counter \in Nat /\ counter + 1 \in Nat /\ counter <= counter + 1
  BY TreeValues
<1>10. run' \in {"running", "failed", "done"}
  BY <1>2, <1>4 DEF IInv
<1> QED
  BY <1>5, <1>7, <1>8, <1>9, <1>10, OneTree, Zenon

LEMMA ObserveOK ==
  ASSUME IInv, NEW t \in Trees, NEW c \in DOMAIN chains[t],
         NEW obs \in ObsLengths, Observe(t, c, obs)
  PROVE  IInv'
<1> DEFINE ns == nodes[t]
           cs == chains[t]
           n == cs[c].tip
           seen == Seen(ns[n], obs)
           ms == [ns EXCEPT ![n] = seen]
           ds == [cs EXCEPT ![c] = Chain(n, Continue(seen))]
<1>1. /\ TreeOK(ns, cs, iteration[t], phase[t], sampled[t], counter) /\ counter \in Nat
      /\ nodes \in [Trees -> Seq(Node)] /\ chains \in [Trees -> Seq(ChainType)]
  BY TreeValues DEF IInv
<1>2. cs[c].at = "searching" /\ phase[t] # "new" /\ run # "new"
  BY Begun DEF Observe
<1>3. /\ nodes' = [nodes EXCEPT ![t] = ms]
      /\ chains' = [chains EXCEPT ![t] = ds]
      /\ counter' = counter
      /\ UNCHANGED <<iteration, phase, sampled, run>>
  BY <1>1 DEF Observe
<1> HIDE DEF seen, ms, ds
<1>4. /\ TreeOK(ms, ds, iteration[t], phase[t], sampled[t], counter)
      /\ ms \in Seq(Node) /\ ds \in Seq(ChainType)
  <2> HIDE DEF cs, ns
  <2>1. c \in DOMAIN cs
    BY DEF cs
  <2>2. TreeOK(ns, cs, iteration[t], phase[t], sampled[t], counter)
    BY <1>1
  <2>3. phase[t] # "new" /\ cs[c].at = "searching" /\ counter \in Nat
    BY <1>1, <1>2
  <2>4. seen = Seen(ns[cs[c].tip], obs)
    BY DEF seen
  <2>5. obs \in ObsLengths
    OBVIOUS
  <2> QED
    BY <2>1, <2>2, <2>3, <2>4, <2>5, ResultOK, Zenon DEF ms, ds
<1>5. /\ nodes' = [nodes EXCEPT ![t] = ms]
      /\ chains' = [chains EXCEPT ![t] = ds]
      /\ iteration' = [iteration EXCEPT ![t] = iteration[t]]
      /\ phase' = [phase EXCEPT ![t] = phase[t]]
      /\ sampled' = [sampled EXCEPT ![t] = sampled[t]]
      /\ counter' = counter
  BY <1>3, TreeValues
<1>6. /\ ms \in Seq(Node) /\ ds \in Seq(ChainType) /\ iteration[t] \in 0 .. TsL
      /\ phase[t] \in PhaseType /\ sampled[t] \in SUBSET Nat
  BY <1>4, TreeValues
<1>7. counter \in Nat /\ counter <= counter
  BY TreeValues
<1>8. run' \in {"running", "failed", "done"}
  BY <1>2, <1>3 DEF IInv
<1> QED
  BY <1>4, <1>5, <1>6, <1>7, <1>8, OneTree, Zenon

LEMMA RaiseOK ==
  ASSUME IInv, NEW t \in Trees, NEW c \in DOMAIN chains[t], Raise(t, c)
  PROVE  IInv'
<1> DEFINE cs == chains[t]
           ds == [cs EXCEPT ![c].at = "done"]
<1>1. /\ TreeOK(nodes[t], cs, iteration[t], "growing", sampled[t], counter)
      /\ counter \in Nat /\ chains \in [Trees -> Seq(ChainType)]
  BY TreeValues DEF IInv, Raise
<1>2. /\ phase' = [phase EXCEPT ![t] = "raised"]
      /\ chains' = [chains EXCEPT ![t] = ds]
      /\ run' = "failed" /\ counter' = counter
      /\ UNCHANGED <<nodes, iteration, sampled>>
  BY <1>1 DEF Raise
<1>3. TreeOK(nodes[t], ds, iteration[t], "raised", sampled[t], counter)
      /\ ds \in Seq(ChainType)
  BY <1>1, ExceptionOK
<1> HIDE DEF ds
<1>4. "raised" \in PhaseType
  BY DEF PhaseType
<1>5. /\ nodes' = [nodes EXCEPT ![t] = nodes[t]]
      /\ chains' = [chains EXCEPT ![t] = ds]
      /\ iteration' = [iteration EXCEPT ![t] = iteration[t]]
      /\ phase' = [phase EXCEPT ![t] = "raised"]
      /\ sampled' = [sampled EXCEPT ![t] = sampled[t]]
      /\ counter' = counter
  BY <1>2, TreeValues
<1>6. /\ nodes[t] \in Seq(Node) /\ ds \in Seq(ChainType) /\ iteration[t] \in 0 .. TsL
      /\ "raised" \in PhaseType /\ sampled[t] \in SUBSET Nat
  BY <1>3, <1>4, TreeValues
<1>7. counter \in Nat /\ counter <= counter
  BY TreeValues
<1>8. run' \in {"running", "failed", "done"}
  BY <1>2 DEF IInv
<1> QED
  BY <1>3, <1>5, <1>6, <1>7, <1>8, OneTree, Zenon

LEMMA ExpandOK ==
  ASSUME IInv, NEW t \in Trees, Expand(t)
  PROVE  IInv'
<1>1. /\ phase[t] = "growing" /\ iteration[t] < TsL
      /\ \A c \in DOMAIN chains[t] : chains[t][c].at = "done"
  BY DEF Expand, ChainsDone, Active
<1>2. /\ TreeOK(nodes[t], chains[t], iteration[t], "growing", sampled[t], counter)
      /\ counter \in Nat /\ iteration \in [Trees -> 0 .. TsL] /\ iteration[t] \in Nat
  BY <1>1, TreeValues DEF IInv
<1>3. PICK pick \in [1 .. TsN -> NonLeaves(t)] :
        chains' = [chains EXCEPT ![t] = NewChains(t, pick)]
  BY DEF Expand
<1>4. pick \in [1 .. TsN -> DOMAIN nodes[t] \ LeavesOf(nodes[t])]
  BY DEF NonLeaves, Leaves
<1> DEFINE ds == NewChains(t, pick)
<1>5. ds = [i \in 1 .. TsN |-> Chain(pick[i], Continue(nodes[t][pick[i]]))]
  BY DEF NewChains
<1> HIDE DEF ds
<1>6. /\ TreeOK(nodes[t], ds, iteration[t] + 1, "growing", sampled[t], counter)
      /\ ds \in Seq(ChainType)
  BY <1>1, <1>2, <1>4, <1>5, IterationOK, ZenonT(60)
<1>7. /\ chains' = [chains EXCEPT ![t] = ds]
      /\ iteration' = [iteration EXCEPT ![t] = iteration[t] + 1]
      /\ counter' = counter /\ UNCHANGED <<nodes, phase, sampled, run>>
  BY <1>3 DEF Expand, ds
<1>8. iteration[t] + 1 \in 0 .. TsL /\ run # "new" /\ "growing" \in PhaseType
  BY <1>1, <1>2, Begun, SearchAssumption DEF PhaseType
<1>9. /\ nodes' = [nodes EXCEPT ![t] = nodes[t]]
      /\ chains' = [chains EXCEPT ![t] = ds]
      /\ iteration' = [iteration EXCEPT ![t] = iteration[t] + 1]
      /\ phase' = [phase EXCEPT ![t] = "growing"]
      /\ sampled' = [sampled EXCEPT ![t] = sampled[t]]
      /\ counter' = counter
  BY <1>1, <1>7, TreeValues
<1>10. /\ nodes[t] \in Seq(Node) /\ ds \in Seq(ChainType) /\ iteration[t] + 1 \in 0 .. TsL
      /\ "growing" \in PhaseType /\ sampled[t] \in SUBSET Nat
  BY <1>6, <1>8, TreeValues
<1>11. counter \in Nat /\ counter <= counter
  BY TreeValues
<1>12. run' \in {"running", "failed", "done"}
  BY <1>7, <1>8 DEF IInv
<1> QED
  BY <1>6, <1>9, <1>10, <1>11, <1>12, OneTree, Zenon

LEMMA SampleStepOK ==
  ASSUME IInv, NEW t \in Trees, Sample(t)
  PROVE  IInv'
<1>1. /\ phase[t] = "growing" /\ (iteration[t] = TsL \/ NonLeaves(t) = {})
      /\ \A c \in DOMAIN chains[t] : chains[t][c].at = "done"
  BY DEF Sample, ChainsDone, Active
<1>2. /\ TreeOK(nodes[t], chains[t], iteration[t], "growing", sampled[t], counter)
      /\ counter \in Nat
  BY <1>1, TreeValues
<1>3. PICK S \in SUBSET Leaves(t) :
        IsSample(t, S, K) /\ sampled' = [sampled EXCEPT ![t] = S]
  BY DEF Sample
<1>4. TreeOK(nodes[t], chains[t], iteration[t], "sampled", S, counter) /\ S \subseteq Nat
  BY <1>1, <1>2, <1>3, SamplingOK DEF Sample, IsSample, TerminalLeaves, NonLeaves, Leaves
<1>5. /\ phase' = [phase EXCEPT ![t] = "sampled"] /\ counter' = counter
      /\ UNCHANGED <<nodes, chains, iteration, run>>
  BY DEF Sample
<1>6. run # "new" /\ "sampled" \in PhaseType
  BY <1>1, Begun DEF PhaseType
<1>7. /\ nodes' = [nodes EXCEPT ![t] = nodes[t]]
      /\ chains' = [chains EXCEPT ![t] = chains[t]]
      /\ iteration' = [iteration EXCEPT ![t] = iteration[t]]
      /\ phase' = [phase EXCEPT ![t] = "sampled"]
      /\ sampled' = [sampled EXCEPT ![t] = S]
      /\ counter' = counter
  BY <1>3, <1>5, TreeValues
<1>8. /\ nodes[t] \in Seq(Node) /\ chains[t] \in Seq(ChainType) /\ iteration[t] \in 0 .. TsL
      /\ "sampled" \in PhaseType /\ S \in SUBSET Nat
  BY <1>4, <1>6, TreeValues
<1>9. counter \in Nat /\ counter <= counter
  BY TreeValues
<1>10. run' \in {"running", "failed", "done"}
  BY <1>5, <1>6 DEF IInv
<1> QED
  BY <1>4, <1>7, <1>8, <1>9, <1>10, OneTree, Zenon

LEMMA StepOK == IInv /\ [Next]_vars => IInv'
<1> SUFFICES ASSUME IInv, [Next]_vars PROVE IInv'
  OBVIOUS
<1>1. CASE Start
  BY <1>1, StartOK
<1>2. ASSUME NEW t \in Trees, Grow(t) PROVE IInv'
  <2>1. ASSUME NEW c \in DOMAIN chains[t], NEW len \in Lengths, NEW searches \in BOOLEAN,
               Generate(t, c, len, searches)
        PROVE  IInv'
    BY <2>1, GenerateOK
  <2>2. ASSUME NEW c \in DOMAIN chains[t], NEW obs \in ObsLengths, Observe(t, c, obs)
        PROVE  IInv'
    BY <2>2, ObserveOK
  <2>3. ASSUME NEW c \in DOMAIN chains[t], Raise(t, c) PROVE IInv'
    BY <2>3, RaiseOK
  <2>4. CASE Expand(t)
    BY <2>4, ExpandOK
  <2>5. CASE Sample(t)
    BY <2>5, SampleStepOK
  <2> QED
    BY <1>2, <2>1, <2>2, <2>3, <2>4, <2>5 DEF Grow
<1>3. CASE Collect
  BY <1>3 DEF IInv, Collect, trees
<1>4. CASE UNCHANGED vars
  BY <1>4 DEF IInv, vars, trees
<1> QED
  BY <1>1, <1>2, <1>3, <1>4 DEF Next

\* The invariant holds at all times.
THEOREM TreeInvariant == Spec => []IInv
  BY InitOK, StepOK, PTL DEF Spec

-----------------------------------------------------------------------------
(* The properties. *)

\* Every variable holds a value of its kind: chains grow from nodes that exist,
\* parents are older than their children, samples are leaves.
THEOREM TreeTypeCorrect == Spec => []TypeOK
<1> SUFFICES IInv => TypeOK
  BY TreeInvariant, PTL
<1> SUFFICES ASSUME IInv PROVE TypeOK
  OBVIOUS
<1>1. ASSUME NEW t \in Trees, NEW n \in DOMAIN nodes[t]
      PROVE  /\ nodes[t][n] \in [id : Nat \ {0}, parent : 0 .. n - 1, depth : 0 .. MaxTurns,
                                 start : Nat, len : Lengths \cup {0},
                                 obs : ObsLengths \cup {0}, terminal : BOOLEAN]
             /\ nodes[t][n].id <= counter
  <2>1. nodes[t] \in Seq(Node) /\ nodes[t][n].parent < n /\ nodes[t][n].id <= counter
    BY TreeValues DEF TreeOK, NodesOK, IdsOK
  <2>2. nodes[t][n] \in Node /\ nodes[t][n].parent \in 0 .. n - 1
    BY <2>1, NodeTypes
  <2> QED
    BY <2>1, <2>2 DEF Node
<1>2. ASSUME NEW t \in Trees
      PROVE  /\ \A c \in DOMAIN chains[t] :
                  /\ chains[t][c].tip \in DOMAIN nodes[t]
                  /\ chains[t][c].at \in {"generating", "searching", "done"}
             /\ iteration[t] \in 0 .. TsL
             /\ phase[t] \in {"new", "growing", "raised", "sampled"}
             /\ sampled[t] \subseteq Leaves(t)
  <2>1. TreeOK(nodes[t], chains[t], iteration[t], phase[t], sampled[t], counter)
    BY TreeValues
  <2>2. ASSUME NEW c \in DOMAIN chains[t]
        PROVE  chains[t][c].tip \in DOMAIN nodes[t] /\ chains[t][c] \in ChainType
    <3>1. chains[t] \in Seq(ChainType) /\ ChainOK(nodes[t], chains[t][c], phase[t])
      BY <2>1 DEF TreeOK
    <3>2. chains[t][c] \in ChainType
      BY <3>1
    <3> QED
      BY <3>1, <3>2 DEF ChainOK
  <2>3. sampled[t] \subseteq Leaves(t)
    BY <2>1 DEF TreeOK, SampleOK, Leaves
  <2> QED
    BY <2>1, <2>2, <2>3 DEF TreeOK, ChainType, PhaseType
<1> QED
  BY <1>1, <1>2 DEF IInv, TypeOK

\* Of a tree that is done, K finished trajectories are returned, if ts_n and ts_l
\* allow for K: no chain adds less than one leaf, and no leaf is left unfinished.
THEOREM SampledLeaves == Spec => []KFinishedLeaves
<1> SUFFICES IInv => KFinishedLeaves
  BY TreeInvariant, PTL
<1> QED
  BY TreeValues DEF KFinishedLeaves, TreeOK, SampleOK, TerminalLeaves, Leaves

\* The reward of a leaf always has a token to stand on, although responses are
\* cut at response_length.
THEOREM RewardHasToken == Spec => []RewardOnOwnTurn
<1> SUFFICES IInv => RewardOnOwnTurn
  BY TreeInvariant, PTL
<1> QED
  BY TreeValues DEF RewardOnOwnTurn, TreeOK, NodesOK

\* Ids are unique in each tree, though all trees share and reset one counter.
THEOREM UniqueIds == Spec => []NodeIdsUnique
<1> SUFFICES IInv => NodeIdsUnique
  BY TreeInvariant, PTL
<1> QED
  BY TreeValues DEF NodeIdsUnique, TreeOK, IdsOK

-----------------------------------------------------------------------------
(* The order of the outputs. *)

\* Prompts occur in the order of their numbers, and so do their first rows.
LEMMA FirstRows ==
  ASSUME NEW t \in Trees
  PROVE  /\ FirstRow(RowUid[t]) \in Trees
         /\ RowUid[FirstRow(RowUid[t])] = RowUid[t]
         /\ \A s \in Trees : RowUid[s] = RowUid[t] => FirstRow(RowUid[t]) <= s
<1> DEFINE S == {s \in Trees : RowUid[s] = RowUid[t]}
<1>1. S \in SUBSET Nat /\ S # {}
  BY LenProperties, RowsAssumption DEF Trees
<1>2. \E n \in S : \A s \in S : n <= s
  <2> HIDE DEF S
  <2> QED
    BY <1>1, LeastNat
<1>3. \E r \in Trees :
         RowUid[r] = RowUid[t] /\ \A s \in Trees : RowUid[s] = RowUid[t] => r <= s
  BY <1>2
<1> QED
  BY <1>3 DEF FirstRow

LEMMA BeforeIsLess ==
  ASSUME NEW s \in Trees, NEW t \in Trees
  PROVE  LaunchedBefore(s, t) <=> s < t
<1> DEFINE a == FirstRow(RowUid[s])
           b == FirstRow(RowUid[t])
<1>1. /\ a \in Trees /\ RowUid[a] = RowUid[s] /\ a <= s
      /\ b \in Trees /\ RowUid[b] = RowUid[t] /\ b <= t
  BY FirstRows, LenProperties, RowsAssumption DEF Trees
<1>2. /\ Trees \subseteq Nat
      /\ \A i \in Trees : RowUid[i] \in Nat
      /\ \A i, j \in Trees : i <= j => RowUid[i] <= RowUid[j]
  BY LenProperties, ElementOfSeq, RowsAssumption DEF Trees
<1>3. RowUid[s] = RowUid[t] => a = b
  OBVIOUS
<1> HIDE DEF a, b
<1>4. a < b => RowUid[s] <= RowUid[t]
  BY <1>1, <1>2
<1>5. RowUid[s] < RowUid[t] => a < b /\ s < t
  BY <1>1, <1>2
<1>6. LaunchedBefore(s, t) <=> (a < b \/ (RowUid[s] = RowUid[t] /\ s < t))
  BY DEF LaunchedBefore, a, b
<1>7. s < t => RowUid[s] <= RowUid[t]
  BY <1>2
<1>8. RowUid[t] < RowUid[s] => t < s /\ b < a
  BY <1>1, <1>2
<1> QED
  BY <1>1, <1>2, <1>3, <1>4, <1>5, <1>6, <1>7, <1>8

\* The trees are launched in the order of the rows.
LEMMA LaunchIsRowOrder == LaunchOrder = [t \in Trees |-> t]
<1>1. Trees = 1 .. Len(RowUid) /\ Len(RowUid) \in Nat
  BY LenProperties, RowsAssumption DEF Trees
<1>2. ASSUME NEW t \in Trees
      PROVE  Cardinality({s \in Trees : LaunchedBefore(s, t)}) = t - 1
  <2>1. {s \in Trees : LaunchedBefore(s, t)} = 1 .. (t - 1)
    BY <1>1, BeforeIsLess
  <2>2. t - 1 \in Nat
    BY <1>1
  <2> QED
    BY <2>1, <2>2, CountTo
<1>3. ASSUME NEW i \in Trees
      PROVE  (CHOOSE t \in Trees :
                Cardinality({s \in Trees : LaunchedBefore(s, t)}) = i - 1) = i
  BY <1>1, <1>2
<1> QED
  BY <1>3 DEF LaunchOrder

\* Every row has its K leaves, and they come in the order of the rows.
RowsTimesK ==
  [j \in 1 .. (Len(RowUid) * K) |-> RowUid[((j - 1) \div K) + 1]]

RowsInv == EnoughExpansions /\ run = "done" => outputs = RowsTimesK

LEMMA CollectRows ==
  ASSUME IInv, EnoughExpansions, Collect
  PROVE  outputs' = RowsTimesK
<1> DEFINE m == Len(RowUid)
           seqs == [i \in 1 .. Len(LaunchOrder) |->
             [j \in 1 .. Cardinality(sampled[LaunchOrder[i]]) |-> RowUid[LaunchOrder[i]]]]
<1>1. Trees = 1 .. m /\ m \in Nat /\ RowUid \in [1 .. m -> Nat]
  BY LenProperties, RowsAssumption DEF Trees
<1>2. Len(LaunchOrder) = m /\ \A i \in 1 .. m : LaunchOrder[i] = i
  BY <1>1, LaunchIsRowOrder
<1>3. \A t \in Trees : Cardinality(sampled[t]) = K
  BY TreeValues DEF Collect, TreeOK, SampleOK
<1>4. K \in Nat \ {0}
  BY SearchAssumption DEF K
<1>5. seqs = Copies(RowUid, m, K)
  BY <1>1, <1>2, <1>3 DEF Copies
<1>6. outputs' = FlattenSeq(seqs)
  BY DEF Collect
<1> HIDE DEF seqs, m
<1>7. FlattenSeq(seqs) = CopiesJoined(RowUid, m, K)
  <2>1. PICK n \in Nat \ {0} : n = K
    BY <1>4
  <2>2. FlattenSeq(Copies(RowUid, m, n)) = CopiesJoined(RowUid, m, n)
    <3>1. m \in Nat /\ RowUid \in [1 .. m -> Nat] /\ n \in Nat \ {0}
      BY <1>1
    <3> QED
      BY <3>1, FlattenCopies, Zenon
  <2> QED
    BY <1>5, <2>1, <2>2, Zenon
<1> QED
  BY <1>6, <1>7 DEF RowsTimesK, CopiesJoined, m

\* Only gather() makes the outputs.
LEMMA OthersKeepOutputs ==
  ASSUME [Next]_vars, ~Collect
  PROVE  /\ outputs' = outputs
         /\ run' = "done" => run = "done"
<1>1. CASE Start
  BY <1>1 DEF Start, StartTrees
<1>2. ASSUME NEW t \in Trees, Grow(t)
      PROVE  outputs' = outputs /\ (run' = "done" => run = "done")
  BY <1>2 DEF Grow, Generate, Observe, Raise, Expand, Sample
<1>3. CASE UNCHANGED vars
  BY <1>3 DEF vars
<1> QED
  BY <1>1, <1>2, <1>3 DEF Next

LEMMA RowsStep == IInv /\ RowsInv /\ [Next]_vars => RowsInv'
<1> SUFFICES ASSUME IInv, RowsInv, [Next]_vars PROVE RowsInv'
  OBVIOUS
<1>1. CASE Collect
  BY <1>1, CollectRows DEF RowsInv, RowsTimesK, K, EnoughExpansions
<1>2. CASE ~Collect
  BY <1>2, OthersKeepOutputs DEF RowsInv, RowsTimesK, K, EnoughExpansions
<1> QED
  BY <1>1, <1>2

\* The worker returns K outputs for each row, in the order of the rows.
THEOREM OutputsPerRow == Spec => []RowsInv
<1>1. Init => RowsInv
  BY DEF Init, RowsInv
<1>2. Spec => []IInv
  BY TreeInvariant
<1> QED
  BY <1>1, <1>2, RowsStep, PTL DEF Spec

\* They fit the rows of the trainer if the configuration gives ts_k: without
\* it the worker and the trainer fall back to different numbers.
THEOREM OutputsFitTrainer ==
  ASSUME TsK # Unset
  PROVE  Spec => []OutputsAligned
<1>1. RowsInv => OutputsAligned
  BY DEF RowsInv, OutputsAligned, RowsTimesK, TrainerRows, K, TrainerK
<1> QED
  BY <1>1, OutputsPerRow, PTL

-----------------------------------------------------------------------------
(* Every step brings the search nearer to its end. *)

\* What a chain can still do: a turn, with its search, for each that is left.
TurnsLeft(ns, chain) ==
  CASE chain.at = "generating" -> 2 * (MaxTurns - ns[chain.tip].depth)
    [] chain.at = "searching" -> 2 * (MaxTurns - ns[chain.tip].depth) + 1
    [] OTHER -> 0

\* One chain uses up turns, the chains beside it none.
ChainNearer(ns, cs, ms, ds) ==
  /\ DOMAIN ds = DOMAIN cs
  /\ \E c \in DOMAIN cs :
       /\ TurnsLeft(ms, ds[c]) < TurnsLeft(ns, cs[c])
       /\ \A d \in DOMAIN cs \ {c} : TurnsLeft(ms, ds[d]) = TurnsLeft(ns, cs[d])

\* A tree enters its next phase, begins one of its iterations, or is in the
\* same and one of its chains gets on.
TreeNearer(t) ==
  \/ <<phase[t], phase'[t]>> \in {<<"new", "growing">>, <<"growing", "sampled">>,
                                  <<"growing", "raised">>}
  \/ /\ phase'[t] = phase[t]
     /\ iteration[t] < TsL /\ iteration'[t] = iteration[t] + 1
  \/ /\ phase'[t] = phase[t] /\ iteration'[t] = iteration[t]
     /\ ChainNearer(nodes[t], chains[t], nodes'[t], chains'[t])

TreeStill(t) ==
  /\ nodes'[t] = nodes[t] /\ chains'[t] = chains[t]
  /\ iteration'[t] = iteration[t] /\ phase'[t] = phase[t]

\* Only the first and the last step of a run may leave all trees as they are.
SearchNearer ==
  /\ \A t \in Trees : TreeNearer(t) \/ TreeStill(t)
  /\ \/ \E t \in Trees : TreeNearer(t)
     \/ <<run, run'>> \in {<<"new", "running">>, <<"running", "done">>}

TurnsBounded ==
  \A t \in Trees : \A c \in DOMAIN chains[t] :
    TurnsLeft(nodes[t], chains[t][c]) \in 0 .. 2 * MaxTurns + 1

\* The arithmetic of the turns of a chain.
LEMMA Doubled ==
  ASSUME NEW m \in Nat, NEW d \in 0 .. m
  PROVE  /\ 2 * (m - d) \in 0 .. 2 * m + 1 /\ 2 * (m - d) + 1 \in 0 .. 2 * m + 1
         /\ 0 \in 0 .. 2 * m + 1
         /\ d < m => /\ 0 < 2 * (m - d)
                     /\ 2 * (m - (d + 1)) + 1 < 2 * (m - d)
         /\ 0 < 2 * (m - d) + 1
         /\ 2 * (m - d) < 2 * (m - d) + 1
  OBVIOUS

\* What the invariant says of the tip of a chain.
LEMMA TipOf ==
  ASSUME IInv, NEW t \in Trees, NEW c \in DOMAIN chains[t]
  PROVE  /\ nodes[t] \in Seq(Node) /\ chains[t] \in Seq(ChainType)
         /\ chains[t][c].tip \in DOMAIN nodes[t]
         /\ nodes[t][chains[t][c].tip].depth \in 0 .. MaxTurns
         /\ chains[t][c].at = "generating"
              => nodes[t][chains[t][c].tip].depth < MaxTurns
<1>1. /\ nodes[t] \in Seq(Node) /\ chains[t] \in Seq(ChainType)
      /\ ChainOK(nodes[t], chains[t][c], phase[t])
  BY DEF IInv, TreeOK
<1>2. chains[t][c].tip \in DOMAIN nodes[t]
  BY <1>1 DEF ChainOK
<1>3. nodes[t][chains[t][c].tip].depth \in 0 .. MaxTurns
  BY <1>1, <1>2, NodeTypes
<1> QED
  BY <1>1, <1>2, <1>3 DEF ChainOK, Open

LEMMA TurnsTyped == IInv => TurnsBounded
<1> SUFFICES ASSUME IInv, NEW t \in Trees, NEW c \in DOMAIN chains[t]
             PROVE  TurnsLeft(nodes[t], chains[t][c]) \in 0 .. 2 * MaxTurns + 1
  BY DEF TurnsBounded
<1> DEFINE d == nodes[t][chains[t][c].tip].depth
<1>1. d \in 0 .. MaxTurns /\ MaxTurns \in Nat
  BY TipOf, SearchAssumption
<1>2. \/ TurnsLeft(nodes[t], chains[t][c]) = 2 * (MaxTurns - d)
      \/ TurnsLeft(nodes[t], chains[t][c]) = 2 * (MaxTurns - d) + 1
      \/ TurnsLeft(nodes[t], chains[t][c]) = 0
  BY DEF TurnsLeft
<1> HIDE DEF d
<1> QED
  BY <1>1, <1>2, Doubled

\* A chain that stays at its tip, with the same depth, can still do the same.
LEMMA SameTurns ==
  ASSUME NEW ns, NEW ms, NEW chain, ms[chain.tip].depth = ns[chain.tip].depth
  PROVE  TurnsLeft(ms, chain) = TurnsLeft(ns, chain)
  BY DEF TurnsLeft

\* What a new list of chains, and a new list of nodes, share with the old ones.
LEMMA OthersHere ==
  ASSUME NEW ns, NEW ms, NEW cs \in Seq(ChainType), NEW ds, NEW c \in DOMAIN cs, NEW x,
         ds = [cs EXCEPT ![c] = x],
         \A d \in DOMAIN cs : ms[cs[d].tip].depth = ns[cs[d].tip].depth,
         TurnsLeft(ms, x) < TurnsLeft(ns, cs[c])
  PROVE  ChainNearer(ns, cs, ms, ds)
<1>1. /\ DOMAIN ds = DOMAIN cs /\ ds[c] = x
      /\ \A d \in DOMAIN cs \ {c} : ds[d] = cs[d]
  OBVIOUS
<1>2. \A d \in DOMAIN cs \ {c} : TurnsLeft(ms, ds[d]) = TurnsLeft(ns, cs[d])
  BY <1>1, SameTurns
<1> QED
  BY <1>1, <1>2 DEF ChainNearer

LEMMA AppendKeeps ==
  ASSUME NEW S, NEW s \in Seq(S), NEW x
  PROVE  Append(s, x)[Len(s) + 1] = x /\ \A i \in DOMAIN s : Append(s, x)[i] = s[i]
  OBVIOUS

\* One tree moves, the others stand still.
LEMMA OneMoves ==
  ASSUME IInv, NEW t \in Trees, NEW ns, NEW cs, NEW it, NEW ph,
         nodes' = [nodes EXCEPT ![t] = ns], chains' = [chains EXCEPT ![t] = cs],
         iteration' = [iteration EXCEPT ![t] = it], phase' = [phase EXCEPT ![t] = ph]
  PROVE  /\ nodes'[t] = ns /\ chains'[t] = cs /\ iteration'[t] = it /\ phase'[t] = ph
         /\ \A s \in Trees \ {t} : TreeStill(s)
  BY DEF IInv, TreeStill

LEMMA GenerateNearer ==
  ASSUME IInv, NEW t \in Trees, NEW c \in DOMAIN chains[t],
         NEW len \in Lengths, NEW searches \in BOOLEAN, Generate(t, c, len, searches)
  PROVE  TreeNearer(t) /\ \A s \in Trees \ {t} : TreeStill(s)
<1> DEFINE ns == nodes[t]
           cs == chains[t]
           tip == cs[c].tip
           child == Child(t, tip, len, searches)
           x == Chain(Len(ns) + 1, IF searches THEN "searching" ELSE "done")
           ms == Append(ns, child)
           ds == [cs EXCEPT ![c] = x]
<1>1. /\ nodes' = [nodes EXCEPT ![t] = ms] /\ chains' = [chains EXCEPT ![t] = ds]
      /\ iteration' = [iteration EXCEPT ![t] = iteration[t]]
      /\ phase' = [phase EXCEPT ![t] = phase[t]]
  BY TreeValues DEF Generate
<1>2. /\ ns \in Seq(Node) /\ cs \in Seq(ChainType)
      /\ \A d \in DOMAIN cs : cs[d].tip \in DOMAIN ns
      /\ ns[tip].depth \in 0 .. MaxTurns /\ ns[tip].depth < MaxTurns
      /\ cs[c].at = "generating"
  BY TipOf DEF Generate
<1>3. child.depth = ns[tip].depth + 1
  BY DEF Child
<1>4. x.tip = Len(ns) + 1 /\ x.at \in {"searching", "done"}
  BY DEF Chain
<1> HIDE DEF child, x
<1>5. ms[Len(ns) + 1] = child /\ \A n \in DOMAIN ns : ms[n] = ns[n]
  <2>1. ns \in Seq(Node)
    BY <1>2
  <2> HIDE DEF ns
  <2> QED
    BY <2>1, AppendKeeps
<1> HIDE DEF ms
<1>6. TurnsLeft(ms, x) < TurnsLeft(ns, cs[c])
  <2>1. TurnsLeft(ns, cs[c]) = 2 * (MaxTurns - ns[tip].depth)
    BY <1>2 DEF TurnsLeft
  <2>2. \/ TurnsLeft(ms, x) = 0
        \/ TurnsLeft(ms, x) = 2 * (MaxTurns - (ns[tip].depth + 1)) + 1
    BY <1>3, <1>4, <1>5 DEF TurnsLeft
  <2>3. ns[tip].depth \in 0 .. MaxTurns /\ ns[tip].depth < MaxTurns /\ MaxTurns \in Nat
    BY <1>2, SearchAssumption
  <2> HIDE DEF tip, ns, cs
  <2> QED
    BY <2>1, <2>2, <2>3, Doubled
<1>7. ChainNearer(ns, cs, ms, ds)
  <2>1. \A d \in DOMAIN cs : ms[cs[d].tip].depth = ns[cs[d].tip].depth
    BY <1>2, <1>5
  <2>2. cs \in Seq(ChainType) /\ c \in DOMAIN cs /\ ds = [cs EXCEPT ![c] = x]
    BY <1>2
  <2> HIDE DEF ns, cs, ds
  <2> QED
    BY <1>6, <2>1, <2>2, OthersHere, Zenon
<1> HIDE DEF ds
<1>8. /\ nodes'[t] = ms /\ chains'[t] = ds /\ iteration'[t] = iteration[t]
      /\ phase'[t] = phase[t] /\ \A s \in Trees \ {t} : TreeStill(s)
  BY <1>1, OneMoves, Zenon
<1> QED
  BY <1>7, <1>8 DEF TreeNearer

LEMMA ObserveNearer ==
  ASSUME IInv, NEW t \in Trees, NEW c \in DOMAIN chains[t],
         NEW obs \in ObsLengths, Observe(t, c, obs)
  PROVE  TreeNearer(t) /\ \A s \in Trees \ {t} : TreeStill(s)
<1> DEFINE ns == nodes[t]
           cs == chains[t]
           tip == cs[c].tip
           seen == Seen(ns[tip], obs)
           x == Chain(tip, Continue(seen))
           ms == [ns EXCEPT ![tip] = seen]
           ds == [cs EXCEPT ![c] = x]
<1>1. /\ nodes' = [nodes EXCEPT ![t] = ms] /\ chains' = [chains EXCEPT ![t] = ds]
      /\ iteration' = [iteration EXCEPT ![t] = iteration[t]]
      /\ phase' = [phase EXCEPT ![t] = phase[t]]
  BY TreeValues DEF Observe
<1>2. /\ ns \in Seq(Node) /\ cs \in Seq(ChainType)
      /\ \A d \in DOMAIN cs : cs[d].tip \in DOMAIN ns
      /\ tip \in DOMAIN ns /\ ns[tip].depth \in 0 .. MaxTurns
      /\ cs[c].at = "searching"
  BY TipOf DEF Observe
<1>3. seen.depth = ns[tip].depth
  <2>1. ns[tip] \in Node
    BY <1>2, NodeTypes
  <2> QED
    BY <2>1 DEF Seen, Node
<1>4. x.tip = tip /\ x.at \in {"generating", "done"}
  BY DEF Chain, Continue
<1> HIDE DEF seen, x
<1>5. ms[tip] = seen /\ \A n \in DOMAIN ns : ms[n].depth = ns[n].depth
  BY <1>2, <1>3
<1> HIDE DEF ms
<1>6. TurnsLeft(ms, x) < TurnsLeft(ns, cs[c])
  <2>1. TurnsLeft(ns, cs[c]) = 2 * (MaxTurns - ns[tip].depth) + 1
    BY <1>2 DEF TurnsLeft
  <2>2. \/ TurnsLeft(ms, x) = 0
        \/ TurnsLeft(ms, x) = 2 * (MaxTurns - ns[tip].depth)
    BY <1>3, <1>4, <1>5 DEF TurnsLeft
  <2>3. ns[tip].depth \in 0 .. MaxTurns /\ MaxTurns \in Nat
    BY <1>2, SearchAssumption
  <2> HIDE DEF tip, ns, cs
  <2> QED
    BY <2>1, <2>2, <2>3, Doubled
<1>7. ChainNearer(ns, cs, ms, ds)
  <2>1. \A d \in DOMAIN cs : ms[cs[d].tip].depth = ns[cs[d].tip].depth
    BY <1>2, <1>5
  <2>2. cs \in Seq(ChainType) /\ c \in DOMAIN cs /\ ds = [cs EXCEPT ![c] = x]
    BY <1>2
  <2> HIDE DEF ns, cs, ds
  <2> QED
    BY <1>6, <2>1, <2>2, OthersHere, Zenon
<1> HIDE DEF ds
<1>8. /\ nodes'[t] = ms /\ chains'[t] = ds /\ iteration'[t] = iteration[t]
      /\ phase'[t] = phase[t] /\ \A s \in Trees \ {t} : TreeStill(s)
  BY <1>1, OneMoves, Zenon
<1> QED
  BY <1>7, <1>8 DEF TreeNearer

LEMMA RaiseNearer ==
  ASSUME IInv, NEW t \in Trees, NEW c \in DOMAIN chains[t], Raise(t, c)
  PROVE  TreeNearer(t) /\ \A s \in Trees \ {t} : TreeStill(s)
  BY DEF Raise, TreeNearer, TreeStill, IInv

LEMMA ExpandNearer ==
  ASSUME IInv, NEW t \in Trees, Expand(t)
  PROVE  TreeNearer(t) /\ \A s \in Trees \ {t} : TreeStill(s)
<1>1. /\ iteration[t] < TsL
      /\ nodes' = nodes /\ phase' = phase
      /\ iteration' = [iteration EXCEPT ![t] = iteration[t] + 1]
      /\ \E ds : chains' = [chains EXCEPT ![t] = ds]
  BY DEF Expand
<1> QED
  BY <1>1 DEF TreeNearer, TreeStill, IInv

LEMMA SampleNearer ==
  ASSUME IInv, NEW t \in Trees, Sample(t)
  PROVE  TreeNearer(t) /\ \A s \in Trees \ {t} : TreeStill(s)
<1>1. /\ phase[t] = "growing" /\ phase' = [phase EXCEPT ![t] = "sampled"]
      /\ UNCHANGED <<nodes, chains, iteration>>
  BY DEF Sample, ChainsDone
<1> QED
  BY <1>1 DEF TreeNearer, TreeStill, IInv

LEMMA NextNearer == IInv /\ [Next]_vars => [SearchNearer]_vars
<1> SUFFICES ASSUME IInv, Next PROVE SearchNearer
  OBVIOUS
<1>1. CASE Start
  <2>1. /\ run = "new" /\ run' = "running"
        /\ phase' = [t \in Trees |-> "growing"]
    BY <1>1 DEF Start, StartTrees
  <2>2. \A t \in Trees : phase[t] = "new"
    BY <2>1 DEF IInv
  <2> QED
    BY <2>1, <2>2 DEF SearchNearer, TreeNearer
<1>2. ASSUME NEW t \in Trees, Grow(t) PROVE SearchNearer
  <2> DEFINE Moves == TreeNearer(t) /\ \A s \in Trees \ {t} : TreeStill(s)
  <2>1. ASSUME NEW c \in DOMAIN chains[t], NEW len \in Lengths, NEW searches \in BOOLEAN,
               Generate(t, c, len, searches)
        PROVE  Moves
    BY <2>1, GenerateNearer
  <2>2. ASSUME NEW c \in DOMAIN chains[t], NEW obs \in ObsLengths, Observe(t, c, obs)
        PROVE  Moves
    BY <2>2, ObserveNearer
  <2>3. ASSUME NEW c \in DOMAIN chains[t], Raise(t, c) PROVE Moves
    BY <2>3, RaiseNearer
  <2>4. ASSUME Expand(t) PROVE Moves
    BY <2>4, ExpandNearer
  <2>5. ASSUME Sample(t) PROVE Moves
    BY <2>5, SampleNearer
  <2> HIDE DEF Moves
  <2>6. Moves
    BY <1>2, <2>1, <2>2, <2>3, <2>4, <2>5 DEF Grow
  <2> QED
    BY <2>6 DEF Moves, SearchNearer
<1>3. CASE Collect
  BY <1>3 DEF Collect, trees, SearchNearer, TreeStill
<1> QED
  BY <1>1, <1>2, <1>3 DEF Next

\* Every step of the search uses up something that is bounded: the phases of a
\* tree, its ts_l iterations, and in an iteration the turns of its ts_n chains,
\* of which each has at most max_turns.  The trees do not give each other work,
\* so the search ends, or waits for the LLM or the search tool.
THEOREM SearchIsBounded ==
  Spec => []TurnsBounded /\ [][SearchNearer]_vars
<1>1. Spec => []IInv
  BY TreeInvariant
<1> QED
  BY <1>1, TurnsTyped, NextNearer, PTL DEF Spec

=============================================================================
