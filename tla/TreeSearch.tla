----------------------------- MODULE TreeSearch -----------------------------
(***************************************************************************)
(* Tree search of src/policy/tree_search/: a worker grows one tree for     *)
(* each row of its batch, all of them at the same time on one event loop,  *)
(* and the trainer expects K leaves for each row, in the order of the      *)
(* rows.  A step of the model is what runs between two awaits.             *)
(*                                                                         *)
(* The nodes of a tree are numbered in the order of their creation; the    *)
(* node_id of the code is the field id.  A turn is known by the number of  *)
(* its tokens: start of them come before the turn on the path from the     *)
(* root, len are generated in it, and obs is the length of the search      *)
(* result behind them.  The prompt holds no assistant turn, so the depth   *)
(* of a node is the number of turns on its path.                           *)
(***************************************************************************)
EXTENDS Integers, Sequences, FiniteSets, SequencesExt

CONSTANTS
  RowUid,           \* RowUid[i] : the prompt that row i of the batch repeats
  TsN,              \* ts_n, nodes expanded per iteration
  TsL,              \* ts_l, iterations
  TsK,              \* ts_k, or Unset if the configuration does not give it
  MaxTurns,         \* max_turns
  ResponseLength,   \* response_length, in tokens
  Lengths,          \* possible numbers of tokens of a turn
  ObsLengths,       \* possible numbers of tokens of a search result
  Unset

\* Repeats of a prompt are neighbours: the trainer repeats with interleave=True.
ASSUME RowsAssumption ==
  /\ RowUid \in Seq(Nat)
  /\ \A i, j \in DOMAIN RowUid : i <= j => RowUid[i] <= RowUid[j]
ASSUME SearchAssumption ==
  /\ TsN \in Nat \ {0} /\ TsL \in Nat /\ MaxTurns \in Nat \ {0}
  /\ TsK \in (Nat \ {0}) \cup {Unset} /\ Unset \notin Nat
ASSUME LengthAssumption ==
  /\ ResponseLength \in Nat \ {0}
  /\ Lengths \subseteq Nat /\ ObsLengths \subseteq Nat

\* Leaves sampled by the tree search, and expected by the trainer.
K == IF TsK = Unset THEN 4 ELSE TsK
TrainerK == IF TsK = Unset THEN 3 ELSE TsK

\* sample_leaves: "need 1 + N*L >= K".
EnoughExpansions == 1 + TsN * TsL >= K

Trees == DOMAIN RowUid

VARIABLES
  nodes,     \* nodes[t] : the nodes of tree t
  chains,    \* chains[t] : the chains that grow in tree t, see Chain
  iteration, \* iteration[t] : expansion iterations begun
  phase,     \* phase[t] : of the task of tree t
  sampled,   \* sampled[t] : the leaves it returns
  counter,   \* _node_id_counter, shared by all trees
  run,       \* generate_sequences of the worker
  outputs    \* the prompt of each of its outputs

trees == <<nodes, chains, iteration, phase, sampled>>
vars == <<trees, counter, run, outputs>>

-----------------------------------------------------------------------------
(* Trees. *)

LeavesOf(ns) == {n \in DOMAIN ns : \A m \in DOMAIN ns : ns[m].parent # n}
Leaves(t) == LeavesOf(nodes[t])
NonLeaves(t) == DOMAIN nodes[t] \ Leaves(t)
TerminalLeaves(t) == {n \in Leaves(t) : nodes[t][n].terminal}

Root(id) ==
  [id |-> id, parent |-> 0, depth |-> 0, start |-> 0, len |-> 0, obs |-> 0,
   terminal |-> FALSE]

\* The tokens of the path up to and including a node.
End(node) == node.start + node.len + node.obs

Child(t, n, len, searches) ==
  [id |-> counter + 1, parent |-> n, depth |-> nodes[t][n].depth + 1,
   start |-> End(nodes[t][n]), len |-> len, obs |-> 0, terminal |-> ~searches]

\* Mutant: the loop of a chain does not look at its tip.
ContinueAlways(node) == "generating"

\* A chain goes on from its tip, unless that is terminal or has had its turns.
Continue(node) ==
  IF node.terminal \/ node.depth >= MaxTurns THEN "done" ELSE "generating"

Chain(n, at) == [tip |-> n, at |-> at]

Active(t) == {c \in DOMAIN chains[t] : chains[t][c].at # "done"}

-----------------------------------------------------------------------------
Init ==
  /\ nodes = [t \in Trees |-> <<>>]
  /\ chains = [t \in Trees |-> <<>>]
  /\ iteration = [t \in Trees |-> 0]
  /\ phase = [t \in Trees |-> "new"]
  /\ sampled = [t \in Trees |-> {}]
  /\ counter = 0
  /\ run = "new"
  /\ outputs = <<>>

StartTrees(S, id) ==
  /\ nodes' = [t \in Trees |-> IF t \in S THEN <<Root(id)>> ELSE nodes[t]]
  /\ chains' = [t \in Trees |-> IF t \in S THEN <<Chain(1, "generating")>> ELSE chains[t]]
  /\ phase' = [t \in Trees |-> IF t \in S THEN "growing" ELSE phase[t]]
  /\ counter' = id
  /\ run' = "running"
  /\ UNCHANGED <<iteration, sampled, outputs>>

\* Mutant: a tree may start when others have grown already.
StartLater ==
  /\ run \in {"new", "running"}
  /\ \E t \in Trees : phase[t] = "new" /\ StartTrees({t}, 1)

\* The tasks are created without an await in between, so each of them resets
\* the counter, takes an id for its root and asks for its first turn before
\* any of them gets an answer.
Start ==
  /\ run = "new"
  /\ StartTrees(Trees, 1)

\* The answer of the LLM to chain c; without a query (an <answer>, or neither)
\* the child is terminal.  An empty turn has no query.
Generate(t, c, len, searches) ==
  /\ chains[t][c].at = "generating"
  /\ searches => len > 0
  /\ LET child == Child(t, chains[t][c].tip, len, searches) IN
     /\ nodes' = [nodes EXCEPT ![t] = Append(@, child)]
     /\ chains' = [chains EXCEPT ![t][c] =
          Chain(Len(nodes[t]) + 1, IF searches THEN "searching" ELSE "done")]
  /\ counter' = counter + 1
  /\ UNCHANGED <<iteration, phase, sampled, run, outputs>>

\* Mutant: <= for <.
FitsExactly(node, obs) == node.start + node.len + obs <= ResponseLength

Fits(node, obs) == node.start + node.len + obs < ResponseLength

\* A node with the result of its search.  It is dropped, and the node is
\* terminal, if the response gets too long with it.
Seen(node, obs) ==
  IF Fits(node, obs)
    THEN [node EXCEPT !.obs = obs, !.terminal = node.depth >= MaxTurns]
    ELSE [node EXCEPT !.terminal = TRUE]

\* The result of the search, or "[]" if it failed.
Observe(t, c, obs) ==
  /\ chains[t][c].at = "searching"
  /\ LET n == chains[t][c].tip
         seen == Seen(nodes[t][n], obs)
     IN /\ nodes' = [nodes EXCEPT ![t][n] = seen]
        /\ chains' = [chains EXCEPT ![t][c] = Chain(n, Continue(seen))]
  /\ UNCHANGED <<iteration, phase, sampled, counter, run, outputs>>

\* Mutant: the exception stays in the task of the tree.
RaiseSilently(t, c) ==
  /\ chains[t][c].at = "generating"
  /\ phase[t] = "growing"
  /\ phase' = [phase EXCEPT ![t] = "raised"]
  /\ chains' = [chains EXCEPT ![t][c].at = "done"]
  /\ UNCHANGED <<nodes, iteration, sampled, counter, run, outputs>>

\* generate() raises: so does the task of the tree, and generate_sequences at
\* once.  The other chains and trees go on, though nobody awaits them.
Raise(t, c) ==
  /\ chains[t][c].at = "generating"
  /\ phase[t] = "growing"
  /\ phase' = [phase EXCEPT ![t] = "raised"]
  /\ chains' = [chains EXCEPT ![t][c].at = "done"]
  /\ run' = "failed"
  /\ UNCHANGED <<nodes, iteration, sampled, counter, outputs>>

ChainsDone(t) == phase[t] = "growing" /\ Active(t) = {}

\* Mutant: a node that is picked twice is expanded once.
DistinctChains(t, pick) ==
  LET picked == SetToSeq({pick[i] : i \in 1 .. TsN})
  IN [i \in 1 .. Len(picked) |-> Chain(picked[i], Continue(nodes[t][picked[i]]))]

NewChains(t, pick) == [i \in 1 .. TsN |-> Chain(pick[i], Continue(nodes[t][pick[i]]))]

\* An iteration picks nodes that are not leaves, with replacement, and starts
\* a chain from each.
Expand(t) ==
  /\ ChainsDone(t) /\ iteration[t] < TsL
  /\ \E pick \in [1 .. TsN -> NonLeaves(t)] :
       chains' = [chains EXCEPT ![t] = NewChains(t, pick)]
  /\ iteration' = [iteration EXCEPT ![t] = @ + 1]
  /\ UNCHANGED <<nodes, phase, sampled, counter, run, outputs>>

\* sample_leaves: k of the terminal leaves, or all of these and others.
IsSample(t, S, k) ==
  LET terminal == TerminalLeaves(t) IN
  IF Cardinality(terminal) >= k
    THEN S \subseteq terminal /\ Cardinality(S) = k
    ELSE /\ terminal \subseteq S
         /\ Cardinality(S) = IF Cardinality(Leaves(t)) < k THEN Cardinality(Leaves(t)) ELSE k

Sample(t) ==
  /\ ChainsDone(t)
  /\ iteration[t] = TsL \/ NonLeaves(t) = {}
  /\ \E S \in SUBSET Leaves(t) :
       IsSample(t, S, K) /\ sampled' = [sampled EXCEPT ![t] = S]
  /\ phase' = [phase EXCEPT ![t] = "sampled"]
  /\ UNCHANGED <<nodes, chains, iteration, counter, run, outputs>>

\* Trees are launched prompt by prompt, in the order in which the prompts occur.
FirstRow(u) == CHOOSE t \in Trees : RowUid[t] = u /\ \A s \in Trees : RowUid[s] = u => t <= s

\* Mutant: the prompts are launched in another order than they occur in.
AnyOrder == Reverse([t \in Trees |-> t])

LaunchedBefore(s, t) ==
  \/ FirstRow(RowUid[s]) < FirstRow(RowUid[t])
  \/ RowUid[s] = RowUid[t] /\ s < t

LaunchOrder ==
  [i \in Trees |->
     CHOOSE t \in Trees : Cardinality({s \in Trees : LaunchedBefore(s, t)}) = i - 1]

\* gather() returns the results in the order of the tasks.
Collect ==
  /\ run = "running"
  /\ \A t \in Trees : phase[t] = "sampled"
  /\ run' = "done"
  /\ outputs' = FlattenSeq([i \in 1 .. Len(LaunchOrder) |->
       [j \in 1 .. Cardinality(sampled[LaunchOrder[i]]) |-> RowUid[LaunchOrder[i]]]])
  /\ UNCHANGED <<trees, counter>>

Grow(t) ==
  \/ \E c \in DOMAIN chains[t] :
       \/ \E len \in Lengths, searches \in BOOLEAN : Generate(t, c, len, searches)
       \/ \E obs \in ObsLengths : Observe(t, c, obs)
       \/ Raise(t, c)
  \/ Expand(t)
  \/ Sample(t)

Next == Start \/ (\E t \in Trees : Grow(t)) \/ Collect

Spec == Init /\ [][Next]_vars

\* The LLM and the search tool answer or fail, the event loop runs its tasks.
FairSpec == Spec /\ WF_vars(Collect) /\ \A t \in Trees : WF_vars(Grow(t))

-----------------------------------------------------------------------------
(* Properties. *)

\* Every variable holds a value of its kind.
TypeOK ==
  /\ \A t \in Trees :
       /\ \A n \in DOMAIN nodes[t] :
            /\ nodes[t][n] \in [id : Nat \ {0}, parent : 0 .. n - 1, depth : 0 .. MaxTurns,
                                start : Nat, len : Lengths \cup {0},
                                obs : ObsLengths \cup {0}, terminal : BOOLEAN]
            /\ nodes[t][n].id <= counter
       /\ \A c \in DOMAIN chains[t] :
            /\ chains[t][c].tip \in DOMAIN nodes[t]
            /\ chains[t][c].at \in {"generating", "searching", "done"}
       /\ iteration[t] \in 0 .. TsL
       /\ phase[t] \in {"new", "growing", "raised", "sampled"}
       /\ sampled[t] \subseteq Leaves(t)
  /\ counter \in Nat
  /\ run \in {"new", "running", "failed", "done"}

\* A tree that is done has just K samples, all of them finished trajectories,
\* though its chains grew concurrently and from the same nodes.
KFinishedLeaves ==
  EnoughExpansions =>
    \A t \in Trees : phase[t] = "sampled" =>
      sampled[t] \subseteq TerminalLeaves(t) /\ Cardinality(sampled[t]) = K

\* Truncation to response_length leaves at least one of the tokens that were
\* generated in the last turn, on which the reward of the leaf is set.
RewardOnOwnTurn ==
  \A t \in Trees : \A n \in DOMAIN nodes[t] :
    nodes[t][n].len > 0 => nodes[t][n].start < ResponseLength

\* new_node_id: "unique IDs within a tree".
NodeIdsUnique ==
  \A t \in Trees : \A m, n \in DOMAIN nodes[t] :
    nodes[t][m].id = nodes[t][n].id => m = n

\* The rows the trainer makes room for: each row of the batch K times.
TrainerRows ==
  [j \in 1 .. Len(RowUid) * TrainerK |-> RowUid[(j - 1) \div TrainerK + 1]]

\* The outputs of the worker fit these rows one by one.
OutputsAligned == EnoughExpansions /\ run = "done" => outputs = TrainerRows

\* The worker returns, or reports the failure.
RolloutEnds == (run = "running") ~> (run \in {"done", "failed"})

=============================================================================
