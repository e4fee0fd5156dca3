----------------------------- MODULE ArpoBranching -----------------------------
(***************************************************************************)
(* Adaptive branching of one agent loop worker: _generate_sequences_arpo   *)
(* of verl/experimental/agent_loop/agent_loop.py with the                  *)
(* ArpoBranchCoordinator of arpo_branching.py.                             *)
(*                                                                         *)
(* The worker starts InitialRollouts rollouts of every prompt of its       *)
(* batch.  A rollout that comes back from a tool call may put copies of    *)
(* itself into the branch queue; the worker wakes when some rollout ends,  *)
(* collects the ended ones and launches what is queued.  When nothing is   *)
(* pending it fills the list of outputs up, or cuts it, to the number of   *)
(* rows of the batch.                                                      *)
(*                                                                         *)
(* A rollout is known by a number: the row it was started for, or the next *)
(* number after the rows for a branch, so that the order of the numbers is *)
(* the order in which the rollouts were registered.  Everything between    *)
(* two awaits is one step.  The random draw and the entropy that decide on *)
(* a branch are a choice.                                                  *)
(***************************************************************************)
EXTENDS Integers, FiniteSets, SequencesExt, Ordered

CONSTANTS RowPrompt,        \* the prompt of each row of the worker's batch
          NRollouts,        \* n_rollouts: the rollouts wanted of a prompt
          InitialRollouts,  \* initial_rollouts: those started at once
          BeamSize,         \* beam_size: the most branches of one boundary
          MaxTurns          \* max_assistant_turns of a rollout

Rows == DOMAIN RowPrompt
Prompts == {RowPrompt[i] : i \in Rows}

\* the rows of a prompt stand together: the trainer repeats every prompt in
\* place (batch.repeat(..., interleave=True))
ASSUME BatchAssumption ==
    /\ RowPrompt \in Seq(Prompts)
    /\ \A i, j, k \in Rows : i < j /\ j < k /\ RowPrompt[i] = RowPrompt[k]
                             => RowPrompt[j] = RowPrompt[i]

ASSUME ConfigAssumption ==
    /\ NRollouts \in Nat \ {0}
    /\ InitialRollouts \in Nat \ {0}
    /\ BeamSize \in Nat
    /\ MaxTurns \in Nat \ {0}

VARIABLES rollouts,           \* task_meta, the tasks and the branch queue
          rollout_counts,     \* _rollout_counts of the coordinator
          all_outputs,        \* the rollouts whose outputs are collected, in order
          outputs_by_sample,  \* the outputs the fill-up copies from
          pc                  \* where _generate_sequences_arpo stands

vars == <<rollouts, rollout_counts, all_outputs, outputs_by_sample, pc>>

Status == {"queued", "running", "done", "failed", "collected"}
Ids == Nat \ {0}

Larger(m, n) == IF m > n THEN m ELSE n
Smaller(m, n) == IF m < n THEN m ELSE n

RolloutsOf(p) == {t \in DOMAIN rollouts : rollouts[t].sample = p}
WithStatus(s) == {t \in DOMAIN rollouts : rollouts[t].status = s}

-----------------------------------------------------------------------------
(***************************************************************************)
(* Start: the first InitialRollouts rows of every prompt                   *)
(***************************************************************************)
Earlier(i) == {j \in Rows : j < i /\ RowPrompt[j] = RowPrompt[i]}

\* batch_indices[:initial_rollouts] of every group
Selected == {i \in Rows : Cardinality(Earlier(i)) < InitialRollouts}

SelectedOf(p) == {i \in Selected : RowPrompt[i] = p}

Init ==
    /\ rollouts = [i \in Selected |->
                     [sample |-> RowPrompt[i], status |-> "running", turns |-> 0]]
    /\ rollout_counts = [p \in Prompts |-> Cardinality(SelectedOf(p))]
    /\ all_outputs = << >>
    /\ outputs_by_sample = [p \in Prompts |-> << >>]
    /\ pc = "collect"

-----------------------------------------------------------------------------
(***************************************************************************)
(* The rollouts                                                            *)
(***************************************************************************)
\* the branches a boundary of a prompt's rollout queues, if it branches
Branches(p) == Smaller(BeamSize, NRollouts - rollout_counts[p])

MayBranch(p) == rollout_counts[p] < NRollouts

\* the numbers after those in use
NextIds(n) ==
    LET last == Len(RowPrompt) + Cardinality(DOMAIN rollouts \ Rows)
    IN  (last + 1) .. (last + n)

\* mutant: a branch is counted only when it is registered
EnqueuedUncounted(p) == rollout_counts

\* each queued branch is counted at once
Enqueued(p) == [rollout_counts EXCEPT ![p] = @ + Branches(p)]

\* mutant: the turn after the last one is generated too
OneMoreTurn(t) == rollouts[t].turns < MaxTurns

\* the turn that has ended was not the last one allowed
MoreTurns(t) == rollouts[t].turns + 1 < MaxTurns

\* a rollout has run its tools and goes on to its next turn
Turn(t) == [rollouts EXCEPT ![t].turns = @ + 1]

\* its tool boundary passes without a branch
Continue(t) ==
    /\ rollouts[t].status = "running"
    /\ MoreTurns(t)
    /\ rollouts' = Turn(t)
    /\ UNCHANGED <<rollout_counts, all_outputs, outputs_by_sample, pc>>

\* its tool boundary queues copies of it
Branch(t) ==
    LET p == rollouts[t].sample
        new == NextIds(Branches(p))
    IN  /\ rollouts[t].status = "running"
        /\ MoreTurns(t)
        /\ MayBranch(p)
        /\ rollouts' = [u \in DOMAIN rollouts \cup new |->
                          IF u \in new
                          THEN [Turn(t)[t] EXCEPT !.status = "queued"]
                          ELSE Turn(t)[u]]
        /\ rollout_counts' = Enqueued(p)
        /\ UNCHANGED <<all_outputs, outputs_by_sample, pc>>

Ends(t, how) ==
    /\ rollouts[t].status = "running"
    /\ rollouts' = [rollouts EXCEPT ![t].status = how]
    /\ UNCHANGED <<rollout_counts, all_outputs, outputs_by_sample, pc>>

Finish(t) == Ends(t, "done")

\* a tool, the server or the post-processing raises
Fail(t) == Ends(t, "failed")

-----------------------------------------------------------------------------
(***************************************************************************)
(* The worker                                                              *)
(***************************************************************************)
\* mutant: the wait looks at initial_tasks instead of pending_tasks
SomeInitialEnded ==
    (WithStatus("done") \cup WithStatus("failed")) \cap Selected # {}

\* what asyncio.wait(..., FIRST_COMPLETED) waits for
SomeEnded == WithStatus("done") \cup WithStatus("failed") # {}

\* the ended tasks leave the pending ones and the queued branches join them
Collected ==
    [t \in DOMAIN rollouts |->
       [rollouts[t] EXCEPT !.status = CASE @ = "done"   -> "collected"
                                        [] @ = "queued" -> "running"
                                        [] OTHER        -> @]]

\* mutant: the loop looks at the tasks before the branches have joined
PendingBeforeBranches == WithStatus("running")

\* the tasks of the next turn of the loop
Pending == WithStatus("running") \cup WithStatus("queued")

\* register_trajectory of every drained branch: it is counted again
Registered ==
    [p \in Prompts |->
       rollout_counts[p] + Cardinality(RolloutsOf(p) \cap WithStatus("queued"))]

\* the done tasks are a set: their outputs are appended in the order of the
\* dict that holds the tasks
Collect ==
    /\ pc = "collect"
    /\ SomeEnded
    /\ WithStatus("failed") = {}
    /\ all_outputs' = all_outputs \o InOrder(WithStatus("done"))
    /\ rollouts' = Collected
    /\ rollout_counts' = Registered
    /\ pc' = IF Pending = {} THEN "group" ELSE "collect"
    /\ UNCHANGED outputs_by_sample

\* await task raises what the rollout raised: the call ends, the other tasks
\* run on
Raise ==
    /\ pc = "collect"
    /\ WithStatus("failed") # {}
    /\ pc' = "raised"
    /\ UNCHANGED <<rollouts, rollout_counts, all_outputs, outputs_by_sample>>

\* mutant: every output is grouped under the prompt of the first rollout
GroupedUnderFirst(p) == IF p = RowPrompt[1] THEN all_outputs ELSE << >>

\* zip(all_outputs, task_meta): the k-th output with the prompt of the k-th
\* registered rollout
GroupedUnder(p) ==
    LET registered == InOrder(DOMAIN rollouts)
    IN  Picked(all_outputs,
               {k \in DOMAIN all_outputs : rollouts[registered[k]].sample = p})

Group ==
    /\ pc = "group"
    /\ outputs_by_sample' = IF Len(all_outputs) < Len(RowPrompt)
                            THEN [p \in Prompts |-> GroupedUnder(p)]
                            ELSE outputs_by_sample
    /\ pc' = "fill"
    /\ UNCHANGED <<rollouts, rollout_counts, all_outputs>>

RowsOf(p) == {i \in Rows : RowPrompt[i] = p}

\* the prompts that have outputs, but fewer than rows
Short == {p \in Prompts : /\ outputs_by_sample[p] # << >>
                          /\ Len(outputs_by_sample[p]) < Cardinality(RowsOf(p))}

\* one turn of the while: the last output of the first short prompt once more
FillOne(p) ==
    /\ pc = "fill"
    /\ Len(all_outputs) < Len(RowPrompt)
    /\ p \in Short
    /\ \A i \in RowsOf(p), q \in Short : \A j \in RowsOf(q) : q # p => i < j
    /\ all_outputs' = Append(all_outputs, Last(outputs_by_sample[p]))
    /\ outputs_by_sample' = [outputs_by_sample EXCEPT ![p] = Append(@, Last(@))]
    /\ UNCHANGED <<rollouts, rollout_counts, pc>>

\* all_outputs[:expected_count]
Return ==
    /\ pc = "fill"
    /\ Len(all_outputs) >= Len(RowPrompt) \/ Short = {}
    /\ all_outputs' = SubSeq(all_outputs, 1, Smaller(Len(all_outputs), Len(RowPrompt)))
    /\ pc' = "returned"
    /\ UNCHANGED <<rollouts, rollout_counts, outputs_by_sample>>

Next ==
    \/ \E t \in DOMAIN rollouts : Continue(t)
    \/ \E t \in DOMAIN rollouts : Branch(t)
    \/ \E t \in DOMAIN rollouts : Finish(t)
    \/ \E t \in DOMAIN rollouts : Fail(t)
    \/ Collect
    \/ Raise
    \/ Group
    \/ \E p \in Prompts : FillOne(p)
    \/ Return

Spec == Init /\ [][Next]_vars

\* a turn is bounded by the response length and the worker by its tasks
FairSpec == Spec /\ WF_vars(Next)

-----------------------------------------------------------------------------
(***************************************************************************)
(* Properties                                                              *)
(***************************************************************************)
Rollout == [sample : Prompts, status : Status, turns : 0 .. (MaxTurns - 1)]

\* Every rollout known to the worker has a prompt of the batch, a status and
\* a number of turns below the limit (_generate_sequences_arpo's tasks,
\* metadata and queue).  What the lists of outputs hold is OneOutputPerRow's.
TypeOK ==
    /\ DOMAIN rollouts \in SUBSET Ids
    /\ IsFiniteSet(DOMAIN rollouts)
    /\ Selected \subseteq DOMAIN rollouts
    /\ \A t \in DOMAIN rollouts : rollouts[t] \in Rollout
    /\ rollout_counts \in [Prompts -> Nat]
    /\ pc \in {"collect", "group", "fill", "returned", "raised"}

\* A prompt never gets more rollouts than n_rollouts, or than were started at
\* once: rollouts that end, branch and are launched in any order share the
\* coordinator's count, and a boundary looks at it before it adds branches.
BudgetKept ==
    \A p \in Prompts :
        Cardinality(RolloutsOf(p)) <= Larger(NRollouts, InitialRollouts)

\* The worker stops waiting only when no rollout runs and no branch is
\* queued: a branch enqueued by the last rollout that ends is still launched
\* and its output is among the collected ones.
NoBranchLost ==
    pc \in {"group", "fill", "returned"}
        => WithStatus("collected") = DOMAIN rollouts

\* A call that returns has one output per row, and when the groups of the
\* batch have room for the budget none of the rollouts is cut off: the fill-up
\* copies outputs, the trim removes only copies.
OneOutputPerRow ==
    pc = "returned"
        => /\ Len(all_outputs) = Len(RowPrompt)
           /\ (\A p \in Prompts : Larger(NRollouts, InitialRollouts)
                                    <= Cardinality(RowsOf(p)))
                => Range(all_outputs) = DOMAIN rollouts

\* Every call ends, with outputs or with the exception of a rollout: the wait
\* also covers branches launched after it began.
CallEnds == <>(pc \in {"returned", "raised"})

\* The k-th output belongs to the prompt of the k-th row: the trainer unites
\* the outputs with its batch row by row ("repeat to align with repeated
\* responses in rollout", ray_trainer.py:1594).  Outputs stand in the order of
\* completion, and the fill-up pairs them with prompts in the order of
\* registration.
RowsMatchPrompts ==
    pc = "returned"
        => \A i \in Rows : rollouts[all_outputs[i]].sample = RowPrompt[i]

=============================================================================
