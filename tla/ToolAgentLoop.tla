----------------------------- MODULE ToolAgentLoop -----------------------------
(***************************************************************************)
(* One trajectory of the tool agent loop: the state machine of             *)
(* verl/experimental/agent_loop/tool_agent_loop.py with the step data of   *)
(* AsyncToolScoreQwenToolAgentLoop (src/policy/agent_loop), the merge of   *)
(* the step scores by its manager, and the way the step estimators of      *)
(* verl/trainer/ppo find the turns again in the response mask.             *)
(*                                                                         *)
(* A token is the number of the turn it belongs to: 0 in the prompt, k if  *)
(* the model generated it in its k-th turn, -k in the tool results or user *)
(* message that followed turn k.  A message and a step score are known by  *)
(* their turn too.  The text of calls, results and scores is left out:     *)
(* what the model says, which calls the parser finds in it and how long    *)
(* results are is a choice.  A tool that raises answers with an error text *)
(* and is scored like any other (_call_tool).                              *)
(***************************************************************************)
EXTENDS Integers, FiniteSets, SequencesExt, Ordered

CONSTANTS PromptLength,        \* rollout.prompt_length
          ResponseLength,      \* rollout.response_length
          MaxModelLen,         \* rollout.max_model_len
          MaxAssistantTurns,   \* max_assistant_turns, 0 for no limit
          MaxUserTurns,        \* max_user_turns, 0 for no limit
          MaxParallelCalls,    \* max_parallel_calls
          PromptLengths,       \* tokens of the prompts of the data set
          BlockLengths,        \* tokens of the results of a turn, or of a user message
          CallCounts           \* tool calls the parser may find in a turn

ASSUME LengthsAssumption ==
    /\ PromptLength \in Nat /\ ResponseLength \in Nat \ {0}
    /\ MaxModelLen \in Nat /\ MaxModelLen >= PromptLength + ResponseLength
    /\ MaxAssistantTurns \in Nat /\ MaxUserTurns \in Nat
    /\ MaxParallelCalls \in Nat \ {0}

\* the data set drops prompts that are too long (data.filter_overlong_prompts);
\* a chat template adds at least the tokens of its headers to a message
ASSUME InputsAssumption ==
    /\ PromptLengths \subseteq 1 .. PromptLength
    /\ BlockLengths \subseteq Nat \ {0}
    /\ CallCounts \subseteq Nat

VARIABLES state,              \* AgentState
          interactive,        \* an interaction_config_file is set
          log_probs,          \* the servers return log probabilities
          prompt_ids, response_mask, response_logprobs,
          assistant_turns, user_turns,
          tool_calls,         \* the number of calls found in the last turn
          messages,           \* role and turn of the messages after the prompt
          anchor_obs_list,    \* messages standing before each turn
          pending_step_scores \* index within its turn, and turn, of each score

config == <<interactive, log_probs>>
tokens == <<prompt_ids, response_mask, response_logprobs>>
turns == <<assistant_turns, user_turns>>
steps == <<messages, anchor_obs_list, pending_step_scores>>
vars == <<state, config, tokens, turns, tool_calls, steps>>

Smaller(m, n) == IF m < n THEN m ELSE n
Repeat(v, n) == [i \in 1 .. n |-> v]

Init ==
    /\ state = "pending"
    /\ interactive \in BOOLEAN /\ log_probs \in BOOLEAN
    /\ prompt_ids = << >> /\ response_mask = << >> /\ response_logprobs = << >>
    /\ assistant_turns = 0 /\ user_turns = 0
    /\ tool_calls = 0
    /\ messages = << >> /\ anchor_obs_list = << >> /\ pending_step_scores = << >>

-----------------------------------------------------------------------------
(***************************************************************************)
(* The handlers                                                            *)
(***************************************************************************)
Pending(n) ==
    /\ state = "pending"
    /\ prompt_ids' = Repeat(0, n)
    /\ state' = "generating"
    /\ UNCHANGED <<config, response_mask, response_logprobs, turns, tool_calls, steps>>

\* max_tokens of the server: what both lengths, and the model, leave
Room ==
    Smaller(ResponseLength + PromptLength - Len(prompt_ids),
            MaxModelLen - Len(prompt_ids))

\* mutant: the answer may be empty
AnswersOrNone == 0 .. Room

\* the lengths of an answer: at least the end token, if there is room
Answers == IF Room > 0 THEN 1 .. Room ELSE {0}

\* the answer ends the trajectory, whatever it says
LimitReached ==
    \/ Len(response_mask') >= ResponseLength
    \/ MaxAssistantTurns > 0 /\ assistant_turns' >= MaxAssistantTurns
    \/ MaxUserTurns > 0 /\ user_turns >= MaxUserTurns

\* mutant: an answer without calls is always answered
DecisionInteractive(c) == IF c > 0 THEN "processing_tools" ELSE "interacting"

\* what follows an answer in which the parser found c calls
Decision(c) == IF c > 0 THEN "processing_tools"
               ELSE IF interactive THEN "interacting" ELSE "terminated"

\* an answer of n tokens, in which the parser would find c calls.  The cut that
\* the search_r1 format makes in the ids alone is left out: no such parser is
\* registered in tool_parser.py, so that branch cannot be reached
Generate(n, c) ==
    LET turn == assistant_turns + 1
    IN  /\ state = "generating"
        /\ Len(prompt_ids) <= MaxModelLen
        /\ n \in Answers
        /\ n = 0 => c = 0
        /\ anchor_obs_list' = Append(anchor_obs_list, Len(messages))
        /\ assistant_turns' = turn
        /\ prompt_ids' = prompt_ids \o Repeat(turn, n)
        /\ response_mask' = response_mask \o Repeat(1, n)
        /\ response_logprobs' = IF log_probs
                                THEN response_logprobs \o Repeat(turn, n)
                                ELSE response_logprobs
        /\ IF LimitReached
           THEN /\ state' = "terminated"
                /\ UNCHANGED <<tool_calls, messages>>
           ELSE /\ tool_calls' = c
                /\ messages' = IF interactive
                               THEN Append(messages, [role |-> "assistant", turn |-> turn])
                               ELSE messages
                /\ state' = Decision(c)
        /\ UNCHANGED <<config, user_turns, pending_step_scores>>

\* the server refuses a prompt beyond the model's context
GenerateRaises ==
    /\ state = "generating"
    /\ Len(prompt_ids) > MaxModelLen
    /\ state' = "raised"
    /\ UNCHANGED <<config, tokens, turns, tool_calls, steps>>

\* the calls that are made: tool_calls[:max_parallel_calls]
Calls == Smaller(tool_calls, MaxParallelCalls)

\* _submit_step_score of every call of the turn
Scores == [i \in 1 .. Calls |-> [idx |-> i - 1, turn |-> assistant_turns]]

Results == Repeat([role |-> "tool", turn |-> assistant_turns], Calls)

\* mutant: > for >=
OverflowsAlone(r) == Len(response_mask) + r > ResponseLength

Overflows(r) == Len(response_mask) + r >= ResponseLength

\* mutant: log probabilities are not padded
AppendUnpadded(r) ==
    /\ prompt_ids' = prompt_ids \o Repeat(-assistant_turns, r)
    /\ response_mask' = response_mask \o Repeat(0, r)
    /\ UNCHANGED response_logprobs

\* a block of r tokens that the model did not generate
AppendBlock(r) ==
    /\ prompt_ids' = prompt_ids \o Repeat(-assistant_turns, r)
    /\ response_mask' = response_mask \o Repeat(0, r)
    /\ response_logprobs' = IF response_logprobs # << >>
                            THEN response_logprobs \o Repeat(0, r)
                            ELSE response_logprobs

\* the calls return, their results have r tokens
ProcessTools(r) ==
    /\ state = "processing_tools"
    /\ pending_step_scores' = pending_step_scores \o Scores
    /\ messages' = messages \o Results
    /\ IF Overflows(r)
       THEN /\ state' = "terminated"
            /\ UNCHANGED <<tokens, user_turns>>
       ELSE /\ AppendBlock(r)
            /\ user_turns' = user_turns + 1
            /\ state' = "generating"
    /\ UNCHANGED <<config, assistant_turns, tool_calls, anchor_obs_list>>

\* the interaction answers with r tokens, and may want to end
Interact(r, should_terminate_sequence) ==
    /\ state = "interacting"
    /\ user_turns' = user_turns + 1
    /\ messages' = Append(messages, [role |-> "user", turn |-> assistant_turns])
    /\ AppendBlock(r)
    /\ state' = IF should_terminate_sequence THEN "terminated" ELSE "generating"
    /\ UNCHANGED <<config, assistant_turns, tool_calls, anchor_obs_list,
                   pending_step_scores>>

Next ==
    \/ \E n \in PromptLengths : Pending(n)
    \/ \E n \in 0 .. MaxModelLen, c \in CallCounts : Generate(n, c)
    \/ GenerateRaises
    \/ \E r \in BlockLengths : ProcessTools(r)
    \/ \E r \in BlockLengths, stop \in BOOLEAN : Interact(r, stop)

Spec == Init /\ [][Next]_vars

-----------------------------------------------------------------------------
(***************************************************************************)
(* The output and its use                                                  *)
(***************************************************************************)
\* prompt_ids[-len(response_mask):], where -0 is the whole list
ResponseIds ==
    LET start == IF response_mask = << >> THEN 0
                 ELSE Len(prompt_ids) - Len(response_mask)
        ids == SubSeq(prompt_ids, start + 1, Len(prompt_ids))
    IN  SubSeq(ids, 1, Smaller(Len(ids), ResponseLength))

ResponseMask == SubSeq(response_mask, 1, Smaller(Len(response_mask), ResponseLength))

\* the last valid token of the response, where rm_scores has the reward
RewardAt == Len(ResponseIds)

\* the blocks of ones in a mask, each with its first and last place
StepBoundaries(mask) ==
    LET one(t) == t \in DOMAIN mask /\ mask[t] = 1
        starts == {t \in DOMAIN mask : one(t) /\ ~one(t - 1)}
        ends == {t \in DOMAIN mask : one(t) /\ ~one(t + 1)}
        first == InOrder(starts)
        last == InOrder(ends)
    IN  [k \in DOMAIN first |-> <<first[k], last[k]>>]

\* mutant: the entries are not sorted
StepScoresUnsorted == pending_step_scores

\* the places of the entries with an index
ScoresAt(idx) ==
    {j \in DOMAIN pending_step_scores : pending_step_scores[j].idx = idx}

\* per_sample_entries sorted by idx; the sort is stable
StepScores ==
    FlattenSeq([i \in 1 .. MaxParallelCalls |->
                  Picked(pending_step_scores, ScoresAt(i - 1))])

-----------------------------------------------------------------------------
(***************************************************************************)
(* Properties                                                              *)
(***************************************************************************)
States == {"pending", "generating", "processing_tools", "interacting", "terminated",
           "raised"}

\* Every field of the agent data has its type; a turn has tool calls when
\* they are processed, and only an interactive run interacts, or outgrows the
\* context of the model (AgentData, _handle_*_state).
TypeOK ==
    /\ state \in States
    /\ interactive \in BOOLEAN /\ log_probs \in BOOLEAN
    /\ prompt_ids \in Seq(Int)
    /\ response_mask \in Seq({0, 1})
    /\ response_logprobs \in Seq(Nat)
    /\ assistant_turns \in Nat /\ user_turns \in Nat /\ tool_calls \in Nat
    /\ user_turns <= assistant_turns
    /\ state = "processing_tools" => tool_calls > 0
    /\ state \in {"interacting", "raised"} => interactive

\* The three lists that grow together in three handlers stay aligned: the
\* mask covers all but the prompt, is 1 just on the tokens the model
\* generated, and log probabilities, if any, belong to the tokens they stand
\* beside.
TokensAligned ==
    LET start == Len(prompt_ids) - Len(response_mask)
    IN  /\ start >= 0
        /\ \A i \in 1 .. start : prompt_ids[i] = 0
        /\ \A i \in DOMAIN response_mask :
              (response_mask[i] = 1) <=> (prompt_ids[start + i] > 0)
        /\ log_probs => /\ Len(response_logprobs) = Len(response_mask)
                        /\ \A i \in DOMAIN response_logprobs :
                              response_logprobs[i] =
                                 IF response_mask[i] = 1 THEN prompt_ids[start + i] ELSE 0

\* Without interactions the last token of the response, which gets the
\* reward, was generated by the model, wherever the length limits cut: a
\* reward on a tool token would be masked out.
RewardOnGenerated ==
    state = "terminated" /\ ~interactive
        => /\ RewardAt \in DOMAIN ResponseMask
           /\ ResponseMask[RewardAt] = 1

\* The estimators find the turns of a trajectory again: the k-th block of the
\* cut mask is turn k, its anchor observation shows just the messages of the
\* turns before, and the k-th score of the merged list, for a turn that called
\* tools, is a score of turn k, with any number of parallel calls.
StepsMeetTheirData ==
    LET blocks == StepBoundaries(ResponseMask)
    IN  state = "terminated" /\ ~interactive
        => /\ Len(blocks) = assistant_turns
           /\ Len(anchor_obs_list) = assistant_turns
           /\ \A k \in DOMAIN blocks :
                 /\ \A i \in blocks[k][1] .. blocks[k][2] : ResponseIds[i] = k
                 /\ \A j \in DOMAIN messages :
                       (j <= anchor_obs_list[k]) <=> (messages[j].turn < k)
                 /\ (\E e \in Range(pending_step_scores) : e.turn = k)
                       => k <= Len(StepScores) /\ StepScores[k].turn = k
=============================================================================
