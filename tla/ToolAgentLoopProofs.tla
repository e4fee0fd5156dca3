-------------------------- MODULE ToolAgentLoopProofs --------------------------
(***************************************************************************)
(* Proofs about the module ToolAgentLoop, for all lengths and limits: the  *)
(* types of the agent data, the alignment of tokens, mask and log          *)
(* probabilities, that the reward falls on a generated token, that the     *)
(* estimators find the turns again, and how long a trajectory can get.     *)
(***************************************************************************)
EXTENDS ToolAgentLoop, OrderedFacts

\* the prompt keeps to its length: all the tokens beyond it are in the mask
PromptInv == Len(prompt_ids) - Len(response_mask) <= PromptLength

\* nothing has happened before the prompt is there
StartInv ==
    state = "pending" => /\ prompt_ids = << >> /\ response_mask = << >>
                         /\ response_logprobs = << >>

\* a turn of the user follows every turn of the assistant but the last
TurnsInv ==
    /\ state \in {"pending", "generating"} => user_turns = assistant_turns
    /\ state \in {"processing_tools", "interacting"}
          => user_turns = assistant_turns - 1

\* without interactions there is room in the response for another turn
RoomInv == state = "generating" /\ ~interactive => Len(response_mask) < ResponseLength

\* what is processed or answered is a turn that ended within the response
LastInv ==
    state \in {"processing_tools", "interacting"}
        => /\ Len(response_mask) \in 1 .. (ResponseLength - 1)
           /\ response_mask[Len(response_mask)] = 1

\* the last token within the response is one of the model's
EndInv ==
    state = "terminated" /\ ~interactive
        => /\ Len(response_mask) > 0
           /\ response_mask[Smaller(Len(response_mask), ResponseLength)] = 1

Shape == PromptInv /\ StartInv /\ TurnsInv /\ RoomInv /\ LastInv /\ EndInv

IInv == TypeOK /\ TokensAligned /\ Shape

-----------------------------------------------------------------------------
(***************************************************************************)
(* Growing the lists                                                       *)
(***************************************************************************)
\* t is s, of length c, and n times v after it
Extends(t, s, c, n, v) ==
    /\ \A i \in 1 .. c : t[i] = s[i]
    /\ \A i \in (c + 1) .. (c + n) : t[i] = v

\* tokens p, of length a, are aligned with a mask m of length c
Aligned(p, m, a, c) ==
    /\ \A i \in 1 .. (a - c) : p[i] = 0
    /\ \A i \in 1 .. c : (m[i] = 1) <=> (p[a - c + i] > 0)

\* log probabilities g are aligned with both
Logged(p, m, g, a, c) ==
    \A i \in 1 .. c : g[i] = IF m[i] = 1 THEN p[a - c + i] ELSE 0

LEMMA RepeatFacts ==
  ASSUME NEW S, NEW v \in S, NEW n \in Nat
  PROVE  /\ Repeat(v, n) \in Seq(S)
         /\ Len(Repeat(v, n)) = n
         /\ \A i \in 1 .. n : Repeat(v, n)[i] = v
  BY DEF Repeat

LEMMA ConcatRepeat ==
  ASSUME NEW S, NEW s \in Seq(S), NEW v \in S, NEW n \in Nat,
         NEW t, t = s \o Repeat(v, n)
  PROVE  /\ t \in Seq(S)
         /\ Len(t) = Len(s) + n
         /\ Extends(t, s, Len(s), n, v)
  <1>1. Len(s) \in Nat
    BY LenProperties
  <1>2. /\ Repeat(v, n) \in Seq(S) /\ Len(Repeat(v, n)) = n
        /\ \A i \in 1 .. n : Repeat(v, n)[i] = v
    BY RepeatFacts
  <1>3. /\ s \o Repeat(v, n) \in Seq(S)
        /\ Len(s \o Repeat(v, n)) = Len(s) + Len(Repeat(v, n))
        /\ \A i \in 1 .. Len(s) + Len(Repeat(v, n)) : (s \o Repeat(v, n))[i] =
              IF i <= Len(s) THEN s[i] ELSE Repeat(v, n)[i - Len(s)]
    BY <1>2, ConcatProperties
  <1> QED
    BY <1>1, <1>2, <1>3 DEF Extends

\* Growing both lists by n places keeps a token of the model at every 1 of
\* the mask, and nothing but the prompt before it.
LEMMA GrownMask ==
  ASSUME NEW p, NEW m, NEW q, NEW k, NEW a \in Nat, NEW c \in Nat,
         NEW n \in Nat, NEW v, NEW b,
         c <= a, (b = 1) <=> (v > 0),
         Extends(q, p, a, n, v), Extends(k, m, c, n, b), Aligned(p, m, a, c)
  PROVE  Aligned(q, k, a + n, c + n)
  <1>1. \A i \in 1 .. (a - c) : q[i] = 0
    BY DEF Extends, Aligned
  <1>2. ASSUME NEW i \in 1 .. (c + n)
        PROVE  (k[i] = 1) <=> (q[a - c + i] > 0)
    <2>1. CASE i <= c
      <3>1. i \in 1 .. c /\ a - c + i \in 1 .. a
        BY <2>1
      <3>2. k[i] = m[i] /\ q[a - c + i] = p[a - c + i]
        BY <3>1 DEF Extends
      <3> QED
        BY <3>1, <3>2 DEF Aligned
    <2>2. CASE i > c
      <3>1. i \in (c + 1) .. (c + n) /\ a - c + i \in (a + 1) .. (a + n)
        BY <2>2
      <3>2. k[i] = b /\ q[a - c + i] = v
        BY <3>1 DEF Extends
      <3> QED
        BY <3>2
    <2> QED
      BY <2>1, <2>2
  <1>3. (a + n) - (c + n) = a - c
    OBVIOUS
  <1> QED
    BY <1>1, <1>2, <1>3 DEF Aligned

\* The same of the log probabilities beside the mask.
LEMMA GrownLog ==
  ASSUME NEW p, NEW m, NEW g, NEW q, NEW k, NEW h, NEW a \in Nat, NEW c \in Nat,
         NEW n \in Nat, NEW v, NEW b, NEW l,
         c <= a, l = IF b = 1 THEN v ELSE 0,
         Extends(q, p, a, n, v), Extends(k, m, c, n, b), Extends(h, g, c, n, l),
         Logged(p, m, g, a, c)
  PROVE  Logged(q, k, h, a + n, c + n)
  <1>1. ASSUME NEW i \in 1 .. (c + n)
        PROVE  h[i] = IF k[i] = 1 THEN q[a - c + i] ELSE 0
    <2>1. CASE i <= c
      <3>1. i \in 1 .. c /\ a - c + i \in 1 .. a
        BY <2>1
      <3>2. k[i] = m[i] /\ q[a - c + i] = p[a - c + i] /\ h[i] = g[i]
        BY <3>1 DEF Extends
      <3> QED
        BY <3>1, <3>2 DEF Logged
    <2>2. CASE i > c
      <3>1. i \in (c + 1) .. (c + n) /\ a - c + i \in (a + 1) .. (a + n)
        BY <2>2
      <3>2. k[i] = b /\ q[a - c + i] = v /\ h[i] = l
        BY <3>1 DEF Extends
      <3> QED
        BY <3>2
    <2> QED
      BY <2>1, <2>2
  <1>2. (a + n) - (c + n) = a - c
    OBVIOUS
  <1> QED
    BY <1>1, <1>2 DEF Logged

\* The three lists grow by n tokens v, with b in the mask (v and b as in a
\* turn of the model or a block of results).
Grow(n, v, b) ==
    /\ prompt_ids' = prompt_ids \o Repeat(v, n)
    /\ response_mask' = response_mask \o Repeat(b, n)
    /\ log_probs' = log_probs
    /\ log_probs => response_logprobs' =
                       response_logprobs \o Repeat(IF b = 1 THEN v ELSE 0, n)

\* the types of the lists
ListsOK ==
    /\ prompt_ids \in Seq(Int) /\ response_mask \in Seq({0, 1})
    /\ response_logprobs \in Seq(Nat)

LEMMA AlignedTokens ==
  ASSUME ListsOK
  PROVE  TokensAligned <=>
           /\ Len(response_mask) <= Len(prompt_ids)
           /\ Aligned(prompt_ids, response_mask, Len(prompt_ids), Len(response_mask))
           /\ log_probs =>
                /\ Len(response_logprobs) = Len(response_mask)
                /\ Logged(prompt_ids, response_mask, response_logprobs,
                          Len(prompt_ids), Len(response_mask))
  <1>1. /\ prompt_ids \in Seq(Int) /\ response_mask \in Seq({0, 1})
        /\ response_logprobs \in Seq(Nat)
    BY DEF ListsOK
  <1>2. /\ Len(prompt_ids) \in Nat /\ Len(response_mask) \in Nat
        /\ DOMAIN response_mask = 1 .. Len(response_mask)
        /\ DOMAIN response_logprobs = 1 .. Len(response_logprobs)
    BY <1>1, LenProperties
  <1>3. Len(response_mask) <= Len(prompt_ids)
          <=> Len(prompt_ids) - Len(response_mask) >= 0
    BY <1>2
  <1> QED
    BY <1>2, <1>3 DEF TokensAligned, Aligned, Logged

LEMMA Grown ==
  ASSUME ListsOK, TokensAligned,
         NEW n \in Nat, NEW v \in Int, NEW b \in {0, 1}, (b = 1) <=> (v > 0),
         Grow(n, v, b)
  PROVE  /\ prompt_ids' \in Seq(Int)
         /\ response_mask' \in Seq({0, 1})
         /\ log_probs => response_logprobs' \in Seq(Nat)
         /\ Len(response_mask) \in Nat
         /\ Len(prompt_ids) \in Nat
         /\ Len(prompt_ids') = Len(prompt_ids) + n
         /\ Len(response_mask') = Len(response_mask) + n
         /\ Extends(prompt_ids', prompt_ids, Len(prompt_ids), n, v)
         /\ Extends(response_mask', response_mask, Len(response_mask), n, b)
         /\ TokensAligned'
  <1> DEFINE a == Len(prompt_ids)
             c == Len(response_mask)
             l == IF b = 1 THEN v ELSE 0
             Lists(p, m, g) ==
               /\ Len(m) <= Len(p)
               /\ Aligned(p, m, Len(p), Len(m))
               /\ log_probs => Len(g) = Len(m) /\ Logged(p, m, g, Len(p), Len(m))
  <1>1. /\ prompt_ids \in Seq(Int) /\ response_mask \in Seq({0, 1})
        /\ response_logprobs \in Seq(Nat)
    BY DEF ListsOK
  <1>2. a \in Nat /\ c \in Nat
    BY <1>1, LenProperties
  <1>3. Lists(prompt_ids, response_mask, response_logprobs)
    BY AlignedTokens
  <1>4. /\ prompt_ids' \in Seq(Int)
        /\ Len(prompt_ids') = a + n
        /\ Extends(prompt_ids', prompt_ids, a, n, v)
    <2>1. prompt_ids' = prompt_ids \o Repeat(v, n)
      BY DEF Grow
    <2>2. /\ prompt_ids \o Repeat(v, n) \in Seq(Int)
          /\ Len(prompt_ids \o Repeat(v, n)) = a + n
          /\ Extends(prompt_ids \o Repeat(v, n), prompt_ids, a, n, v)
      BY <1>1, ConcatRepeat, ZenonT(30)
    <2> QED
      BY <2>1, <2>2
  <1>5. /\ response_mask' \in Seq({0, 1})
        /\ Len(response_mask') = c + n
        /\ Extends(response_mask', response_mask, c, n, b)
    <2>1. response_mask' = response_mask \o Repeat(b, n)
      BY DEF Grow
    <2> DEFINE Bits == {0, 1}
    <2>2. b \in Bits /\ response_mask \in Seq(Bits)
      BY <1>1
    <2> HIDE DEF Bits
    <2>3. /\ response_mask \o Repeat(b, n) \in Seq(Bits)
          /\ Len(response_mask \o Repeat(b, n)) = c + n
          /\ Extends(response_mask \o Repeat(b, n), response_mask, c, n, b)
      BY <2>2, ConcatRepeat, ZenonT(30)
    <2> QED
      BY <2>1, <2>3 DEF Bits
  <1>6. ASSUME log_probs
        PROVE  /\ response_logprobs' \in Seq(Nat)
               /\ Len(response_logprobs') = c + n
               /\ Extends(response_logprobs', response_logprobs, c, n, l)
    <2>1. l \in Nat
      OBVIOUS
    <2>2. response_logprobs' = response_logprobs \o Repeat(l, n)
      BY <1>6 DEF Grow
    <2>3. Len(response_logprobs) = c
      BY <1>3, <1>6
    <2> HIDE DEF l
    <2>4. /\ response_logprobs \o Repeat(l, n) \in Seq(Nat)
          /\ Len(response_logprobs \o Repeat(l, n)) = Len(response_logprobs) + n
          /\ Extends(response_logprobs \o Repeat(l, n), response_logprobs,
                     Len(response_logprobs), n, l)
      BY <1>1, <2>1, ConcatRepeat, ZenonT(30)
    <2> QED
      BY <2>2, <2>3, <2>4
  <1>7. Aligned(prompt_ids', response_mask', a + n, c + n)
    <2> HIDE DEF a, c
    <2>1. c <= a /\ Aligned(prompt_ids, response_mask, a, c)
      BY <1>3 DEF a, c
    <2> QED
      BY <1>2, <1>4, <1>5, <2>1, GrownMask, ZenonT(30)
  <1>8. ASSUME log_probs
        PROVE  Logged(prompt_ids', response_mask', response_logprobs', a + n, c + n)
    <2> HIDE DEF a, c
    <2>1. c <= a /\ Logged(prompt_ids, response_mask, response_logprobs, a, c)
      BY <1>3, <1>8 DEF a, c
    <2>2. l = IF b = 1 THEN v ELSE 0
      OBVIOUS
    <2> HIDE DEF l
    <2>3. Extends(response_logprobs', response_logprobs, c, n, l)
      BY <1>6, <1>8
    <2> QED
      BY <1>2, <1>4, <1>5, <2>1, <2>2, <2>3, GrownLog, ZenonT(30)
  <1> HIDE DEF l
  <1>9. DOMAIN response_mask' = 1 .. (c + n)
    BY <1>5, LenProperties
  <1>10. TokensAligned'
    <2> HIDE DEF a, c
    <2>1. Len(prompt_ids') - Len(response_mask') = a - c
      BY <1>2, <1>4, <1>5
    <2>2. a - c >= 0 /\ (a + n) - (c + n) = a - c
      BY <1>2, <1>3 DEF a, c
    <2>3. /\ \A i \in 1 .. (a - c) : prompt_ids'[i] = 0
          /\ \A i \in DOMAIN response_mask' :
                (response_mask'[i] = 1) <=> (prompt_ids'[a - c + i] > 0)
      BY <1>7, <1>9, <2>2 DEF Aligned
    <2>4. ASSUME log_probs
          PROVE  /\ Len(response_logprobs') = Len(response_mask')
                 /\ \A i \in DOMAIN response_logprobs' : response_logprobs'[i] =
                       IF response_mask'[i] = 1 THEN prompt_ids'[a - c + i] ELSE 0
      <3>1. DOMAIN response_logprobs' = 1 .. (c + n)
        BY <1>6, <2>4, LenProperties
      <3> QED
        BY <1>5, <1>6, <1>8, <2>2, <2>4, <3>1 DEF Logged
    <2>5. log_probs' = log_probs
      BY DEF Grow
    <2> QED
      BY <2>1, <2>2, <2>3, <2>4, <2>5 DEF TokensAligned
  <1> QED
    BY <1>2, <1>4, <1>5, <1>6, <1>10

-----------------------------------------------------------------------------
(***************************************************************************)
(* The invariant                                                           *)
(***************************************************************************)
LEMMA SmallerFacts ==
  ASSUME NEW m \in Int, NEW n \in Int
  PROVE  /\ Smaller(m, n) \in {m, n}
         /\ Smaller(m, n) <= m /\ Smaller(m, n) <= n
  BY DEF Smaller

LEMMA SmallerPositive ==
  ASSUME NEW m, NEW n, m > 0, n > 0
  PROVE  Smaller(m, n) > 0
  BY DEF Smaller

LEMMA RoomPositive ==
  ASSUME NEW a, a = Len(prompt_ids),
         ResponseLength + PromptLength - a > 0, MaxModelLen - a > 0
  PROVE  Room > 0
  <1> DEFINE m == ResponseLength + PromptLength - a
             n == MaxModelLen - a
  <1>1. Room = Smaller(m, n)
    BY DEF Room
  <1>2. m > 0 /\ n > 0
    OBVIOUS
  <1> HIDE DEF m, n
  <1> QED
    BY <1>1, <1>2, SmallerPositive

LEMMA ListsTyped == TypeOK => ListsOK
  BY DEF TypeOK, ListsOK

LEMMA InitInv == Init => IInv
  <1> SUFFICES ASSUME Init PROVE IInv
    OBVIOUS
  <1> USE DEF Init
  <1>1. << >> \in Seq(Int) /\ << >> \in Seq({0, 1}) /\ << >> \in Seq(Nat)
        /\ Len(<< >>) = 0
    BY EmptySeq
  <1>2. TypeOK
    BY <1>1 DEF TypeOK, States
  <1>3. TokensAligned
    BY <1>1 DEF TokensAligned
  <1>4. Shape
    BY <1>1, LengthsAssumption DEF Shape, PromptInv, StartInv, TurnsInv, RoomInv, LastInv, EndInv
  <1> QED
    BY <1>2, <1>3, <1>4 DEF IInv

LEMMA PendingInv ==
  ASSUME IInv, NEW n \in PromptLengths, Pending(n)
  PROVE  IInv'
  <1>1. n \in Nat /\ n <= PromptLength
    BY LengthsAssumption, InputsAssumption
  <1>2. /\ prompt_ids' = Repeat(0, n) /\ state' = "generating"
        /\ response_mask' = << >> /\ response_logprobs' = << >>
        /\ UNCHANGED <<interactive, log_probs, assistant_turns, user_turns, tool_calls>>
        /\ user_turns = assistant_turns
    BY DEF Pending, IInv, Shape, StartInv, TurnsInv, config, turns
  <1>3. /\ prompt_ids' \in Seq(Int) /\ Len(prompt_ids') = n
        /\ \A i \in 1 .. n : prompt_ids'[i] = 0
    <2>1. 0 \in Int
      OBVIOUS
    <2>2. /\ Repeat(0, n) \in Seq(Int) /\ Len(Repeat(0, n)) = n
          /\ \A i \in 1 .. n : Repeat(0, n)[i] = 0
      BY <1>1, <2>1, RepeatFacts, ZenonT(30)
    <2> QED
      BY <1>2, <2>2
  <1>4. /\ << >> \in Seq({0, 1}) /\ << >> \in Seq(Nat) /\ Len(<< >>) = 0
        /\ DOMAIN << >> = 1 .. 0
    BY EmptySeq
  <1>5. TypeOK'
    BY <1>2, <1>3, <1>4 DEF TypeOK, IInv, States
  <1>6. TokensAligned'
    <2>1. Len(prompt_ids') - Len(response_mask') = n
      BY <1>1, <1>2, <1>3, <1>4
    <2> QED
      BY <2>1, <1>1, <1>2, <1>3, <1>4 DEF TokensAligned
  <1>7. Shape'
    <2>1. PromptInv'
      BY <1>1, <1>2, <1>3, <1>4 DEF PromptInv
    <2>2. StartInv' /\ TurnsInv' /\ LastInv' /\ EndInv'
      BY <1>2 DEF StartInv, TurnsInv, LastInv, EndInv
    <2>3. RoomInv'
      BY <1>2, <1>4, LengthsAssumption DEF RoomInv
    <2> QED
      BY <2>1, <2>2, <2>3 DEF Shape
  <1> QED
    BY <1>5, <1>6, <1>7 DEF IInv

LEMMA GenerateInv ==
  ASSUME IInv, NEW n \in 0 .. MaxModelLen, NEW c \in CallCounts, Generate(n, c)
  PROVE  IInv'
  <1> DEFINE turn == assistant_turns + 1
             a == Len(prompt_ids)
             l == Len(response_mask)
  <1>1. /\ ListsOK /\ TokensAligned /\ TypeOK /\ Shape
        /\ n \in Nat /\ c \in Nat /\ turn \in Nat /\ turn > 0 /\ turn \in Int
        /\ assistant_turns \in Nat
    BY ListsTyped, LengthsAssumption, InputsAssumption DEF IInv, TypeOK
  <1>2. Grow(n, turn, 1)
    BY DEF Generate, Grow, config
  <1>3. /\ prompt_ids' \in Seq(Int) /\ response_mask' \in Seq({0, 1})
        /\ log_probs => response_logprobs' \in Seq(Nat)
        /\ l \in Nat /\ a \in Nat
        /\ Len(prompt_ids') = a + n /\ Len(response_mask') = l + n
        /\ \A i \in (l + 1) .. (l + n) : response_mask'[i] = 1
        /\ TokensAligned'
    <2>1. (1 = 1) <=> (turn > 0)
      BY <1>1
    <2> HIDE DEF turn
    <2> QED
      BY <1>1, <1>2, <2>1, Grown DEF Extends
  <1>4. response_logprobs' \in Seq(Nat)
    <2>1. CASE log_probs
      BY <1>3, <2>1
    <2>2. CASE ~log_probs
      BY <2>2, <1>1 DEF Generate, ListsOK
    <2> QED
      BY <2>1, <2>2
  <1>5. /\ state = "generating" /\ n \in Answers
        /\ user_turns' = user_turns /\ assistant_turns' = turn
        /\ interactive' = interactive /\ log_probs' = log_probs
        /\ interactive \in BOOLEAN /\ log_probs \in BOOLEAN
        /\ user_turns = assistant_turns
    BY <1>1 DEF Generate, config, Shape, TurnsInv, TypeOK
  <1>6. l < ResponseLength => n > 0
    <2>1. ResponseLength + PromptLength - a > 0 /\ MaxModelLen - a > 0
             => Room > 0
      BY RoomPositive
    <2>2. a - l <= PromptLength
      BY <1>1 DEF Shape, PromptInv
    <2>3. l < ResponseLength => Room > 0
      BY <1>3, <2>1, <2>2, LengthsAssumption
    <2> QED
      BY <1>5, <2>3 DEF Answers
  <1>7. \/ state' = "terminated"
        \/ /\ state' = "processing_tools" /\ c > 0 /\ tool_calls' = c
           /\ l + n < ResponseLength
        \/ /\ state' = "interacting" /\ interactive /\ tool_calls' = c
           /\ l + n < ResponseLength
    <2>1. CASE LimitReached
      BY <2>1 DEF Generate
    <2>2. CASE ~LimitReached
      <3>1. l + n < ResponseLength
        BY <2>2, <1>1, <1>3, LengthsAssumption DEF LimitReached
      <3>2. tool_calls' = c /\ state' = Decision(c)
        BY <2>2 DEF Generate
      <3> QED
        BY <3>1, <3>2 DEF Decision
    <2> QED
      BY <2>1, <2>2
  <1>8. tool_calls' \in Nat
    BY <1>1 DEF Generate, TypeOK
  <1>9. TypeOK'
    BY <1>1, <1>3, <1>4, <1>5, <1>7, <1>8 DEF TypeOK, States
  <1>10. PromptInv' /\ StartInv' /\ TurnsInv' /\ RoomInv'
    <2>1. PromptInv'
      BY <1>1, <1>3, LengthsAssumption DEF PromptInv, Shape
    <2>2. StartInv' /\ RoomInv'
      BY <1>7 DEF StartInv, RoomInv
    <2>3. TurnsInv'
      BY <1>1, <1>5, <1>7 DEF TurnsInv
    <2> QED
      BY <2>1, <2>2, <2>3
  <1> HIDE DEF l, a
  <1>11. LastInv'
    <2> SUFFICES ASSUME l + n < ResponseLength
                 PROVE  /\ Len(response_mask') \in 1 .. (ResponseLength - 1)
                        /\ response_mask'[Len(response_mask')] = 1
      BY <1>7 DEF LastInv
    <2>1. l + n \in 1 .. (ResponseLength - 1) /\ l + n \in (l + 1) .. (l + n)
      BY <1>1, <1>3, <1>6, LengthsAssumption
    <2> QED
      BY <1>3, <2>1
  <1>12. EndInv'
    <2> SUFFICES ASSUME ~interactive
                 PROVE  /\ Len(response_mask') > 0
                        /\ response_mask'[Smaller(Len(response_mask'), ResponseLength)] = 1
      BY <1>5 DEF EndInv
    <2>1. l < ResponseLength
      BY <1>1, <1>5 DEF Shape, RoomInv, l
    <2>2. Smaller(l + n, ResponseLength) \in (l + 1) .. (l + n)
      BY <1>1, <1>3, <1>6, <2>1, LengthsAssumption DEF Smaller
    <2> QED
      BY <1>1, <1>3, <1>6, <2>1, <2>2
  <1> QED
    BY <1>3, <1>9, <1>10, <1>11, <1>12 DEF IInv, Shape

LEMMA GenerateRaisesInv ==
  ASSUME IInv, GenerateRaises
  PROVE  IInv'
  <1>1. /\ state = "generating" /\ state' = "raised"
        /\ Len(prompt_ids) > MaxModelLen
        /\ UNCHANGED <<interactive, log_probs, prompt_ids, response_mask,
                       response_logprobs, assistant_turns, user_turns, tool_calls>>
    BY DEF GenerateRaises, config, tokens, turns
  <1>2. interactive
    <2> SUFFICES ASSUME ~interactive PROVE FALSE
      OBVIOUS
    <2>1. Len(response_mask) \in Nat /\ Len(prompt_ids) \in Nat
      BY LenProperties DEF IInv, TypeOK
    <2>2. Len(response_mask) < ResponseLength
          /\ Len(prompt_ids) - Len(response_mask) <= PromptLength
      BY <1>1 DEF IInv, Shape, RoomInv, PromptInv
    <2> QED
      BY <1>1, <2>1, <2>2, LengthsAssumption
  <1>3. TypeOK' /\ TokensAligned'
    BY <1>1, <1>2 DEF IInv, TypeOK, TokensAligned, States
  <1>4. Shape'
    BY <1>1 DEF IInv, Shape, PromptInv, StartInv, TurnsInv, RoomInv, LastInv, EndInv
  <1> QED
    BY <1>3, <1>4 DEF IInv

\* What a block of results, or a message of the user, does to the lists.
LEMMA BlockGrown ==
  ASSUME IInv, NEW r \in BlockLengths, AppendBlock(r), log_probs' = log_probs,
         state \in {"processing_tools", "interacting"}
  PROVE  /\ ListsOK' /\ TokensAligned' /\ PromptInv'
         /\ r \in Nat
         /\ Len(response_mask) \in Nat
         /\ Len(response_mask') = Len(response_mask) + r
  <1>1. /\ ListsOK /\ TokensAligned /\ TypeOK /\ Shape
        /\ r \in Nat /\ assistant_turns \in Nat /\ -assistant_turns \in Int
    BY ListsTyped, InputsAssumption DEF IInv, TypeOK
  <1>2. log_probs => response_logprobs # << >>
    <2>1. Len(response_mask) > 0
      BY <1>1, LengthsAssumption DEF Shape, LastInv
    <2>2. log_probs => Len(response_logprobs) = Len(response_mask)
      BY <1>1 DEF TokensAligned
    <2> QED
      BY <2>1, <2>2, EmptySeq
  <1>3. Grow(r, -assistant_turns, 0)
    BY <1>2 DEF AppendBlock, Grow
  <1>4. /\ prompt_ids' \in Seq(Int) /\ response_mask' \in Seq({0, 1})
        /\ Len(response_mask) \in Nat /\ Len(prompt_ids) \in Nat
        /\ Len(prompt_ids') = Len(prompt_ids) + r
        /\ Len(response_mask') = Len(response_mask) + r
        /\ TokensAligned'
    <2>1. (0 = 1) <=> (-assistant_turns > 0)
      BY <1>1
    <2> QED
      BY <1>1, <1>3, <2>1, Grown
  <1>5. response_logprobs' \in Seq(Nat)
    <2>1. response_logprobs \o Repeat(0, r) \in Seq(Nat)
      BY <1>1, ConcatRepeat, ZenonT(30) DEF ListsOK
    <2> QED
      BY <1>1, <2>1 DEF AppendBlock, ListsOK
  <1>6. PromptInv'
    BY <1>1, <1>4, LengthsAssumption DEF Shape, PromptInv
  <1> QED
    BY <1>1, <1>4, <1>5, <1>6 DEF ListsOK

LEMMA ProcessToolsInv ==
  ASSUME IInv, NEW r \in BlockLengths, ProcessTools(r)
  PROVE  IInv'
  <1>1. /\ state = "processing_tools" /\ TypeOK /\ TokensAligned /\ Shape
        /\ UNCHANGED <<interactive, log_probs, assistant_turns, tool_calls>>
        /\ user_turns = assistant_turns - 1
        /\ assistant_turns \in Nat /\ user_turns \in Nat
    BY DEF ProcessTools, config, IInv, TypeOK, Shape, TurnsInv
  <1>2. CASE Overflows(r)
    <2>1. /\ state' = "terminated"
          /\ UNCHANGED <<prompt_ids, response_mask, response_logprobs, user_turns>>
      BY <1>2 DEF ProcessTools, tokens
    <2>2. TypeOK' /\ TokensAligned'
      BY <1>1, <2>1 DEF TypeOK, TokensAligned, States
    <2>3. PromptInv' /\ StartInv' /\ TurnsInv' /\ RoomInv' /\ LastInv'
      BY <1>1, <2>1 DEF Shape, PromptInv, StartInv, TurnsInv, RoomInv, LastInv
    <2>4. EndInv'
      <3>1. /\ Len(response_mask) \in 1 .. (ResponseLength - 1)
            /\ response_mask[Len(response_mask)] = 1
        BY <1>1 DEF Shape, LastInv
      <3>2. Smaller(Len(response_mask), ResponseLength) = Len(response_mask)
            /\ Len(response_mask) > 0
        BY <3>1, LengthsAssumption DEF Smaller
      <3> QED
        BY <2>1, <3>1, <3>2 DEF EndInv
    <2> QED
      BY <2>2, <2>3, <2>4 DEF IInv, Shape
  <1>3. CASE ~Overflows(r)
    <2>1. /\ state' = "generating" /\ AppendBlock(r) /\ user_turns' = user_turns + 1
      BY <1>3 DEF ProcessTools
    <2>2. /\ ListsOK' /\ TokensAligned' /\ PromptInv'
          /\ r \in Nat /\ Len(response_mask) \in Nat
          /\ Len(response_mask') = Len(response_mask) + r
      BY <1>1, <2>1, BlockGrown
    <2>3. TypeOK'
      BY <1>1, <2>1, <2>2 DEF TypeOK, ListsOK, States
    <2>4. RoomInv'
      BY <1>3, <2>2, LengthsAssumption DEF RoomInv, Overflows
    <2>5. StartInv' /\ TurnsInv' /\ LastInv' /\ EndInv'
      BY <1>1, <2>1 DEF StartInv, TurnsInv, LastInv, EndInv
    <2> QED
      BY <2>2, <2>3, <2>4, <2>5 DEF IInv, Shape
  <1> QED
    BY <1>2, <1>3

LEMMA InteractInv ==
  ASSUME IInv, NEW r \in BlockLengths, NEW stop \in BOOLEAN, Interact(r, stop)
  PROVE  IInv'
  <1>1. /\ state = "interacting" /\ TypeOK /\ Shape /\ interactive
        /\ state' \in {"terminated", "generating"}
        /\ AppendBlock(r) /\ user_turns' = user_turns + 1
        /\ UNCHANGED <<interactive, log_probs, assistant_turns, tool_calls>>
        /\ user_turns = assistant_turns - 1
        /\ assistant_turns \in Nat /\ user_turns \in Nat
    BY DEF Interact, config, IInv, TypeOK, Shape, TurnsInv
  <1>2. ListsOK' /\ TokensAligned' /\ PromptInv'
    BY <1>1, BlockGrown
  <1>3. TypeOK'
    BY <1>1, <1>2 DEF TypeOK, ListsOK, States
  <1>4. StartInv' /\ TurnsInv' /\ RoomInv' /\ LastInv' /\ EndInv'
    BY <1>1 DEF StartInv, TurnsInv, RoomInv, LastInv, EndInv
  <1> QED
    BY <1>2, <1>3, <1>4 DEF IInv, Shape

LEMMA NextInv == IInv /\ [Next]_vars => IInv'
  <1> SUFFICES ASSUME IInv, [Next]_vars PROVE IInv'
    OBVIOUS
  <1>1. CASE UNCHANGED vars
    BY <1>1 DEF vars, config, tokens, turns, steps, IInv, TypeOK, TokensAligned,
                Shape, PromptInv, StartInv, TurnsInv, RoomInv, LastInv, EndInv
  <1>2. ASSUME NEW n \in PromptLengths, Pending(n) PROVE IInv'
    BY <1>2, PendingInv
  <1>3. ASSUME NEW n \in 0 .. MaxModelLen, NEW c \in CallCounts, Generate(n, c)
        PROVE  IInv'
    BY <1>3, GenerateInv
  <1>4. CASE GenerateRaises
    BY <1>4, GenerateRaisesInv
  <1>5. ASSUME NEW r \in BlockLengths, ProcessTools(r) PROVE IInv'
    BY <1>5, ProcessToolsInv
  <1>6. ASSUME NEW r \in BlockLengths, NEW stop \in BOOLEAN, Interact(r, stop)
        PROVE  IInv'
    BY <1>6, InteractInv
  <1> QED
    BY <1>1, <1>2, <1>3, <1>4, <1>5, <1>6 DEF Next

LEMMA Invariance == Spec => []IInv
  BY InitInv, NextInv, PTL DEF Spec

-----------------------------------------------------------------------------
(***************************************************************************)
(* The steps of a trajectory: where its turns stand in the mask, which     *)
(* messages its observations show, and where its first scores are.         *)
(***************************************************************************)
\* Turns 1 .. m stand at the places f .. g of a mask s of length l, apart from
\* each other, and their tokens in p, of length a, carry their numbers.
TurnsStand(f, g, p, s, m, a, l) ==
    /\ f \in [1 .. m -> Nat] /\ g \in [1 .. m -> Nat]
    /\ \A k \in 1 .. m : 1 <= f[k] /\ f[k] <= g[k] /\ g[k] <= l
    /\ \A j, k \in 1 .. m : j < k => g[j] + 1 < f[k]
    /\ \A i \in 1 .. l :
          s[i] = 1 <=> \E k \in 1 .. m : f[k] <= i /\ i <= g[k]
    /\ \A k \in 1 .. m : \A i \in 1 .. l :
          f[k] <= i /\ i <= g[k] => p[a - l + i] = k

\* every turn begins within the response, and results end the last one
TurnsEnd(f, g) ==
    /\ \A k \in 1 .. assistant_turns : f[k] <= ResponseLength
    /\ state = "generating"
          => \A k \in 1 .. assistant_turns : g[k] < Len(response_mask)

\* without interactions the mask is made of the turns
BlocksInv ==
    ~interactive
        => \E f, g : /\ TurnsStand(f, g, prompt_ids, response_mask, assistant_turns,
                                   Len(prompt_ids), Len(response_mask))
                     /\ TurnsEnd(f, g)

StepsTyped ==
    /\ messages \in Seq([role : {"assistant", "tool", "user"}, turn : Nat])
    /\ anchor_obs_list \in Seq(Nat)
    /\ pending_step_scores \in Seq([idx : Nat, turn : Nat])

\* an anchor observation shows the messages of the turns before
AnchorsInv ==
    /\ Len(anchor_obs_list) = assistant_turns
    /\ \A k \in 1 .. assistant_turns : anchor_obs_list[k] <= Len(messages)
    /\ \A j \in 1 .. Len(messages) :
          /\ messages[j].turn <= assistant_turns
          /\ \A k \in 1 .. assistant_turns :
                j <= anchor_obs_list[k] <=> messages[j].turn < k

\* the first calls of turns 1 .. n were scored at the places z, in order
Scored(z, n, e) ==
    /\ z \in [1 .. n -> Nat]
    /\ \A j, k \in 1 .. n : j < k => z[j] < z[k]
    /\ \A k \in 1 .. n : /\ 1 <= z[k] /\ z[k] <= Len(e)
                         /\ e[z[k]].idx = 0 /\ e[z[k]].turn = k
    /\ \A i \in 1 .. Len(e) :
          /\ e[i].turn \in 1 .. n
          /\ e[i].idx = 0 => \E k \in 1 .. n : z[k] = i

\* the turns whose calls are scored: all that did not end the trajectory
ScoredTurns(n) ==
    /\ n <= assistant_turns
    /\ state = "generating" => n = assistant_turns
    /\ state = "processing_tools" => n = assistant_turns - 1

ScoresInv ==
    ~interactive
        => \E n \in Nat : /\ ScoredTurns(n)
                          /\ \E z : Scored(z, n, pending_step_scores)

NothingYet ==
    state = "pending" => /\ assistant_turns = 0 /\ messages = << >>
                         /\ anchor_obs_list = << >> /\ pending_step_scores = << >>

StepsInv == StepsTyped /\ BlocksInv /\ AnchorsInv /\ ScoresInv /\ NothingYet

\* A turn of n tokens after the last one.
LEMMA TurnAdded ==
  ASSUME NEW f, NEW g, NEW p, NEW s, NEW q, NEW t,
         NEW m \in Nat, NEW a \in Nat, NEW l \in Nat, NEW n \in Nat, n > 0, l <= a,
         TurnsStand(f, g, p, s, m, a, l), \A k \in 1 .. m : g[k] < l,
         Extends(q, p, a, n, m + 1), Extends(t, s, l, n, 1)
  PROVE  TurnsStand([k \in 1 .. (m + 1) |-> IF k = m + 1 THEN l + 1 ELSE f[k]],
                    [k \in 1 .. (m + 1) |-> IF k = m + 1 THEN l + n ELSE g[k]],
                    q, t, m + 1, a + n, l + n)
  <1> DEFINE F == [k \in 1 .. (m + 1) |-> IF k = m + 1 THEN l + 1 ELSE f[k]]
             G == [k \in 1 .. (m + 1) |-> IF k = m + 1 THEN l + n ELSE g[k]]
  <1>1. /\ \A k \in 1 .. m : /\ f[k] \in Nat /\ g[k] \in Nat
                             /\ 1 <= f[k] /\ f[k] <= g[k] /\ g[k] < l
                             /\ F[k] = f[k] /\ G[k] = g[k]
        /\ F[m + 1] = l + 1 /\ G[m + 1] = l + n
    BY DEF TurnsStand
  <1>2. ASSUME NEW k \in 1 .. (m + 1)
        PROVE  /\ F[k] \in Nat /\ G[k] \in Nat
               /\ 1 <= F[k] /\ F[k] <= G[k] /\ G[k] <= l + n
    <2>1. CASE k = m + 1
      BY <1>1, <2>1
    <2>2. CASE k # m + 1
      <3>1. k \in 1 .. m
        BY <2>2
      <3> HIDE DEF F, G
      <3> QED
        BY <1>1, <3>1
    <2> QED
      BY <2>1, <2>2
  <1>3. F \in [1 .. (m + 1) -> Nat] /\ G \in [1 .. (m + 1) -> Nat]
    BY <1>2
  <1> HIDE DEF F, G
  <1>4. ASSUME NEW j \in 1 .. (m + 1), NEW k \in 1 .. (m + 1), j < k
        PROVE  G[j] + 1 < F[k]
    <2>1. j \in 1 .. m
      BY <1>4
    <2>2. CASE k = m + 1
      BY <1>1, <2>1, <2>2
    <2>3. CASE k # m + 1
      <3>1. k \in 1 .. m
        BY <2>3
      <3> QED
        BY <1>1, <1>4, <2>1, <3>1 DEF TurnsStand
    <2> QED
      BY <2>2, <2>3
  <1>5. ASSUME NEW i \in 1 .. (l + n)
        PROVE  t[i] = 1 <=> \E k \in 1 .. (m + 1) : F[k] <= i /\ i <= G[k]
    <2>1. CASE i <= l
      <3>1. i \in 1 .. l /\ t[i] = s[i]
        BY <2>1 DEF Extends
      <3>2. s[i] = 1 <=> \E k \in 1 .. m : f[k] <= i /\ i <= g[k]
        BY <3>1 DEF TurnsStand
      <3>3. ASSUME NEW k \in 1 .. (m + 1), F[k] <= i
            PROVE  k \in 1 .. m
        BY <1>1, <2>1, <3>3
      <3>4. \A k \in 1 .. m : k \in 1 .. (m + 1)
        OBVIOUS
      <3> QED
        BY <1>1, <3>1, <3>2, <3>3, <3>4
    <2>2. CASE i > l
      <3>1. t[i] = 1
        BY <2>2 DEF Extends
      <3>2. m + 1 \in 1 .. (m + 1) /\ F[m + 1] <= i /\ i <= G[m + 1]
        BY <1>1, <2>2
      <3> QED
        BY <3>1, <3>2
    <2> QED
      BY <2>1, <2>2
  <1>6. ASSUME NEW k \in 1 .. (m + 1), NEW i \in 1 .. (l + n), F[k] <= i, i <= G[k]
        PROVE  q[(a + n) - (l + n) + i] = k
    <2>1. (a + n) - (l + n) + i = a - l + i
      OBVIOUS
    <2>2. CASE k = m + 1
      <3>1. i > l
        BY <1>1, <1>6, <2>2
      <3>2. a - l + i \in (a + 1) .. (a + n)
        BY <3>1
      <3> QED
        BY <2>1, <2>2, <3>2 DEF Extends
    <2>3. CASE k # m + 1
      <3>1. k \in 1 .. m
        BY <2>3
      <3>2. i \in 1 .. l /\ f[k] <= i /\ i <= g[k]
        BY <1>1, <1>6, <3>1
      <3>3. p[a - l + i] = k
        BY <3>1, <3>2 DEF TurnsStand
      <3>4. a - l + i \in 1 .. a
        BY <3>2
      <3> QED
        BY <2>1, <3>3, <3>4 DEF Extends
    <2> QED
      BY <2>2, <2>3
  <1>7. TurnsStand(F, G, q, t, m + 1, a + n, l + n)
    BY <1>2, <1>3, <1>4, <1>5, <1>6 DEF TurnsStand
  <1> QED
    BY <1>7 DEF F, G

\* Tokens that are not the model's leave the turns where they are.
LEMMA BlockAdded ==
  ASSUME NEW f, NEW g, NEW p, NEW s, NEW q, NEW t, NEW v,
         NEW m \in Nat, NEW a \in Nat, NEW l \in Nat, NEW n \in Nat, l <= a,
         TurnsStand(f, g, p, s, m, a, l),
         Extends(q, p, a, n, v), Extends(t, s, l, n, 0)
  PROVE  TurnsStand(f, g, q, t, m, a + n, l + n)
  <1>1. \A k \in 1 .. m : /\ f[k] \in Nat /\ g[k] \in Nat
                          /\ 1 <= f[k] /\ f[k] <= g[k] /\ g[k] <= l
    BY DEF TurnsStand
  <1>2. ASSUME NEW i \in 1 .. (l + n)
        PROVE  t[i] = 1 <=> \E k \in 1 .. m : f[k] <= i /\ i <= g[k]
    <2>1. CASE i <= l
      <3>1. i \in 1 .. l /\ t[i] = s[i]
        BY <2>1 DEF Extends
      <3> QED
        BY <3>1 DEF TurnsStand
    <2>2. CASE i > l
      <3>1. t[i] = 0
        BY <2>2 DEF Extends
      <3>2. \A k \in 1 .. m : ~ (i <= g[k])
        BY <1>1, <2>2
      <3> QED
        BY <3>1, <3>2
    <2> QED
      BY <2>1, <2>2
  <1>3. ASSUME NEW k \in 1 .. m, NEW i \in 1 .. (l + n), f[k] <= i, i <= g[k]
        PROVE  q[(a + n) - (l + n) + i] = k
    <2>1. i \in 1 .. l /\ (a + n) - (l + n) + i = a - l + i /\ a - l + i \in 1 .. a
      BY <1>1, <1>3
    <2>2. p[a - l + i] = k
      BY <1>3, <2>1 DEF TurnsStand
    <2> QED
      BY <2>1, <2>2 DEF Extends
  <1>4. /\ f \in [1 .. m -> Nat] /\ g \in [1 .. m -> Nat]
        /\ \A j, k \in 1 .. m : j < k => g[j] + 1 < f[k]
        /\ \A k \in 1 .. m : 1 <= f[k] /\ f[k] <= g[k] /\ g[k] <= l + n
    BY <1>1 DEF TurnsStand
  <1> QED
    BY <1>2, <1>3, <1>4 DEF TurnsStand

LEMMA StepsStart == Init => StepsInv
  <1> SUFFICES ASSUME Init PROVE StepsInv
    OBVIOUS
  <1>1. /\ state = "pending" /\ prompt_ids = << >> /\ response_mask = << >>
        /\ assistant_turns = 0 /\ messages = << >> /\ anchor_obs_list = << >>
        /\ pending_step_scores = << >>
    BY DEF Init
  <1>2. Len(<< >>) = 0 /\ \A S : << >> \in Seq(S)
    BY EmptySeq
  <1>3. StepsTyped /\ AnchorsInv /\ NothingYet
    BY <1>1, <1>2 DEF StepsTyped, AnchorsInv, NothingYet
  <1> DEFINE none == [k \in 1 .. 0 |-> 0]
  <1>4. none \in [1 .. 0 -> Nat]
    OBVIOUS
  <1>5. TurnsStand(none, none, prompt_ids, response_mask, 0, 0, 0) /\ TurnsEnd(none, none)
    BY <1>1, <1>4 DEF TurnsStand, TurnsEnd
  <1>6. Scored(none, 0, pending_step_scores) /\ ScoredTurns(0)
    BY <1>1, <1>2, <1>4 DEF Scored, ScoredTurns
  <1> HIDE DEF none
  <1>7. BlocksInv
    BY <1>1, <1>2, <1>5 DEF BlocksInv
  <1>8. ScoresInv
    BY <1>6 DEF ScoresInv
  <1> QED
    BY <1>3, <1>7, <1>8 DEF StepsInv

LEMMA PendingSteps ==
  ASSUME StepsInv, IInv, NEW n \in PromptLengths, Pending(n)
  PROVE  StepsInv'
  <1>1. /\ state = "pending" /\ state' = "generating"
        /\ response_mask = << >> /\ response_mask' = << >>
        /\ assistant_turns = 0 /\ assistant_turns' = 0
        /\ interactive' = interactive
        /\ messages' = << >> /\ anchor_obs_list' = << >> /\ pending_step_scores' = << >>
    BY DEF Pending, config, turns, steps, StepsInv, NothingYet, IInv, Shape, StartInv
  <1>2. Len(<< >>) = 0 /\ \A S : << >> \in Seq(S)
    BY EmptySeq
  <1>3. StepsTyped' /\ AnchorsInv' /\ NothingYet'
    BY <1>1, <1>2 DEF StepsTyped, AnchorsInv, NothingYet
  <1> DEFINE none == [k \in 1 .. 0 |-> 0]
  <1>4. none \in [1 .. 0 -> Nat]
    OBVIOUS
  <1>5. TurnsStand(none, none, prompt_ids', response_mask', 0, Len(prompt_ids'), 0)
        /\ TurnsEnd(none, none)'
    BY <1>1, <1>4 DEF TurnsStand, TurnsEnd
  <1>6. Scored(none, 0, pending_step_scores') /\ ScoredTurns(0)'
    BY <1>1, <1>2, <1>4 DEF Scored, ScoredTurns
  <1> HIDE DEF none
  <1>7. BlocksInv'
    BY <1>1, <1>2, <1>5 DEF BlocksInv
  <1>8. ScoresInv'
    BY <1>1, <1>6 DEF ScoresInv
  <1> QED
    BY <1>3, <1>7, <1>8 DEF StepsInv

\* What an answer does to the lists; there is one if the response has room.
LEMMA GenerateGrows ==
  ASSUME IInv, NEW n \in 0 .. MaxModelLen, NEW c \in CallCounts, Generate(n, c)
  PROVE  /\ n \in Nat /\ assistant_turns \in Nat
         /\ Len(prompt_ids) \in Nat /\ Len(response_mask) \in Nat
         /\ Len(response_mask) <= Len(prompt_ids)
         /\ Len(prompt_ids') = Len(prompt_ids) + n
         /\ Len(response_mask') = Len(response_mask) + n
         /\ Extends(prompt_ids', prompt_ids, Len(prompt_ids), n, assistant_turns + 1)
         /\ Extends(response_mask', response_mask, Len(response_mask), n, 1)
         /\ Len(response_mask) < ResponseLength => n > 0
  <1> DEFINE turn == assistant_turns + 1
             a == Len(prompt_ids)
             l == Len(response_mask)
  <1>1. /\ ListsOK /\ TokensAligned /\ TypeOK /\ Shape
        /\ n \in Nat /\ turn > 0 /\ turn \in Int /\ assistant_turns \in Nat
    BY ListsTyped, LengthsAssumption DEF IInv, TypeOK
  <1>2. Grow(n, turn, 1)
    BY DEF Generate, Grow, config
  <1>3. /\ l \in Nat /\ a \in Nat
        /\ Len(prompt_ids') = a + n /\ Len(response_mask') = l + n
        /\ Extends(prompt_ids', prompt_ids, a, n, turn)
        /\ Extends(response_mask', response_mask, l, n, 1)
    <2>1. (1 = 1) <=> (turn > 0)
      BY <1>1
    <2> HIDE DEF turn
    <2> QED
      BY <1>1, <1>2, <2>1, Grown
  <1>4. l <= a
    BY <1>1, <1>3 DEF TokensAligned
  <1>5. l < ResponseLength => n > 0
    <2>1. ResponseLength + PromptLength - a > 0 /\ MaxModelLen - a > 0
             => Room > 0
      BY RoomPositive
    <2>2. a - l <= PromptLength
      BY <1>1 DEF Shape, PromptInv
    <2>3. l < ResponseLength => Room > 0
      BY <1>3, <2>1, <2>2, LengthsAssumption
    <2> QED
      BY <2>3 DEF Answers, Generate
  <1> QED
    BY <1>1, <1>3, <1>4, <1>5

LEMMA GenerateSteps ==
  ASSUME IInv, StepsInv, NEW n \in 0 .. MaxModelLen, NEW c \in CallCounts, Generate(n, c)
  PROVE  StepsInv'
  <1> DEFINE m == assistant_turns
             a == Len(prompt_ids)
             l == Len(response_mask)
  <1>1. /\ n \in Nat /\ m \in Nat /\ a \in Nat /\ l \in Nat /\ l <= a
        /\ Len(prompt_ids') = a + n /\ Len(response_mask') = l + n
        /\ Extends(prompt_ids', prompt_ids, a, n, m + 1)
        /\ Extends(response_mask', response_mask, l, n, 1)
        /\ l < ResponseLength => n > 0
    BY GenerateGrows
  <1>2. /\ state = "generating" /\ assistant_turns' = m + 1
        /\ state' \in {"terminated", "processing_tools", "interacting"}
        /\ interactive' = interactive
        /\ anchor_obs_list' = Append(anchor_obs_list, Len(messages))
        /\ pending_step_scores' = pending_step_scores
        /\ \/ messages' = messages
           \/ messages' = Append(messages, [role |-> "assistant", turn |-> m + 1])
    BY DEF Generate, Decision, config
  <1>3. BlocksInv'
    <2> SUFFICES ASSUME ~interactive PROVE BlocksInv'
      BY <1>2 DEF BlocksInv
    <2>1. PICK f, g : /\ TurnsStand(f, g, prompt_ids, response_mask, m, a, l)
                      /\ TurnsEnd(f, g)
      BY DEF StepsInv, BlocksInv
    <2>2. l < ResponseLength /\ n > 0
      BY <1>1, <1>2 DEF IInv, Shape, RoomInv
    <2>3. \A k \in 1 .. m : g[k] < l /\ f[k] <= ResponseLength
      BY <1>2, <2>1 DEF TurnsEnd
    <2> DEFINE F == [k \in 1 .. (m + 1) |-> IF k = m + 1 THEN l + 1 ELSE f[k]]
               G == [k \in 1 .. (m + 1) |-> IF k = m + 1 THEN l + n ELSE g[k]]
    <2>4. TurnsStand(F, G, prompt_ids', response_mask', m + 1, a + n, l + n)
      <3> HIDE DEF a, l, m
      <3> QED
        BY <1>1, <2>1, <2>2, <2>3, TurnAdded
    <2>5. \A k \in 1 .. (m + 1) : F[k] <= ResponseLength
      BY <1>1, <2>2, <2>3, LengthsAssumption
    <2> HIDE DEF F, G
    <2>6. PICK F1, G1 : F1 = F /\ G1 = G
      OBVIOUS
    <2>7. TurnsEnd(F1, G1)'
      BY <1>2, <2>5, <2>6 DEF TurnsEnd
    <2>8. TurnsStand(F1, G1, prompt_ids', response_mask', assistant_turns',
                     Len(prompt_ids'), Len(response_mask'))
      BY <1>1, <1>2, <2>4, <2>6
    <2> QED
      BY <2>7, <2>8 DEF BlocksInv
  <1>4. /\ StepsTyped /\ AnchorsInv
        /\ Len(messages) \in Nat /\ Len(anchor_obs_list) = m
        /\ \A k \in 1 .. m : anchor_obs_list[k] \in Nat
        /\ \A j \in 1 .. Len(messages) : messages[j].turn \in Nat
    <2>1. StepsTyped /\ AnchorsInv
      BY DEF StepsInv
    <2>2. Len(anchor_obs_list) = m
      BY <2>1 DEF AnchorsInv
    <2>3. Len(messages) \in Nat /\ \A k \in 1 .. m : anchor_obs_list[k] \in Nat
      BY <2>1, <2>2, LenProperties, ElementOfSeq DEF StepsTyped
    <2>4. \A j \in 1 .. Len(messages) :
             messages[j] \in [role : {"assistant", "tool", "user"}, turn : Nat]
      BY <2>1, ElementOfSeq DEF StepsTyped
    <2> QED
      BY <2>1, <2>2, <2>3, <2>4
  <1>5. /\ anchor_obs_list' \in Seq(Nat) /\ Len(anchor_obs_list') = m + 1
        /\ anchor_obs_list'[m + 1] = Len(messages)
        /\ \A k \in 1 .. m : anchor_obs_list'[k] = anchor_obs_list[k]
    BY <1>1, <1>2, <1>4, AppendProperties DEF StepsTyped
  <1>6. /\ messages' \in Seq([role : {"assistant", "tool", "user"}, turn : Nat])
        /\ \A j \in 1 .. Len(messages) : messages'[j] = messages[j]
        /\ Len(messages') \in {Len(messages), Len(messages) + 1}
        /\ Len(messages') = Len(messages) + 1
             => messages'[Len(messages) + 1].turn = m + 1
    <2>1. CASE messages' = messages
      BY <1>4, <2>1 DEF StepsTyped
    <2>2. CASE messages' = Append(messages, [role |-> "assistant", turn |-> m + 1])
      <3> DEFINE e == [role |-> "assistant", turn |-> m + 1]
                 M == [role : {"assistant", "tool", "user"}, turn : Nat]
      <3>1. e \in M /\ e.turn = m + 1 /\ messages \in Seq(M)
        BY <1>1, <1>4 DEF StepsTyped
      <3> HIDE DEF e, M
      <3>2. /\ Append(messages, e) \in Seq(M)
            /\ Len(Append(messages, e)) = Len(messages) + 1
            /\ Append(messages, e)[Len(messages) + 1] = e
            /\ \A j \in 1 .. Len(messages) : Append(messages, e)[j] = messages[j]
        BY <3>1, AppendProperties
      <3> QED
        BY <2>2, <3>1, <3>2 DEF e, M
    <2> QED
      BY <1>2, <2>1, <2>2
  <1>7. StepsTyped'
    BY <1>2, <1>4, <1>5, <1>6 DEF StepsTyped
  <1>8. AnchorsInv'
    <2>1. ASSUME NEW k \in 1 .. (m + 1)
          PROVE  anchor_obs_list'[k] \in Nat /\ anchor_obs_list'[k] <= Len(messages)
      <3>1. CASE k = m + 1
        BY <1>4, <1>5, <3>1
      <3>2. CASE k # m + 1
        <4>1. k \in 1 .. m
          BY <1>1, <3>2
        <4> QED
          BY <1>4, <1>5, <4>1 DEF AnchorsInv
      <3> QED
        BY <3>1, <3>2
    <2>2. ASSUME NEW j \in 1 .. Len(messages')
          PROVE  /\ messages'[j].turn <= m + 1
                 /\ \A k \in 1 .. (m + 1) :
                       j <= anchor_obs_list'[k] <=> messages'[j].turn < k
      <3>1. CASE j \in 1 .. Len(messages)
        <4>1. /\ messages'[j] = messages[j] /\ messages[j].turn \in Nat
              /\ messages[j].turn <= m
          BY <1>4, <1>6, <3>1 DEF AnchorsInv
        <4>2. ASSUME NEW k \in 1 .. (m + 1)
              PROVE  j <= anchor_obs_list'[k] <=> messages[j].turn < k
          <5>1. CASE k = m + 1
            <6>1. j <= anchor_obs_list'[k]
              BY <1>4, <1>5, <3>1, <5>1
            <6>2. messages[j].turn < k
              BY <1>1, <4>1, <5>1
            <6> QED
              BY <6>1, <6>2
          <5>2. CASE k # m + 1
            <6>1. k \in 1 .. m
              BY <1>1, <5>2
            <6> QED
              BY <1>4, <1>5, <3>1, <6>1 DEF AnchorsInv
          <5> QED
            BY <5>1, <5>2
        <4>3. messages'[j].turn <= m + 1
          BY <1>1, <4>1
        <4> QED
          BY <4>1, <4>2, <4>3, Zenon
      <3>2. CASE j \notin 1 .. Len(messages)
        <4>1. j = Len(messages) + 1 /\ messages'[j].turn = m + 1
          BY <1>4, <1>6, <3>2
        <4>2. ASSUME NEW k \in 1 .. (m + 1)
              PROVE  ~ (j <= anchor_obs_list'[k]) /\ ~ (messages'[j].turn < k)
          <5>1. anchor_obs_list'[k] \in Nat /\ anchor_obs_list'[k] <= Len(messages)
            BY <2>1
          <5>2. ~ (j <= anchor_obs_list'[k])
            BY <1>4, <4>1, <5>1
          <5>3. ~ (messages'[j].turn < k)
            BY <1>1, <4>1
          <5> QED
            BY <5>2, <5>3
        <4>3. messages'[j].turn <= m + 1
          BY <1>1, <4>1
        <4> QED
          BY <4>2, <4>3, Zenon
      <3> QED
        BY <3>1, <3>2
    <2>3. Len(messages) <= Len(messages')
      BY <1>4, <1>6
    <2>4. \A k \in 1 .. (m + 1) : anchor_obs_list'[k] <= Len(messages')
      BY <1>4, <1>6, <2>1, <2>3
    <2> QED
      BY <1>2, <1>5, <2>2, <2>4 DEF AnchorsInv
  <1>9. ScoresInv'
    <2> SUFFICES ASSUME ~interactive PROVE ScoresInv'
      BY <1>2 DEF ScoresInv
    <2>1. PICK h \in Nat : /\ ScoredTurns(h)
                           /\ \E z : Scored(z, h, pending_step_scores)
      BY DEF StepsInv, ScoresInv
    <2>2. ScoredTurns(h)'
      BY <1>1, <1>2, <2>1 DEF ScoredTurns
    <2> QED
      BY <1>2, <2>1, <2>2 DEF ScoresInv
  <1> QED
    BY <1>2, <1>3, <1>7, <1>8, <1>9 DEF StepsInv, NothingYet

LEMMA GenerateRaisesSteps ==
  ASSUME StepsInv, GenerateRaises
  PROVE  StepsInv'
  <1>1. /\ state = "generating" /\ state' = "raised"
        /\ UNCHANGED <<interactive, prompt_ids, response_mask, assistant_turns,
                       messages, anchor_obs_list, pending_step_scores>>
    BY DEF GenerateRaises, config, tokens, turns, steps
  <1>2. StepsTyped' /\ AnchorsInv' /\ NothingYet'
    BY <1>1 DEF StepsInv, StepsTyped, AnchorsInv, NothingYet
  <1>3. \A f, g : TurnsEnd(f, g) => TurnsEnd(f, g)'
    BY <1>1 DEF TurnsEnd
  <1>4. BlocksInv'
    BY <1>1, <1>3 DEF StepsInv, BlocksInv
  <1>5. \A n : ScoredTurns(n) => ScoredTurns(n)'
    BY <1>1 DEF ScoredTurns
  <1>6. ScoresInv'
    BY <1>1, <1>5 DEF StepsInv, ScoresInv
  <1> QED
    BY <1>2, <1>4, <1>6 DEF StepsInv

\* Messages of the last turn are shown by none of the observations so far.
LEMMA AnchorsKept ==
  ASSUME StepsTyped, AnchorsInv, assistant_turns \in Nat,
         UNCHANGED <<assistant_turns, anchor_obs_list>>,
         Len(messages') \in Nat, Len(messages) <= Len(messages'),
         \A j \in 1 .. Len(messages) : messages'[j] = messages[j],
         \A j \in (Len(messages) + 1) .. Len(messages') :
            messages'[j].turn = assistant_turns
  PROVE  AnchorsInv'
  <1> DEFINE m == assistant_turns
  <1>1. Len(messages) \in Nat /\ Len(anchor_obs_list) = m
        /\ \A k \in 1 .. m : anchor_obs_list[k] \in Nat
                             /\ anchor_obs_list[k] <= Len(messages)
    <2>1. Len(anchor_obs_list) = m
      BY DEF AnchorsInv
    <2> QED
      BY <2>1, LenProperties, ElementOfSeq DEF StepsTyped, AnchorsInv
  <1>2. ASSUME NEW j \in 1 .. Len(messages')
        PROVE  /\ messages'[j].turn <= m
               /\ \A k \in 1 .. m : j <= anchor_obs_list[k] <=> messages'[j].turn < k
    <2>1. CASE j <= Len(messages)
      <3>1. j \in 1 .. Len(messages) /\ messages'[j] = messages[j]
        BY <1>1, <2>1
      <3> QED
        BY <3>1 DEF AnchorsInv
    <2>2. CASE j > Len(messages)
      <3>1. messages'[j].turn = m
        BY <1>1, <2>2
      <3> QED
        BY <1>1, <2>2, <3>1
    <2> QED
      BY <1>1, <2>1, <2>2
  <1>3. \A k \in 1 .. m : anchor_obs_list[k] <= Len(messages')
    BY <1>1
  <1> QED
    BY <1>1, <1>2, <1>3 DEF AnchorsInv

\* The scores of one turn more, of one call at least.
LEMMA ScoresAdded ==
  ASSUME NEW z, NEW h \in Nat, NEW S, NEW e \in Seq(S), NEW w, NEW c \in Nat, c > 0,
         Scored(z, h, e),
         Len(w) = Len(e) + c,
         \A i \in 1 .. Len(e) : w[i] = e[i],
         \A i \in 1 .. c : w[Len(e) + i] = [idx |-> i - 1, turn |-> h + 1]
  PROVE  Scored([k \in 1 .. (h + 1) |-> IF k = h + 1 THEN Len(e) + 1 ELSE z[k]],
                h + 1, w)
  <1> DEFINE Z == [k \in 1 .. (h + 1) |-> IF k = h + 1 THEN Len(e) + 1 ELSE z[k]]
             l == Len(e)
  <1>1. l \in Nat
    BY LenProperties
  <1>2. /\ \A k \in 1 .. h : /\ z[k] \in Nat /\ 1 <= z[k] /\ z[k] <= l
                             /\ Z[k] = z[k]
        /\ Z[h + 1] = l + 1
        /\ Z \in [1 .. (h + 1) -> Nat]
    BY <1>1 DEF Scored
  <1> HIDE DEF Z, l
  <1>3. \A i \in 1 .. l : w[i] = e[i]
    BY DEF l
  <1>4. \A i \in 1 .. c : /\ w[l + i] = [idx |-> i - 1, turn |-> h + 1]
                          /\ w[l + i].idx = i - 1 /\ w[l + i].turn = h + 1
    BY DEF l
  <1>5. ASSUME NEW j \in 1 .. (h + 1), NEW k \in 1 .. (h + 1), j < k
        PROVE  Z[j] < Z[k]
    <2>1. j \in 1 .. h
      BY <1>5
    <2>2. CASE k = h + 1
      <3>1. Z[j] = z[j] /\ z[j] <= l /\ z[j] \in Nat
        BY <1>2, <2>1
      <3>2. Z[k] = l + 1
        BY <1>2, <2>2
      <3> QED
        BY <1>1, <3>1, <3>2
    <2>3. CASE k # h + 1
      <3>1. k \in 1 .. h
        BY <2>3
      <3>2. z[j] < z[k]
        BY <1>5, <2>1, <3>1 DEF Scored
      <3>3. Z[j] = z[j] /\ Z[k] = z[k]
        BY <1>2, <2>1, <3>1
      <3> QED
        BY <3>2, <3>3
    <2> QED
      BY <2>2, <2>3
  <1>6. ASSUME NEW k \in 1 .. (h + 1)
        PROVE  /\ 1 <= Z[k] /\ Z[k] <= l + c
               /\ w[Z[k]].idx = 0 /\ w[Z[k]].turn = k
    <2>1. CASE k = h + 1
      <3>1. 1 \in 1 .. c
        OBVIOUS
      <3>2. w[l + 1].idx = 1 - 1 /\ w[l + 1].turn = h + 1
        BY <1>4, <3>1
      <3>3. Z[k] = l + 1 /\ 1 <= l + 1 /\ l + 1 <= l + c
        BY <1>1, <1>2, <2>1
      <3> QED
        BY <2>1, <3>2, <3>3
    <2>2. CASE k # h + 1
      <3>1. k \in 1 .. h
        BY <2>2
      <3>2. Z[k] \in 1 .. l
        <4>1. Z[k] = z[k] /\ z[k] \in Nat /\ 1 <= z[k] /\ z[k] <= l
          BY <1>2, <3>1
        <4> QED
          BY <1>1, <4>1
      <3>3. w[Z[k]] = e[Z[k]]
        BY <1>3, <3>2
      <3>4. Z[k] = z[k] /\ e[z[k]].idx = 0 /\ e[z[k]].turn = k
        BY <1>2, <3>1 DEF Scored
      <3>5. 1 <= Z[k] /\ Z[k] <= l + c
        BY <1>1, <3>2
      <3> QED
        BY <3>3, <3>4, <3>5
    <2> QED
      BY <2>1, <2>2
  <1>7. ASSUME NEW i \in 1 .. (l + c)
        PROVE  /\ w[i].turn \in 1 .. (h + 1)
               /\ w[i].idx = 0 => \E k \in 1 .. (h + 1) : Z[k] = i
    <2>1. CASE i <= l
      <3>1. i \in 1 .. l /\ w[i] = e[i] /\ i \in 1 .. Len(e)
        BY <1>1, <1>3, <2>1 DEF l
      <3>2. /\ e[i].turn \in 1 .. h
            /\ e[i].idx = 0 => \E k \in 1 .. h : z[k] = i
        BY <3>1 DEF Scored
      <3>3. \A k \in 1 .. h : k \in 1 .. (h + 1) /\ Z[k] = z[k]
        BY <1>2
      <3> QED
        BY <3>1, <3>2, <3>3
    <2>2. CASE i > l
      <3>1. i - l \in 1 .. c /\ i = l + (i - l)
        BY <1>1, <2>2
      <3>2. w[i].idx = (i - l) - 1 /\ w[i].turn = h + 1
        BY <1>4, <3>1
      <3>3. w[i].idx = 0 => i = l + 1
        BY <1>1, <3>2
      <3>4. h + 1 \in 1 .. (h + 1)
        OBVIOUS
      <3> QED
        BY <1>2, <3>2, <3>3, <3>4
    <2> QED
      BY <1>1, <2>1, <2>2
  <1>8. Len(w) = l + c
    BY DEF l
  <1>9. Scored(Z, h + 1, w)
    BY <1>2, <1>5, <1>6, <1>7, <1>8 DEF Scored
  <1> QED
    BY <1>9 DEF Z, l

\* What a block of results does to the turns of the mask.
LEMMA BlockSteps ==
  ASSUME IInv, StepsInv, NEW r \in BlockLengths, AppendBlock(r),
         state \in {"processing_tools", "interacting"},
         state' \in {"generating", "terminated"},
         UNCHANGED <<interactive, log_probs, assistant_turns>>
  PROVE  BlocksInv'
  <1> SUFFICES ASSUME ~interactive PROVE BlocksInv'
    BY DEF BlocksInv
  <1> DEFINE m == assistant_turns
             a == Len(prompt_ids)
             l == Len(response_mask)
  <1>1. /\ ListsOK /\ TokensAligned /\ TypeOK /\ Shape
        /\ r \in Nat /\ r > 0 /\ m \in Nat /\ -m \in Int
    BY ListsTyped, InputsAssumption DEF IInv, TypeOK
  <1>2. log_probs => response_logprobs # << >>
    <2>1. l > 0
      BY <1>1, LengthsAssumption DEF Shape, LastInv
    <2>2. log_probs => Len(response_logprobs) = l
      BY <1>1 DEF TokensAligned
    <2> QED
      BY <2>1, <2>2, EmptySeq
  <1>3. Grow(r, -m, 0)
    BY <1>2 DEF AppendBlock, Grow
  <1>4. /\ a \in Nat /\ l \in Nat
        /\ Len(prompt_ids') = a + r /\ Len(response_mask') = l + r
        /\ Extends(prompt_ids', prompt_ids, a, r, -m)
        /\ Extends(response_mask', response_mask, l, r, 0)
    <2>1. (0 = 1) <=> (-m > 0)
      BY <1>1
    <2> QED
      BY <1>1, <1>3, <2>1, Grown
  <1>5. l <= a
    BY <1>1, <1>4 DEF TokensAligned
  <1>6. PICK f, g : TurnsStand(f, g, prompt_ids, response_mask, m, a, l) /\ TurnsEnd(f, g)
    BY DEF StepsInv, BlocksInv
  <1>7. TurnsStand(f, g, prompt_ids', response_mask', m, a + r, l + r)
    <2> HIDE DEF m, a, l
    <2> QED
      BY <1>1, <1>4, <1>5, <1>6, BlockAdded
  <1>8. \A k \in 1 .. m : g[k] \in Nat /\ g[k] < l + r /\ f[k] <= ResponseLength
    <2>1. \A k \in 1 .. m : g[k] \in Nat /\ g[k] <= l
      BY <1>6 DEF TurnsStand
    <2>2. \A k \in 1 .. m : f[k] <= ResponseLength
      BY <1>6 DEF TurnsEnd
    <2> QED
      BY <1>1, <1>4, <2>1, <2>2
  <1>9. TurnsEnd(f, g)'
    BY <1>4, <1>8 DEF TurnsEnd
  <1> QED
    BY <1>4, <1>7, <1>9 DEF BlocksInv

LEMMA CallsMade ==
  ASSUME TypeOK, state = "processing_tools"
  PROVE  Calls \in 1 .. MaxParallelCalls
  BY LengthsAssumption DEF TypeOK, Calls, Smaller

LEMMA ProcessToolsSteps ==
  ASSUME IInv, StepsInv, NEW r \in BlockLengths, ProcessTools(r)
  PROVE  StepsInv'
  <1> DEFINE m == assistant_turns
             c == Calls
             M == [role : {"assistant", "tool", "user"}, turn : Nat]
             E == [idx : Nat, turn : Nat]
  <1>1. /\ state = "processing_tools" /\ TypeOK /\ StepsTyped /\ AnchorsInv
        /\ state' \in {"generating", "terminated"}
        /\ UNCHANGED <<interactive, log_probs, assistant_turns, anchor_obs_list>>
        /\ messages' = messages \o Results
        /\ pending_step_scores' = pending_step_scores \o Scores
        /\ m \in Nat /\ m > 0 /\ c \in Nat /\ c > 0
    <2>1. user_turns = m - 1 /\ user_turns \in Nat /\ m \in Nat
      BY DEF ProcessTools, IInv, Shape, TurnsInv, TypeOK
    <2>2. state = "processing_tools" /\ TypeOK
      BY DEF ProcessTools, IInv
    <2> QED
      BY <2>1, <2>2, CallsMade DEF ProcessTools, config, StepsInv
  <1>2. /\ messages \in Seq(M) /\ pending_step_scores \in Seq(E)
        /\ Len(messages) \in Nat /\ Len(pending_step_scores) \in Nat
    BY <1>1, LenProperties DEF StepsTyped
  <1>3. /\ messages' \in Seq(M) /\ Len(messages') = Len(messages) + c
        /\ Extends(messages', messages, Len(messages), c,
                   [role |-> "tool", turn |-> m])
    <2> DEFINE e == [role |-> "tool", turn |-> m]
    <2>1. e \in M
      BY <1>1
    <2>2. messages' = messages \o Repeat(e, c)
      BY <1>1 DEF Results
    <2> HIDE DEF e, M, c
    <2>3. /\ messages \o Repeat(e, c) \in Seq(M)
          /\ Len(messages \o Repeat(e, c)) = Len(messages) + c
          /\ Extends(messages \o Repeat(e, c), messages, Len(messages), c, e)
      BY <1>1, <1>2, <2>1, ConcatRepeat, ZenonT(30)
    <2> QED
      BY <2>2, <2>3 DEF e
  <1>4. /\ Scores \in Seq(E) /\ Len(Scores) = c
        /\ \A i \in 1 .. c : Scores[i] = [idx |-> i - 1, turn |-> m]
    BY <1>1 DEF Scores
  <1>5. /\ pending_step_scores' \in Seq(E)
        /\ Len(pending_step_scores') = Len(pending_step_scores) + c
        /\ \A i \in 1 .. Len(pending_step_scores) :
              pending_step_scores'[i] = pending_step_scores[i]
        /\ \A i \in 1 .. c : pending_step_scores'[Len(pending_step_scores) + i]
                                = [idx |-> i - 1, turn |-> m]
    <2> DEFINE p == pending_step_scores
    <2>1. /\ p \o Scores \in Seq(E) /\ Len(p \o Scores) = Len(p) + Len(Scores)
          /\ \A i \in 1 .. Len(p) + Len(Scores) : (p \o Scores)[i] =
                IF i <= Len(p) THEN p[i] ELSE Scores[i - Len(p)]
      <3> HIDE DEF p, E
      <3> QED
        BY <1>2, <1>4, ConcatProperties DEF p
    <2>2. \A i \in 1 .. Len(p) : (p \o Scores)[i] = p[i]
      BY <1>1, <1>2, <1>4, <2>1
    <2>3. ASSUME NEW i \in 1 .. c
          PROVE  (p \o Scores)[Len(p) + i] = [idx |-> i - 1, turn |-> m]
      <3>1. /\ Len(p) + i \in 1 .. Len(p) + Len(Scores) /\ ~ (Len(p) + i <= Len(p))
            /\ (Len(p) + i) - Len(p) = i
        BY <1>1, <1>2, <1>4
      <3> QED
        BY <1>4, <2>1, <3>1
    <2> QED
      BY <1>1, <1>4, <2>1, <2>2, <2>3
  <1>6. StepsTyped'
    BY <1>1, <1>3, <1>5 DEF StepsTyped
  <1>7. AnchorsInv'
    <2>1. \A j \in 1 .. Len(messages) : messages'[j] = messages[j]
      BY <1>3 DEF Extends
    <2>2. \A j \in (Len(messages) + 1) .. Len(messages') : messages'[j].turn = m
      BY <1>3 DEF Extends
    <2>3. Len(messages') \in Nat /\ Len(messages) <= Len(messages')
      BY <1>1, <1>2, <1>3
    <2> QED
      BY <1>1, <2>1, <2>2, <2>3, AnchorsKept
  <1>8. BlocksInv'
    <2>1. CASE Overflows(r)
      <3>1. state' = "terminated" /\ UNCHANGED <<prompt_ids, response_mask>>
        BY <2>1 DEF ProcessTools, tokens
      <3>2. \A f, g : TurnsEnd(f, g) => TurnsEnd(f, g)'
        BY <1>1, <3>1 DEF TurnsEnd
      <3> QED
        BY <1>1, <3>1, <3>2 DEF StepsInv, BlocksInv
    <2>2. CASE ~Overflows(r)
      <3>1. AppendBlock(r)
        BY <2>2 DEF ProcessTools
      <3> QED
        BY <1>1, <3>1, BlockSteps
    <2> QED
      BY <2>1, <2>2
  <1>9. ScoresInv'
    <2> SUFFICES ASSUME ~interactive PROVE ScoresInv'
      BY <1>1 DEF ScoresInv
    <2>1. PICK h \in Nat : /\ ScoredTurns(h)
                           /\ \E z : Scored(z, h, pending_step_scores)
      BY DEF StepsInv, ScoresInv
    <2>2. PICK z : Scored(z, h, pending_step_scores)
      BY <2>1
    <2>3. h + 1 = m
      BY <1>1, <2>1 DEF ScoredTurns
    <2>4. \E y : Scored(y, h + 1, pending_step_scores')
      <3> HIDE DEF c, m, E
      <3> QED
        BY <1>1, <1>2, <1>5, <2>2, <2>3, ScoresAdded
    <2>5. ScoredTurns(h + 1)'
      BY <1>1, <2>3 DEF ScoredTurns
    <2> QED
      BY <2>4, <2>5 DEF ScoresInv
  <1> QED
    BY <1>1, <1>6, <1>7, <1>8, <1>9 DEF StepsInv, NothingYet

LEMMA InteractSteps ==
  ASSUME IInv, StepsInv, NEW r \in BlockLengths, NEW stop \in BOOLEAN, Interact(r, stop)
  PROVE  StepsInv'
  <1> DEFINE m == assistant_turns
             M == [role : {"assistant", "tool", "user"}, turn : Nat]
             e == [role |-> "user", turn |-> m]
  <1>1. /\ state = "interacting" /\ StepsTyped /\ AnchorsInv /\ interactive
        /\ state' \in {"generating", "terminated"}
        /\ UNCHANGED <<interactive, log_probs, assistant_turns, anchor_obs_list,
                       pending_step_scores>>
        /\ messages' = Append(messages, e)
        /\ AppendBlock(r) /\ m \in Nat
    BY DEF Interact, config, IInv, TypeOK, StepsInv
  <1>2. messages \in Seq(M) /\ Len(messages) \in Nat /\ e \in M
    BY <1>1, LenProperties DEF StepsTyped
  <1>3. /\ messages' \in Seq(M) /\ Len(messages') = Len(messages) + 1
        /\ messages'[Len(messages) + 1] = e
        /\ \A j \in 1 .. Len(messages) : messages'[j] = messages[j]
    <2> HIDE DEF e, M
    <2> QED
      BY <1>1, <1>2, AppendProperties
  <1>4. StepsTyped'
    BY <1>1, <1>3 DEF StepsTyped
  <1>5. AnchorsInv'
    <2>1. \A j \in (Len(messages) + 1) .. Len(messages') : messages'[j].turn = m
      BY <1>2, <1>3
    <2>2. Len(messages') \in Nat /\ Len(messages) <= Len(messages')
      BY <1>2, <1>3
    <2> QED
      BY <1>1, <1>3, <2>1, <2>2, AnchorsKept
  <1>6. BlocksInv' /\ ScoresInv' /\ NothingYet'
    BY <1>1 DEF BlocksInv, ScoresInv, NothingYet
  <1> QED
    BY <1>4, <1>5, <1>6 DEF StepsInv

LEMMA NextSteps == IInv /\ StepsInv /\ [Next]_vars => StepsInv'
  <1> SUFFICES ASSUME IInv, StepsInv, [Next]_vars PROVE StepsInv'
    OBVIOUS
  <1>1. CASE UNCHANGED vars
    <2>1. UNCHANGED <<state, interactive, prompt_ids, response_mask, assistant_turns,
                      messages, anchor_obs_list, pending_step_scores>>
      BY <1>1 DEF vars, config, tokens, turns, steps
    <2>2. /\ \A f, g : TurnsEnd(f, g) => TurnsEnd(f, g)'
          /\ \A n : ScoredTurns(n) => ScoredTurns(n)'
      BY <2>1 DEF TurnsEnd, ScoredTurns
    <2>3. StepsTyped' /\ AnchorsInv' /\ NothingYet'
      BY <2>1 DEF StepsInv, StepsTyped, AnchorsInv, NothingYet
    <2>4. BlocksInv'
      BY <2>1, <2>2 DEF StepsInv, BlocksInv
    <2>5. ScoresInv'
      BY <2>1, <2>2 DEF StepsInv, ScoresInv
    <2> QED
      BY <2>3, <2>4, <2>5 DEF StepsInv
  <1>2. ASSUME NEW n \in PromptLengths, Pending(n) PROVE StepsInv'
    BY <1>2, PendingSteps
  <1>3. ASSUME NEW n \in 0 .. MaxModelLen, NEW c \in CallCounts, Generate(n, c)
        PROVE  StepsInv'
    BY <1>3, GenerateSteps
  <1>4. CASE GenerateRaises
    BY <1>4, GenerateRaisesSteps
  <1>5. ASSUME NEW r \in BlockLengths, ProcessTools(r) PROVE StepsInv'
    BY <1>5, ProcessToolsSteps
  <1>6. ASSUME NEW r \in BlockLengths, NEW stop \in BOOLEAN, Interact(r, stop)
        PROVE  StepsInv'
    BY <1>6, InteractSteps
  <1> QED
    BY <1>1, <1>2, <1>3, <1>4, <1>5, <1>6 DEF Next

LEMMA StepsInvariance == Spec => [](IInv /\ StepsInv)
  BY StepsStart, NextSteps, Invariance, PTL DEF Spec

-----------------------------------------------------------------------------
(***************************************************************************)
(* The results                                                             *)
(***************************************************************************)
\* The agent data keep their types, for any lengths and limits: turns
\* alternate, a turn that is processed has calls, and only interactive runs
\* can outgrow the model's context (AgentData, _handle_*_state).
THEOREM TypeCorrect == Spec => []TypeOK
  BY Invariance, PTL DEF IInv

\* However long a trajectory gets, tokens, mask and log probabilities grow
\* together (_handle_generating_state, _handle_processing_tools_state,
\* _handle_interacting_state).
THEOREM ListsStayAligned == Spec => []TokensAligned
  BY Invariance, PTL DEF IInv

LEMMA RewardPlaced == IInv => RewardOnGenerated
  <1> SUFFICES ASSUME IInv, state = "terminated", ~interactive
               PROVE  /\ RewardAt \in DOMAIN ResponseMask
                      /\ ResponseMask[RewardAt] = 1
    BY DEF RewardOnGenerated
  <1> DEFINE a == Len(prompt_ids)
             l == Len(response_mask)
             last == Smaller(l, ResponseLength)
             ids == SubSeq(prompt_ids, a - l + 1, a)
  <1>1. /\ prompt_ids \in Seq(Int) /\ response_mask \in Seq({0, 1})
        /\ a \in Nat /\ l \in Nat
    BY LenProperties DEF IInv, TypeOK
  <1>2. l > 0 /\ response_mask[last] = 1
    BY DEF IInv, Shape, EndInv
  <1>3. l <= a
    BY <1>1 DEF IInv, TokensAligned
  <1>4. last \in 1 .. l
    BY <1>1, <1>2, LengthsAssumption DEF Smaller
  <1>5. response_mask # << >>
    BY <1>2, EmptySeq
  <1>6. Len(ids) = l /\ ids \in Seq(Int)
    <2> HIDE DEF a, l
    <2>1. /\ a - l + 1 \in 1 .. (a + 1) /\ a \in (a - l) .. a
          /\ a - (a - l + 1) + 1 = l
      BY <1>1, <1>2, <1>3
    <2>2. a = Len(prompt_ids)
      BY DEF a
    <2> QED
      BY <1>1, <1>2, <1>3, <2>1, <2>2, SubSeqProperties
  <1>7. Len(SubSeq(ids, 1, last)) = last
    <2> HIDE DEF ids, last, l, a
    <2> QED
      BY <1>1, <1>4, <1>6, SubSeqProperties
  <1>8. ResponseIds = SubSeq(ids, 1, last)
    BY <1>5, <1>6 DEF ResponseIds
  <1>9. /\ Len(SubSeq(response_mask, 1, last)) = last
        /\ SubSeq(response_mask, 1, last)[last] = response_mask[last]
        /\ DOMAIN SubSeq(response_mask, 1, last) = 1 .. last
    <2> HIDE DEF last, l
    <2>1. l = Len(response_mask)
      BY DEF l
    <2> QED
      BY <1>1, <1>4, <2>1, SubSeqProperties
  <1>10. ResponseMask = SubSeq(response_mask, 1, last)
    BY DEF ResponseMask
  <1>11. RewardAt = last
    BY <1>7, <1>8 DEF RewardAt
  <1> HIDE DEF last
  <1> QED
    BY <1>1, <1>2, <1>4, <1>9, <1>10, <1>11

\* Wherever the limits of turns and lengths cut a trajectory, its reward is
\* put on a token of the model (rm_scores in _postprocess, where
\* response_mask decides which tokens count).
THEOREM RewardIsCounted == Spec => []RewardOnGenerated
  BY Invariance, RewardPlaced, PTL

-----------------------------------------------------------------------------
(***************************************************************************)
(* Finding the turns again                                                 *)
(***************************************************************************)
\* b are the m turns at the places f .. g, of which c are left
BlocksAt(b, f, g, m, c) ==
    /\ Len(b) = m /\ DOMAIN b = 1 .. m
    /\ \A k \in 1 .. m : b[k][1] = f[k] /\ b[k][2] = Smaller(g[k], c)

\* Of two turns that stand apart, the first is not the one the cut shortens.
LEMMA TurnsApart ==
  ASSUME NEW f, NEW g, NEW h, NEW j, NEW k, NEW c,
         f[j] \in Nat, g[j] \in Nat, f[k] \in Nat, h[j] \in Nat, h[k] \in Nat, c \in Nat,
         f[j] <= g[j], g[j] + 1 < f[k], f[k] <= c,
         f[k] <= h[k], h[j] <= g[j], h[j] = c \/ h[j] = g[j]
  PROVE  /\ f[j] < f[k] /\ h[j] < h[k]
         /\ h[j] = g[j] /\ h[j] + 1 < f[k]
  OBVIOUS

\* The blocks of ones in a mask cut to c places are the turns, the last of
\* which may be cut.
LEMMA TurnsFound ==
  ASSUME NEW f, NEW g, NEW p, NEW s, NEW m \in Nat, NEW a \in Nat, NEW l \in Nat,
         NEW c \in 1 .. l, NEW d,
         TurnsStand(f, g, p, s, m, a, l), \A k \in 1 .. m : f[k] <= c,
         DOMAIN d = 1 .. c, \A i \in 1 .. c : d[i] = s[i]
  PROVE  BlocksAt(StepBoundaries(d), f, g, m, c)
  <1> DEFINE one(t) == t \in DOMAIN d /\ d[t] = 1
             starts == {t \in DOMAIN d : one(t) /\ ~one(t - 1)}
             ends == {t \in DOMAIN d : one(t) /\ ~one(t + 1)}
             h == [k \in 1 .. m |-> Smaller(g[k], c)]
  <1>1. /\ f \in [1 .. m -> Nat] /\ g \in [1 .. m -> Nat]
        /\ \A k \in 1 .. m : /\ f[k] \in Nat /\ g[k] \in Nat /\ 1 <= f[k]
                             /\ f[k] <= g[k] /\ g[k] <= l /\ f[k] <= c
        /\ \A j, k \in 1 .. m : j < k => g[j] + 1 < f[k]
    BY DEF TurnsStand
  <1>2. \A t \in Int : one(t) <=> /\ 1 <= t /\ t <= c
                                  /\ \E k \in 1 .. m : f[k] <= t /\ t <= g[k]
    <2> SUFFICES ASSUME NEW t \in Int
                 PROVE  one(t) <=> /\ 1 <= t /\ t <= c
                                   /\ \E k \in 1 .. m : f[k] <= t /\ t <= g[k]
      OBVIOUS
    <2>1. t \in DOMAIN d <=> 1 <= t /\ t <= c
      OBVIOUS
    <2>2. CASE 1 <= t /\ t <= c
      <3>1. t \in 1 .. l /\ d[t] = s[t]
        BY <2>2
      <3>2. s[t] = 1 <=> \E k \in 1 .. m : f[k] <= t /\ t <= g[k]
        BY <3>1 DEF TurnsStand
      <3> QED
        BY <2>1, <2>2, <3>1, <3>2
    <2>3. CASE ~ (1 <= t /\ t <= c)
      BY <2>1, <2>3
    <2> QED
      BY <2>2, <2>3
  <1>3. \A k \in 1 .. m : /\ h[k] \in Nat /\ f[k] <= h[k] /\ h[k] <= c /\ h[k] <= g[k]
                          /\ h[k] = c \/ h[k] = g[k]
    BY <1>1 DEF Smaller
  <1>4. \A j, k \in 1 .. m : j < k => /\ f[j] < f[k] /\ h[j] < h[k]
                                      /\ h[j] = g[j] /\ h[j] + 1 < f[k]
    <2> SUFFICES ASSUME NEW j \in 1 .. m, NEW k \in 1 .. m, j < k
                 PROVE  /\ f[j] < f[k] /\ h[j] < h[k]
                        /\ h[j] = g[j] /\ h[j] + 1 < f[k]
      OBVIOUS
    <2> HIDE DEF h
    <2>1. /\ f[j] \in Nat /\ g[j] \in Nat /\ f[k] \in Nat /\ h[j] \in Nat /\ h[k] \in Nat
          /\ f[j] <= g[j] /\ g[j] + 1 < f[k] /\ f[k] <= c
          /\ f[k] <= h[k] /\ h[j] <= g[j] /\ (h[j] = c \/ h[j] = g[j])
      BY <1>1, <1>3
    <2>2. c \in Nat
      OBVIOUS
    <2> QED
      BY <2>1, <2>2, TurnsApart, Zenon
  <1> HIDE DEF h
  <1>5. starts = {f[k] : k \in 1 .. m}
    <2>1. ASSUME NEW t \in starts
          PROVE  \E k \in 1 .. m : t = f[k]
      <3>1. t \in 1 .. c /\ one(t) /\ ~one(t - 1)
        OBVIOUS
      <3>2. t \in Int /\ t - 1 \in Int
        BY <3>1
      <3> HIDE DEF one
      <3>3. PICK k \in 1 .. m : f[k] <= t /\ t <= g[k]
        BY <1>2, <3>1, <3>2
      <3>4. t - 1 <= g[k] /\ t - 1 <= c /\ f[k] \in Nat /\ f[k] >= 1
        BY <1>1, <3>1, <3>3
      <3>5. ~ (f[k] <= t - 1)
        <4> SUFFICES ASSUME f[k] <= t - 1 PROVE FALSE
          OBVIOUS
        <4>1. 1 <= t - 1
          BY <3>2, <3>4
        <4> QED
          BY <1>2, <3>1, <3>2, <3>4, <4>1, Zenon
      <3>6. t = f[k]
        BY <3>2, <3>3, <3>4, <3>5
      <3> QED
        BY <3>6
    <2>2. ASSUME NEW k \in 1 .. m
          PROVE  f[k] \in starts
      <3>1. f[k] \in 1 .. c /\ f[k] \in Int /\ f[k] - 1 \in Int
        BY <1>1
      <3>2. one(f[k])
        <4> HIDE DEF one
        <4> QED
          BY <1>1, <1>2, <3>1
      <3>3. ~one(f[k] - 1)
        <4> SUFFICES ASSUME one(f[k] - 1) PROVE FALSE
          OBVIOUS
        <4> HIDE DEF one
        <4>1. PICK j \in 1 .. m : f[j] <= f[k] - 1 /\ f[k] - 1 <= g[j]
          BY <1>2, <3>1
        <4>2. j < k
          <5>1. CASE j = k
            BY <1>1, <4>1, <5>1
          <5>2. CASE k < j
            <6>1. f[k] < f[j] /\ f[j] \in Nat /\ f[k] \in Nat
              BY <1>1, <1>4, <5>2, Zenon
            <6> QED
              BY <4>1, <6>1
          <5> QED
            BY <5>1, <5>2
        <4> QED
          BY <1>1, <4>1, <4>2
      <3> QED
        BY <3>1, <3>2, <3>3
    <2> HIDE DEF starts
    <2> QED
      BY <2>1, <2>2
  <1>6. ends = {h[k] : k \in 1 .. m}
    <2>1. ASSUME NEW t \in ends
          PROVE  \E k \in 1 .. m : t = h[k]
      <3>1. t \in 1 .. c /\ one(t) /\ ~one(t + 1)
        OBVIOUS
      <3>2. t \in Int /\ t + 1 \in Int
        BY <3>1
      <3> HIDE DEF one
      <3>3. PICK k \in 1 .. m : f[k] <= t /\ t <= g[k]
        BY <1>2, <3>1, <3>2
      <3>4. ~ (t + 1 <= c /\ t + 1 <= g[k])
        BY <1>1, <1>2, <3>1, <3>2, <3>3
      <3>5. h[k] = t
        <4>1. /\ g[k] \in Nat /\ h[k] \in Nat /\ h[k] <= c /\ h[k] <= g[k]
              /\ (h[k] = c \/ h[k] = g[k])
          BY <1>1, <1>3
        <4> QED
          BY <3>1, <3>3, <3>4, <4>1
      <3> QED
        BY <3>5
    <2>2. ASSUME NEW k \in 1 .. m
          PROVE  h[k] \in ends
      <3>1. h[k] \in 1 .. c /\ h[k] \in Int /\ h[k] + 1 \in Int
        <4> HIDE DEF h
        <4>1. 1 <= f[k] /\ f[k] <= h[k] /\ h[k] <= c /\ f[k] \in Nat /\ h[k] \in Nat
          BY <1>1, <1>3, Zenon
        <4> QED
          BY <4>1
      <3>2. one(h[k])
        <4> HIDE DEF one, h
        <4>1. f[k] <= h[k] /\ h[k] <= g[k]
          BY <1>3
        <4>2. 1 <= h[k] /\ h[k] <= c
          BY <3>1
        <4> QED
          BY <1>2, <3>1, <4>1, <4>2, Zenon
      <3>3. ~one(h[k] + 1)
        <4> SUFFICES ASSUME one(h[k] + 1) PROVE FALSE
          OBVIOUS
        <4> HIDE DEF one
        <4>1. PICK j \in 1 .. m : f[j] <= h[k] + 1 /\ h[k] + 1 <= g[j]
          BY <1>2, <3>1
        <4>2. h[k] + 1 <= c
          BY <1>2, <3>1
        <4>3. h[k] = g[k]
          BY <1>1, <1>3, <4>2
        <4>4. CASE j = k
          BY <1>1, <4>1, <4>3, <4>4
        <4>5. CASE j < k
          <5>1. /\ g[j] + 1 < f[k] /\ f[k] <= h[k]
                /\ g[j] \in Nat /\ f[k] \in Nat /\ h[k] \in Nat
            BY <1>1, <1>3, <4>5
          <5> HIDE DEF h
          <5> QED
            BY <4>1, <5>1
        <4>6. CASE k < j
          <5>1. h[k] + 1 < f[j] /\ h[k] \in Nat /\ f[j] \in Nat
            BY <1>1, <1>3, <1>4, <4>6
          <5> HIDE DEF h
          <5> QED
            BY <4>1, <5>1
        <4> QED
          BY <4>4, <4>5, <4>6
      <3> QED
        BY <3>1, <3>2, <3>3
    <2> HIDE DEF ends
    <2> QED
      BY <2>1, <2>2
  <1>7. InOrder(starts) = f
    <2> HIDE DEF starts
    <2>1. f \in [1 .. m -> Int]
      BY <1>1
    <2>2. \A j, k \in 1 .. m : j < k => f[j] < f[k]
      BY <1>4, Zenon
    <2> QED
      BY <1>5, <2>1, <2>2, IncreasingInOrder
  <1>8. InOrder(ends) = h
    <2> HIDE DEF ends
    <2>1. h \in [1 .. m -> Int] /\ \A j, k \in 1 .. m : j < k => h[j] < h[k]
      <3>1. h \in [1 .. m -> Nat]
        BY <1>1 DEF h, Smaller
      <3> QED
        BY <1>4, <3>1
    <2> QED
      BY <1>6, <2>1, IncreasingInOrder
  <1>9. StepBoundaries(d) = [k \in DOMAIN InOrder(starts) |->
                               <<InOrder(starts)[k], InOrder(ends)[k]>>]
    BY DEF StepBoundaries
  <1> HIDE DEF starts, ends
  <1>10. StepBoundaries(d) = [k \in 1 .. m |-> <<f[k], h[k]>>]
    BY <1>1, <1>7, <1>8, <1>9
  <1>11. \A k \in 1 .. m : h[k] = Smaller(g[k], c)
    BY DEF h
  <1> QED
    BY <1>10, <1>11 DEF BlocksAt

\* The merged scores begin with those of the first calls, turn by turn.
LEMMA ScoresSorted ==
  ASSUME StepsTyped, NEW n \in Nat, NEW z, Scored(z, n, pending_step_scores)
  PROVE  \A k \in 1 .. n : k <= Len(StepScores) /\ StepScores[k].turn = k
  <1> DEFINE p == pending_step_scores
             E == [idx : Nat, turn : Nat]
             seqs == [i \in 1 .. MaxParallelCalls |-> Picked(p, ScoresAt(i - 1))]
  <1>1. p \in Seq(E) /\ Len(p) \in Nat /\ DOMAIN p = 1 .. Len(p)
    BY LenProperties DEF StepsTyped
  <1>2. \A i : ScoresAt(i) \in SUBSET DOMAIN p
    BY DEF ScoresAt
  <1>3. ASSUME NEW i \in 1 .. MaxParallelCalls
        PROVE  Picked(p, ScoresAt(i - 1)) \in Seq(E)
    <2>1. ScoresAt(i - 1) \in SUBSET DOMAIN p
      BY <1>2
    <2> HIDE DEF p, E
    <2> QED
      BY <1>1, <2>1, PickedFacts
  <1>4. /\ seqs \in Seq(Seq(E)) /\ Len(seqs) = MaxParallelCalls
        /\ 1 \in 1 .. MaxParallelCalls /\ seqs[1] = Picked(p, ScoresAt(0))
    <2>1. MaxParallelCalls \in Nat /\ 1 \in 1 .. MaxParallelCalls
      BY LengthsAssumption
    <2>2. seqs \in [1 .. MaxParallelCalls -> Seq(E)]
      BY <1>3
    <2>3. seqs[1] = Picked(p, ScoresAt(0))
      BY <2>1
    <2> HIDE DEF seqs
    <2> QED
      BY <2>1, <2>2, <2>3, SeqDef
  <1>5. /\ z \in [1 .. n -> Int]
        /\ \A j, k \in 1 .. n : j < k => z[j] < z[k]
        /\ ScoresAt(0) = {z[k] : k \in 1 .. n}
    <2>1. /\ z \in [1 .. n -> Nat]
          /\ \A j, k \in 1 .. n : j < k => z[j] < z[k]
          /\ \A k \in 1 .. n : 1 <= z[k] /\ z[k] <= Len(p) /\ p[z[k]].idx = 0
          /\ \A i \in 1 .. Len(p) : p[i].idx = 0 => \E k \in 1 .. n : z[k] = i
      BY DEF Scored
    <2>2. \A k \in 1 .. n : z[k] \in 1 .. Len(p)
      BY <1>1, <2>1
    <2> QED
      BY <1>1, <2>1, <2>2 DEF ScoresAt
  <1>6. Cardinality(ScoresAt(0)) = n /\ InOrder(ScoresAt(0)) = z
    BY <1>5, IncreasingInOrder
  <1>7. /\ Len(Picked(p, ScoresAt(0))) = n
        /\ \A k \in 1 .. n : Picked(p, ScoresAt(0))[k] = p[z[k]]
    <2> HIDE DEF p, E
    <2>1. ScoresAt(0) \in SUBSET DOMAIN p
      BY <1>2
    <2> QED
      BY <1>1, <1>6, <2>1, PickedFacts
  <1> HIDE DEF seqs, E
  <1>8. PICK o : Offsets(o, seqs)
    BY <1>4, OffsetsExist
  <1>9. Joined(FlattenSeq(seqs), o, seqs, MaxParallelCalls)
    BY <1>4, <1>8, FlattenPlaces
  <1>10. StepScores = FlattenSeq(seqs)
    BY DEF StepScores, seqs
  <1>11. o[0] = 0 /\ o[1] = n
    <2>1. o[0] = 0 /\ o[1] = o[1 - 1] + Len(seqs[1])
      BY <1>4, <1>8 DEF Offsets
    <2> QED
      BY <1>4, <1>7, <2>1
  <1>12. ASSUME NEW k \in 1 .. n
         PROVE  k <= Len(StepScores) /\ StepScores[k] = p[z[k]]
    <2>1. o[1] <= o[MaxParallelCalls] /\ Len(StepScores) = o[MaxParallelCalls]
      BY <1>4, <1>9, <1>10 DEF Joined
    <2>2. o[MaxParallelCalls] \in Nat
      BY <1>4, <1>8, LengthsAssumption DEF Offsets
    <2>3. StepScores[o[1 - 1] + k] = seqs[1][k]
      BY <1>4, <1>7, <1>9, <1>10 DEF Joined
    <2> QED
      BY <1>4, <1>7, <1>11, <2>1, <2>2, <2>3
  <1>13. \A k \in 1 .. n : p[z[k]].turn = k
    BY DEF Scored
  <1> QED
    BY <1>12, <1>13

LEMMA StepsMatched == IInv /\ StepsInv => StepsMeetTheirData
  <1> SUFFICES ASSUME IInv, StepsInv, state = "terminated", ~interactive
               PROVE  LET blocks == StepBoundaries(ResponseMask)
                      IN  /\ Len(blocks) = assistant_turns
                          /\ Len(anchor_obs_list) = assistant_turns
                          /\ \A k \in DOMAIN blocks :
                             /\ \A i \in blocks[k][1] .. blocks[k][2] : ResponseIds[i] = k
                             /\ \A j \in DOMAIN messages :
                                  (j <= anchor_obs_list[k]) <=> (messages[j].turn < k)
                             /\ (\E e \in Range(pending_step_scores) : e.turn = k)
                                   => k <= Len(StepScores) /\ StepScores[k].turn = k
    BY DEF StepsMeetTheirData
  <1> DEFINE m == assistant_turns
             a == Len(prompt_ids)
             l == Len(response_mask)
             c == Smaller(l, ResponseLength)
             blocks == StepBoundaries(ResponseMask)
  <1>1. /\ prompt_ids \in Seq(Int) /\ response_mask \in Seq({0, 1})
        /\ a \in Nat /\ l \in Nat /\ m \in Nat
    BY LenProperties DEF IInv, TypeOK
  <1>2. l > 0 /\ l <= a
    BY <1>1 DEF IInv, Shape, EndInv, TokensAligned
  <1>3. c \in 1 .. l /\ c <= ResponseLength /\ c \in Nat
        /\ (c = l \/ c = ResponseLength)
    BY <1>1, <1>2, LengthsAssumption DEF Smaller
  <1>4. /\ Len(ResponseMask) = c /\ DOMAIN ResponseMask = 1 .. c
        /\ \A i \in 1 .. c : ResponseMask[i] = response_mask[i]
    <2> HIDE DEF c
    <2>1. \A i \in 1 .. c : response_mask[i] \in {0, 1} /\ 1 + i - 1 = i
      <3>1. \A i \in 1 .. c : i \in 1 .. l
        BY <1>1, <1>3
      <3> QED
        BY <1>1, <3>1, ElementOfSeq
    <2>2. /\ SubSeq(response_mask, 1, c) \in Seq({0, 1})
          /\ Len(SubSeq(response_mask, 1, c)) = c
          /\ \A i \in 1 .. c : SubSeq(response_mask, 1, c)[i] = response_mask[i]
      BY <1>3, <2>1, SubSeqProperties
    <2>3. DOMAIN SubSeq(response_mask, 1, c) = 1 .. c
      BY <2>2, LenProperties
    <2> QED
      BY <2>2, <2>3 DEF ResponseMask, c
  <1>5. \A i \in 1 .. c : ResponseIds[i] = prompt_ids[a - l + i]
    <2> DEFINE ids == SubSeq(prompt_ids, a - l + 1, a)
    <2>1. response_mask # << >>
      BY <1>2, EmptySeq
    <2>2. /\ Len(ids) = l /\ ids \in Seq(Int)
          /\ \A i \in 1 .. l : ids[i] = prompt_ids[a - l + i]
      <3>1. \A i \in (a - l + 1) .. a : prompt_ids[i] \in Int
        <4>1. \A i \in (a - l + 1) .. a : i \in 1 .. a
          BY <1>1, <1>2
        <4> QED
          BY <1>1, <4>1, ElementOfSeq
      <3>2. /\ a - l + 1 \in Int /\ a \in Int /\ a - l + 1 <= a
            /\ a - (a - l + 1) + 1 = l
            /\ \A i \in 1 .. l : (a - l + 1) + i - 1 = a - l + i
        BY <1>1, <1>2
      <3> HIDE DEF a, l
      <3>3. /\ SubSeq(prompt_ids, a - l + 1, a) \in Seq(Int)
            /\ Len(SubSeq(prompt_ids, a - l + 1, a)) = a - (a - l + 1) + 1
            /\ \A i \in 1 .. (a - (a - l + 1) + 1) :
                  SubSeq(prompt_ids, a - l + 1, a)[i] = prompt_ids[(a - l + 1) + i - 1]
        BY <3>1, <3>2, SubSeqProperties
      <3> QED
        BY <3>2, <3>3
    <2>3. ResponseIds = SubSeq(ids, 1, c)
      BY <2>1, <2>2 DEF ResponseIds
    <2> HIDE DEF ids, c
    <2>4. \A i \in 1 .. c : ids[i] \in Int /\ 1 + i - 1 = i /\ i \in 1 .. l
      <3>1. \A i \in 1 .. c : i \in 1 .. l
        BY <1>1, <1>3
      <3> QED
        BY <2>2, <3>1, ElementOfSeq
    <2>5. \A i \in 1 .. c : SubSeq(ids, 1, c)[i] = ids[i]
      <3>1. \A i \in 1 .. c - 1 + 1 : SubSeq(ids, 1, c)[i] = ids[1 + i - 1]
        BY <1>3, <2>4, SubSeqProperties
      <3> QED
        BY <1>3, <2>4, <3>1
    <2> QED
      BY <2>2, <2>3, <2>4, <2>5
  <1>6. PICK f, g : TurnsStand(f, g, prompt_ids, response_mask, m, a, l) /\ TurnsEnd(f, g)
    BY DEF StepsInv, BlocksInv
  <1>7. /\ \A k \in 1 .. m : /\ f[k] \in Nat /\ g[k] \in Nat /\ f[k] <= g[k] /\ g[k] <= l
                             /\ 1 <= f[k] /\ f[k] <= c
        /\ \A k \in 1 .. m : \A i \in 1 .. l :
              f[k] <= i /\ i <= g[k] => prompt_ids[a - l + i] = k
    <2>1. /\ \A k \in 1 .. m : /\ f[k] \in Nat /\ g[k] \in Nat /\ f[k] <= g[k]
                               /\ g[k] <= l /\ 1 <= f[k]
          /\ \A k \in 1 .. m : \A i \in 1 .. l :
              f[k] <= i /\ i <= g[k] => prompt_ids[a - l + i] = k
      BY <1>6 DEF TurnsStand
    <2>2. \A k \in 1 .. m : f[k] <= ResponseLength
      BY <1>6 DEF TurnsEnd
    <2> HIDE DEF c
    <2> QED
      BY <1>1, <1>3, <2>1, <2>2
  <1>8. /\ Len(blocks) = m /\ DOMAIN blocks = 1 .. m
        /\ \A k \in 1 .. m : blocks[k][1] = f[k] /\ blocks[k][2] = Smaller(g[k], c)
    <2>1. TurnsStand(f, g, prompt_ids, response_mask, m, a, l)
          /\ \A k \in 1 .. m : f[k] <= c
      BY <1>6, <1>7
    <2> HIDE DEF m, a, l
    <2>2. c \in 1 .. l
      BY <1>3
    <2> HIDE DEF c
    <2>3. BlocksAt(StepBoundaries(ResponseMask), f, g, m, c)
      BY <1>1, <1>4, <2>1, <2>2, TurnsFound
    <2> QED
      BY <2>3 DEF BlocksAt
  <1>9. Len(blocks) = m /\ DOMAIN blocks = 1 .. m
    BY <1>8
  <1>10. StepsTyped /\ AnchorsInv /\ DOMAIN messages = 1 .. Len(messages)
         /\ DOMAIN pending_step_scores = 1 .. Len(pending_step_scores)
    BY LenProperties DEF StepsInv, StepsTyped
  <1>11. PICK n \in Nat : n <= m /\ \E z : Scored(z, n, pending_step_scores)
    BY DEF StepsInv, ScoresInv, ScoredTurns
  <1>12. PICK z : Scored(z, n, pending_step_scores)
    BY <1>11
  <1>13. ASSUME NEW k \in 1 .. m
         PROVE  /\ \A i \in blocks[k][1] .. blocks[k][2] : ResponseIds[i] = k
                /\ \A j \in DOMAIN messages :
                      (j <= anchor_obs_list[k]) <=> (messages[j].turn < k)
                /\ (\E e \in Range(pending_step_scores) : e.turn = k)
                      => k <= Len(StepScores) /\ StepScores[k].turn = k
    <2>1. ASSUME NEW i \in blocks[k][1] .. blocks[k][2]
          PROVE  ResponseIds[i] = k
      <3>1. i \in f[k] .. Smaller(g[k], c)
        BY <1>8
      <3> HIDE DEF blocks, c
      <3>2. i \in 1 .. c /\ i \in 1 .. l /\ f[k] <= i /\ i <= g[k]
        BY <1>1, <1>3, <1>7, <3>1 DEF Smaller
      <3> QED
        BY <1>5, <1>7, <3>2
    <2>2. \A j \in DOMAIN messages :
             (j <= anchor_obs_list[k]) <=> (messages[j].turn < k)
      BY <1>10 DEF AnchorsInv
    <2>3. ASSUME NEW e \in Range(pending_step_scores), e.turn = k
          PROVE  k <= Len(StepScores) /\ StepScores[k].turn = k
      <3>1. PICK i \in 1 .. Len(pending_step_scores) : pending_step_scores[i] = e
        BY <1>10 DEF Range
      <3>2. k \in 1 .. n
        BY <1>12, <2>3, <3>1 DEF Scored
      <3> QED
        BY <1>10, <1>12, <3>2, ScoresSorted
    <2> QED
      BY <2>1, <2>2, <2>3
  <1>14. Len(anchor_obs_list) = m
    BY <1>10 DEF AnchorsInv
  <1> HIDE DEF blocks, m
  <1>15. \A k \in DOMAIN blocks :
            /\ \A i \in blocks[k][1] .. blocks[k][2] : ResponseIds[i] = k
            /\ \A j \in DOMAIN messages :
                  (j <= anchor_obs_list[k]) <=> (messages[j].turn < k)
            /\ (\E e \in Range(pending_step_scores) : e.turn = k)
                  => k <= Len(StepScores) /\ StepScores[k].turn = k
    BY <1>9, <1>13
  <1> QED
    BY <1>9, <1>14, <1>15 DEF blocks, m

\* For trajectories of any length, with any number of parallel calls: the k-th
\* block of the cut mask is turn k, its observation shows the messages of the
\* turns before, and the k-th of the merged scores is a score of turn k
\* (_get_step_boundaries, _submit_step_score and the sort of the manager).
THEOREM StepsFindTheirData == Spec => []StepsMeetTheirData
  BY StepsInvariance, StepsMatched, PTL

-----------------------------------------------------------------------------
(***************************************************************************)
(* The length of a trajectory                                              *)
(***************************************************************************)
\* the tokens the response has room for
Left == IF Len(response_mask) < ResponseLength
        THEN ResponseLength - Len(response_mask) ELSE 0

\* The handlers that can still run: two for each token that is left, and one
\* more where a turn is open.
Fuel ==
    CASE state = "pending" -> 2 * ResponseLength + 2
      [] state = "generating" -> 2 * Left + 1
      [] state \in {"processing_tools", "interacting"} -> 2 * Left + 2
      [] OTHER -> 0

\* every handler that runs leaves fewer that can
Burns == Fuel \in Nat /\ Fuel' \in Nat /\ Fuel' < Fuel

\* The arithmetic of the fuel.
LEMMA LessFuel ==
  ASSUME NEW l \in Nat, NEW k \in Nat, k <= l
  PROVE  /\ 2 * l + 1 \in Nat /\ 2 * l + 2 \in Nat
         /\ 0 < 2 * l + 1 /\ 0 < 2 * l + 2
         /\ 2 * k + 1 \in Nat /\ 2 * k + 1 < 2 * l + 2
  OBVIOUS

LEMMA LeftShrinks ==
  ASSUME NEW l \in Nat, NEW n \in Nat, Len(response_mask) = l,
         Len(response_mask') = l + n
  PROVE  /\ Left \in Nat /\ Left' \in Nat /\ Left' <= Left
         /\ l + n < ResponseLength /\ n > 0 => Left' < Left
  <1>1. ResponseLength \in Nat
    BY LengthsAssumption
  <1>2. /\ Left = IF l < ResponseLength THEN ResponseLength - l ELSE 0
        /\ Left' = IF l + n < ResponseLength THEN ResponseLength - (l + n) ELSE 0
    BY DEF Left
  <1> QED
    BY <1>1, <1>2

LEMMA LeftTyped == TypeOK => Left \in Nat
  <1> SUFFICES ASSUME TypeOK PROVE Left \in Nat
    OBVIOUS
  <1>1. Len(response_mask) \in Nat /\ ResponseLength \in Nat
    BY LenProperties, LengthsAssumption DEF TypeOK
  <1> QED
    BY <1>1 DEF Left

LEMMA FuelTyped == IInv => Fuel \in 0 .. 2 * ResponseLength + 2
  <1> SUFFICES ASSUME IInv PROVE Fuel \in 0 .. 2 * ResponseLength + 2
    OBVIOUS
  <1>1. Len(response_mask) \in Nat /\ ResponseLength \in Nat
    BY LenProperties, LengthsAssumption DEF IInv, TypeOK
  <1>2. Left \in Nat /\ Left <= ResponseLength
    BY <1>1 DEF Left
  <1> QED
    BY <1>1, <1>2 DEF Fuel

LEMMA PendingBurns ==
  ASSUME IInv, NEW n \in PromptLengths, Pending(n)
  PROVE  Burns
  <1>1. state = "pending" /\ state' = "generating" /\ response_mask' = response_mask
    BY DEF Pending
  <1>2. ResponseLength \in Nat /\ Left \in Nat /\ Left' = Left
    BY <1>1, LeftTyped, LengthsAssumption DEF IInv, Left
  <1>3. Left <= ResponseLength
    <2>1. Len(response_mask) \in Nat
      BY LenProperties DEF IInv, TypeOK
    <2> QED
      BY <1>2, <2>1 DEF Left
  <1>4. Fuel = 2 * ResponseLength + 2 /\ Fuel' = 2 * Left + 1
    BY <1>1, <1>2 DEF Fuel
  <1> QED
    BY <1>2, <1>3, <1>4 DEF Burns

LEMMA GenerateBurns ==
  ASSUME IInv, NEW n \in 0 .. MaxModelLen, NEW c \in CallCounts, Generate(n, c)
  PROVE  Burns
  <1> DEFINE l == Len(response_mask)
  <1>1. /\ n \in Nat /\ l \in Nat /\ Len(response_mask') = l + n
        /\ l < ResponseLength => n > 0
    BY GenerateGrows
  <1>2. /\ Left \in Nat /\ Left' \in Nat
        /\ l + n < ResponseLength /\ n > 0 => Left' < Left
    BY <1>1, LeftShrinks
  <1>3. Fuel = 2 * Left + 1
    BY DEF Fuel, Generate
  <1>4. CASE LimitReached
    <2>1. Fuel' = 0
      BY <1>4 DEF Fuel, Generate
    <2> QED
      BY <1>2, <1>3, <2>1 DEF Burns
  <1>5. CASE ~LimitReached
    <2>1. l + n < ResponseLength /\ ResponseLength \in Nat
      BY <1>1, <1>5, LengthsAssumption DEF LimitReached
    <2>2. Left' < Left
      BY <1>1, <1>2, <2>1
    <2>3. state' = Decision(c)
      BY <1>5 DEF Generate
    <2>4. Fuel' = 0 \/ Fuel' = 2 * Left' + 2
      BY <2>3 DEF Fuel, Decision
    <2> QED
      BY <1>2, <1>3, <2>2, <2>4 DEF Burns
  <1> QED
    BY <1>4, <1>5

LEMMA GenerateRaisesBurns ==
  ASSUME IInv, GenerateRaises
  PROVE  Burns
  <1>1. Fuel = 2 * Left + 1 /\ Fuel' = 0
    BY DEF Fuel, GenerateRaises
  <1>2. Left \in Nat
    BY LeftTyped DEF IInv
  <1> QED
    BY <1>1, <1>2 DEF Burns

LEMMA ProcessToolsBurns ==
  ASSUME IInv, NEW r \in BlockLengths, ProcessTools(r)
  PROVE  Burns
  <1>1. /\ state = "processing_tools" /\ Left \in Nat
        /\ Fuel = 2 * Left + 2
    BY LeftTyped DEF IInv, Fuel, ProcessTools
  <1>2. CASE Overflows(r)
    <2>1. Fuel' = 0
      BY <1>2 DEF Fuel, ProcessTools
    <2> QED
      BY <1>1, <2>1 DEF Burns
  <1>3. CASE ~Overflows(r)
    <2>1. AppendBlock(r) /\ state' = "generating" /\ log_probs' = log_probs
      BY <1>3 DEF ProcessTools, config
    <2>2. /\ r \in Nat /\ Len(response_mask) \in Nat
          /\ Len(response_mask') = Len(response_mask) + r
      BY <1>1, <2>1, BlockGrown
    <2>3. Left' \in Nat /\ Left' <= Left
      BY <2>2, LeftShrinks
    <2>4. Fuel' = 2 * Left' + 1
      BY <2>1 DEF Fuel
    <2>5. Left \in Nat /\ Fuel = 2 * Left + 2
      BY <1>1
    <2> QED
      BY <2>3, <2>4, <2>5, LessFuel DEF Burns
  <1> QED
    BY <1>2, <1>3

LEMMA InteractBurns ==
  ASSUME IInv, NEW r \in BlockLengths, NEW stop \in BOOLEAN, Interact(r, stop)
  PROVE  Burns
  <1>1. /\ state = "interacting" /\ Left \in Nat
        /\ Fuel = 2 * Left + 2
        /\ AppendBlock(r) /\ log_probs' = log_probs
        /\ state' \in {"terminated", "generating"}
    BY LeftTyped DEF IInv, Fuel, Interact, config
  <1>2. /\ r \in Nat /\ Len(response_mask) \in Nat
        /\ Len(response_mask') = Len(response_mask) + r
    BY <1>1, BlockGrown
  <1>3. Left' \in Nat /\ Left' <= Left
    BY <1>2, LeftShrinks
  <1>4. Fuel' = 0 \/ Fuel' = 2 * Left' + 1
    BY <1>1 DEF Fuel
  <1>5. Left \in Nat /\ Fuel = 2 * Left + 2
    BY <1>1
  <1> QED
    BY <1>3, <1>4, <1>5, LessFuel DEF Burns

LEMMA NextBurns == IInv /\ [Next]_vars => [Fuel' < Fuel]_vars
  <1> SUFFICES ASSUME IInv, Next PROVE Fuel' < Fuel
    OBVIOUS
  <1>1. ASSUME NEW n \in PromptLengths, Pending(n) PROVE Burns
    BY <1>1, PendingBurns
  <1>2. ASSUME NEW n \in 0 .. MaxModelLen, NEW c \in CallCounts, Generate(n, c)
        PROVE  Burns
    BY <1>2, GenerateBurns
  <1>3. ASSUME GenerateRaises PROVE Burns
    BY <1>3, GenerateRaisesBurns
  <1>4. ASSUME NEW r \in BlockLengths, ProcessTools(r) PROVE Burns
    BY <1>4, ProcessToolsBurns
  <1>5. ASSUME NEW r \in BlockLengths, NEW stop \in BOOLEAN, Interact(r, stop)
        PROVE  Burns
    BY <1>5, InteractBurns
  <1>6. Burns
    BY <1>1, <1>2, <1>3, <1>4, <1>5 DEF Next
  <1> QED
    BY <1>6 DEF Burns

\* A rollout takes at most 2 * response_length + 2 handlers, whatever the
\* model, the tools and the interaction answer, and with no limit of turns at
\* all (both are null in the default configuration): every answer adds a token
\* to the response as long as there is room, and only an answer that leaves
\* room is followed by another handler (the loop of run over AgentState).
THEOREM RolloutIsBounded ==
    Spec => [](Fuel \in 0 .. 2 * ResponseLength + 2) /\ [][Fuel' < Fuel]_vars
  BY Invariance, FuelTyped, NextBurns, PTL DEF Spec

=============================================================================
