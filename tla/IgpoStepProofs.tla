--------------------------- MODULE IgpoStepProofs ---------------------------
(***************************************************************************)
(* The training step with information gain, for every group, response      *)
(* length, score and log-prob: what was proved of the conversations holds  *)
(* through the driver's steps, and the outcome reaches the estimator.      *)
(***************************************************************************)
EXTENDS IgpoStep, ToolAgentProofs

-----------------------------------------------------------------------------
(* The conversations: the driver leaves them alone.                        *)

LEMMA AgentsInStep == Spec => []AInv
  <1>1. Init => AInv
    BY InvInit DEF Init
  <1>2. AInv /\ [Next]_vars => AInv'
    <2>1. [Next]_vars => [AgentNext]_agentVars
      BY DEF Next, Converse, Gather, Inject, Penalize, ComputeAdvantage, vars
    <2> QED
      BY <2>1, InvStep
  <1> QED
    BY <1>1, <1>2, PTL DEF Spec

(* What is proved of the conversations holds in a training step, and the   *)
(* masks and responses the driver reads are the ones they left.            *)
THEOREM ConversationsInStep == Spec => [](AgentTypeOK /\ MaskAligned /\ ToolsLeaveRoom /\ LastWord)
  <1>1. AInv => AgentTypeOK /\ MaskAligned /\ ToolsLeaveRoom /\ LastWord
    BY DEF AInv
  <1> QED
    BY <1>1, AgentsInStep, PTL

-----------------------------------------------------------------------------
(* Where the estimator looks for the outcome: the last kept token.         *)

LEMMA CutLength ==
    ASSUME NEW X, NEW s \in Seq(X)
    PROVE  /\ Cut(s) \in Seq(X)
           /\ Len(Cut(s)) = IF Len(s) < ResponseLength THEN Len(s) ELSE ResponseLength
           /\ Len(Cut(s)) \in 0 .. ResponseLength
  <1>1. ResponseLength \in Nat
    BY AgentAssumption
  <1>2. CASE Len(s) < ResponseLength
    <2>1. Cut(s) = SubSeq(s, 1, Len(s))
      BY <1>2 DEF Cut
    <2>2. SubSeq(s, 1, Len(s)) = s
      OBVIOUS
    <2> QED
      BY <1>1, <1>2, <2>1, <2>2
  <1>3. CASE ~(Len(s) < ResponseLength)
    <2>1. Cut(s) = SubSeq(s, 1, ResponseLength)
      BY <1>3 DEF Cut
    <2>2. ResponseLength <= Len(s)
      BY <1>1, <1>3
    <2>3. SubSeq(s, 1, ResponseLength) \in Seq(X) /\ Len(SubSeq(s, 1, ResponseLength)) = ResponseLength
      BY <1>1, <2>2
    <2> QED
      BY <1>1, <1>3, <2>1, <2>3
  <1> QED
    BY <1>2, <1>3

LEMMA GreatestOf ==
    ASSUME NEW S, S \subseteq Int, NEW m \in S, \A y \in S : m >= y
    PROVE  Max(S) = m
  <1>1. \A x \in S : (\A y \in S : x >= y) => x = m
    OBVIOUS
  <1> QED
    BY <1>1 DEF Max

LEMMA OutcomeLast ==
    ASSUME AInv, ~interactive, NEW c \in Conversations, agentState[c] = "terminated",
           NEW k \in OutcomeMask(c)
    PROVE  k = Len(FinalResponse(c)) /\ k \in Positions
  <1> DEFINE valid == {j \in Positions : Mask(c)[j] = 1}
             m == Len(FinalMask(c))
  <1>1. response[c] \in Seq(TokenKind) /\ responseMask[c] \in Seq({0, 1})
    BY DEF AInv, AgentTypeOK
  <1>2. Len(FinalResponse(c)) = m
    <2>1. Len(responseMask[c]) = Len(response[c])
      BY DEF AInv, MaskAligned
    <2> QED
      BY <1>1, <2>1, CutLength DEF FinalResponse, FinalMask
  <1>3. FinalMask(c) \in Seq({0, 1}) /\ m \in 0 .. ResponseLength
    BY <1>1, CutLength DEF FinalMask
  <1>4. valid # {} /\ k = Max(valid)
    BY DEF OutcomeMask
  <1>5. ResponseLength \in Nat
    BY AgentAssumption
  <1>6. \A j \in valid : j \in 1 .. m
    <2> TAKE j \in valid
    <2>1. Mask(c)[j] = IF j \in DOMAIN FinalMask(c) THEN FinalMask(c)[j] ELSE 0
      BY DEF Mask
    <2>2. j \in DOMAIN FinalMask(c)
      BY <2>1
    <2> QED
      BY <1>3, <2>2
  <1>7. m \in valid
    <2>1. m \in 1 .. ResponseLength
      BY <1>3, <1>4, <1>5, <1>6
    <2>2. FinalMask(c)[m] = 1
      BY DEF AInv, LastWord
    <2>3. m \in DOMAIN FinalMask(c)
      BY <1>3, <2>1
    <2> QED
      BY <2>1, <2>2, <2>3 DEF Mask, Positions
  <1>8. valid \subseteq Int /\ \A j \in valid : m >= j
    BY <1>3, <1>6
  <1>9. Max(valid) = m
    <2> HIDE DEF valid, m
    <2> QED
      BY <1>7, <1>8, GreatestOf
  <1> QED
    BY <1>2, <1>4, <1>7, <1>9

-----------------------------------------------------------------------------
(* What the two ways of scoring put there. A gain never takes the place of *)
(* the outcome, wherever the turns of the response end.                    *)

ScoredAtEnd ==
    \A c \in Conversations : \A k \in Positions :
       k = Len(FinalResponse(c)) => rmScores[c][k] = outcome[c]

LEMMA OutcomeKept ==
    ASSUME NEW tokens, NEW gains, NEW score, Len(tokens) \in Positions
    PROVE  TokenRewards(tokens, gains, score)[Len(tokens)] = score
  BY DEF TokenRewards

(* After the rollout every conversation has ended; with reward workers the *)
(* scores are there when the batch is, without them when the manager ran.  *)
ScoresOK ==
    /\ stage # "rollout" => \A c \in Conversations : agentState[c] = "terminated"
    /\ stage = "inject" /\ streamed => ScoredAtEnd
    /\ stage \in {"penalize", "advantage", "done"} => ScoredAtEnd

LEMMA ScoresStep == ScoresOK /\ [Next]_vars => ScoresOK'
  <1> SUFFICES ASSUME ScoresOK, [Next]_vars PROVE ScoresOK'
    OBVIOUS
  <1>1. ASSUME UNCHANGED <<agentVars, rmScores, outcome>>
        PROVE  ScoredAtEnd' <=> ScoredAtEnd
    BY <1>1 DEF ScoredAtEnd, FinalResponse, Cut, agentVars
  <1>2. CASE Converse
    BY <1>2 DEF Converse, driverVars, ScoresOK
  <1>3. CASE Gather
    <2>1. stage' = "inject" /\ UNCHANGED <<agentVars, streamed>>
          /\ \A c \in Conversations : agentState[c] = "terminated"
      BY <1>3 DEF Gather
    <2>2. ASSUME streamed PROVE ScoredAtEnd'
      <3>1. PICK score \in [Conversations -> Scores] :
              /\ outcome' = score
              /\ rmScores' = [c \in Conversations |-> StreamedRewards(c, score[c])]
        BY <1>3, <2>2 DEF Gather
      <3>2. ASSUME NEW c \in Conversations, NEW k \in Positions, k = Len(FinalResponse(c))
            PROVE  rmScores'[c][k] = score[c]
        BY <3>1, <3>2 DEF StreamedRewards
      <3>3. \A c \in Conversations : FinalResponse(c)' = FinalResponse(c)
        BY <2>1 DEF FinalResponse, Cut, agentVars
      <3> QED
        BY <3>1, <3>2, <3>3 DEF ScoredAtEnd
    <2> QED
      BY <2>1, <2>2 DEF ScoresOK, agentVars
  <1>4. CASE Inject
    <2>1. /\ stage = "inject" /\ stage' = "penalize" /\ UNCHANGED <<agentVars, streamed, outcome>>
          /\ \A c \in Conversations : agentState[c] = "terminated"
      BY <1>4 DEF Inject, ScoresOK
    <2>2. CASE streamed
      <3>1. ScoredAtEnd /\ UNCHANGED rmScores
        BY <1>4, <2>1, <2>2 DEF Inject, ScoresOK
      <3> QED
        BY <1>1, <2>1, <3>1 DEF ScoresOK, agentVars
    <2>3. CASE ~streamed
      <3>1. rmScores' = [c \in Conversations |->
                           TokenRewards(FinalResponse(c), igRewards'[c], outcome[c])]
        BY <1>4, <2>3 DEF Inject
      <3>2. ASSUME NEW c \in Conversations, NEW k \in Positions, k = Len(FinalResponse(c))
            PROVE  rmScores'[c][k] = outcome[c]
        BY <3>1, <3>2, OutcomeKept
      <3>3. \A c \in Conversations : FinalResponse(c)' = FinalResponse(c)
        BY <2>1 DEF FinalResponse, Cut, agentVars
      <3>4. ScoredAtEnd'
        BY <2>1, <3>2, <3>3 DEF ScoredAtEnd
      <3> QED
        BY <2>1, <3>4 DEF ScoresOK, agentVars
    <2> QED
      BY <2>2, <2>3
  <1>5. CASE Penalize
    <2>1. /\ stage = "penalize" /\ stage' = "advantage"
          /\ UNCHANGED <<agentVars, rmScores, outcome>>
      BY <1>5 DEF Penalize
    <2> QED
      BY <1>1, <2>1 DEF ScoresOK, agentVars
  <1>6. CASE ComputeAdvantage
    <2>1. /\ stage = "advantage" /\ stage' = "done"
          /\ UNCHANGED <<agentVars, rmScores, outcome>>
      BY <1>6 DEF ComputeAdvantage
    <2> QED
      BY <1>1, <2>1 DEF ScoresOK, agentVars
  <1>7. CASE UNCHANGED vars
    BY <1>1, <1>7 DEF vars, driverVars, agentVars, ScoresOK
  <1> QED
    BY <1>2, <1>3, <1>4, <1>5, <1>6, <1>7 DEF Next

(* With tools the estimator reads the outcome of every conversation where  *)
(* the agent loop or the reward manager put it, whatever the gains, the    *)
(* lengths and the limits (igpo.py:308-366, core_algos.py:2611-2626).      *)
THEOREM OutcomeArrives == Spec => []OutcomeSurvives
  <1>1. Init => ScoresOK
    BY DEF Init, ScoresOK
  <1>2. AInv /\ ScoresOK => OutcomeSurvives
    <2> SUFFICES ASSUME AInv, ScoresOK, ~interactive,
                        stage \in {"penalize", "advantage", "done"},
                        NEW c \in Conversations, NEW k \in OutcomeMask(c)
                 PROVE  rmScores[c][k] = outcome[c]
      BY DEF OutcomeSurvives
    <2>1. agentState[c] = "terminated" /\ ScoredAtEnd
      BY DEF ScoresOK
    <2>2. k = Len(FinalResponse(c)) /\ k \in Positions
      BY <2>1, OutcomeLast
    <2> QED
      BY <2>1, <2>2 DEF ScoredAtEnd
  <1> QED
    BY <1>1, <1>2, ScoresStep, AgentsInStep, PTL DEF Spec

=============================================================================
