------------------------------ MODULE IgpoStep ------------------------------
(***************************************************************************)
(* One training step with the information-gain estimator (IGPO): the       *)
(* conversations of one prompt's group (ToolAgent), then, in the driver of *)
(* trainer/ppo/ray_trainer.py, the gains of the turns                      *)
(* (_inject_igpo_ig_rewards), their place in the reward tensor             *)
(* (IGPORewardManager), the KL penalty and the advantages.  Rewards are    *)
(* integers; Sentinel is IG_ZERO_SENTINEL, a value no gain or score has.   *)
(***************************************************************************)
EXTENDS ToolAgent, SequencesExt

CONSTANTS
    AnswerLength,     \* tokens of the ground truth with prefix and suffix
    LogProbRows,      \* mean log-probs a conversation's turns may have
    Scores,           \* outcome rewards compute_score may give
    Penalties,        \* rows of beta * kl; zeros without use_kl_in_reward
    StreamedChoices,  \* do reward loop workers score during the rollout?
    Missing           \* a log-prob that is nan, inf, or of no context

Sentinel == 1

VARIABLES
    stage,      \* what the driver of fit() does next
    streamed,   \* reward_loop_worker_handles is not None
    outcome,    \* the score of each conversation
    logProbs,   \* pair_logprob, by conversation and turn
    igRewards,  \* non_tensor_batch["ig_rewards"]
    rmScores,   \* batch["rm_scores"]; rows of response_length rewards
    rewards,    \* batch["token_level_rewards"]
    advantages, \* batch["advantages"], times Scale
    readAt      \* where the answer of a pair's row is, and where it is read

driverVars == <<stage, streamed, outcome, logProbs, igRewards, rmScores,
                rewards, advantages, readAt>>
vars == <<agentVars, driverVars>>

Positions == 1..ResponseLength
NoRewards == [c \in Conversations |-> [k \in Positions |-> 0]]

---------------------------------------------------------------------------
(* Turn boundaries: where the separator starts in the decoded response.    *)
(* Decoding with skip_special_tokens takes its special token out of it.    *)

Decoded(tokens, skipSpecial) ==
    [k \in DOMAIN tokens |->
       IF skipSpecial /\ tokens[k] = "sep" THEN "obs" ELSE tokens[k]]

SepPositions(tokens) ==
    SetToSortSeq({k \in DOMAIN tokens : tokens[k] = "sep"}, <)

Seps(c) == SepPositions(Decoded(FinalResponse(c), FALSE))

NumTurns == Max({Len(Seps(c)) + 1 : c \in Conversations})

(* Pairs of a conversation and a turn that have a context, and the length  *)
(* of that context beyond the prompt: the response up to the separator.    *)
Pairs == {p \in Conversations \X (0..NumTurns - 1) : p[2] <= Len(Seps(p[1]))}

ContextLength(p) == IF p[2] = 0 THEN 0 ELSE Seps(p[1])[p[2]] - 1

(* Every row of the batch is the context and then the answer, padded on    *)
(* the right; the actor returns the log-probs of the batch's last          *)
(* AnswerLength columns.                                                   *)
RowLength == Max({ContextLength(p) : p \in Pairs}) + AnswerLength
AnswerAt(p) == ContextLength(p)
ReadFrom(p) == RowLength - AnswerLength

(* compute_all_ig_batched: differences of consecutive log-probs that are   *)
(* there; a missing one is skipped, and a missing first one leaves none.   *)
Gains(lps) ==
    LET step(acc, lp) ==
          IF lp = Missing \/ acc.prev = Missing THEN acc
          ELSE [prev |-> lp, gains |-> Append(acc.gains, lp - acc.prev)]
    IN  FoldLeft(step, [prev |-> lps[1], gains |-> <<>>], Tail(lps)).gains

LogProbsOf(row, c) ==
    [t \in 1..NumTurns |-> IF <<c, t - 1>> \in Pairs THEN row[t] ELSE Missing]

---------------------------------------------------------------------------
(* IGPORewardManager                                                       *)

(* _find_turn_end_token_indices: the token before each separator, and the  *)
(* last one.                                                               *)
TurnEnds(tokens) ==
    {k \in DOMAIN tokens : k = Len(tokens) \/ tokens[k + 1] = "sep"}

(* The turn a token is in: one more than the separators up to it.          *)
TurnOf(tokens, k) == Cardinality({j \in 1..k : tokens[j] = "sep"}) + 1

Placed(gain) == IF gain = 0 THEN Sentinel ELSE gain

(* Mutant: the last turn's end takes a gain too.                           *)
RewardsOffByOne(tokens, gains, score) ==
    LET decoded == Decoded(tokens, TRUE)
        credited == {k \in TurnEnds(decoded) : TurnOf(decoded, k) \in DOMAIN gains}
    IN  [k \in Positions |->
           IF k \in credited THEN Placed(gains[TurnOf(decoded, k)])
           ELSE IF k = Len(tokens) THEN score ELSE 0]

(* _build_token_rewards, padded to response_length.                        *)
TokenRewards(tokens, gains, score) ==
    LET decoded == Decoded(tokens, TRUE)
        credited == {k \in TurnEnds(decoded) \ {Len(tokens)} :
                       TurnOf(decoded, k) \in DOMAIN gains}
    IN  [k \in Positions |->
           IF k \in credited THEN Placed(gains[TurnOf(decoded, k)])
           ELSE IF k = Len(tokens) THEN score ELSE 0]

(* rm_scores of the agent loop: the score at the last attended token.      *)
StreamedRewards(c, score) ==
    [k \in Positions |-> IF k = Len(FinalResponse(c)) THEN score ELSE 0]

---------------------------------------------------------------------------
(* compute_igpo_advantage, with weights 1 and normalisation by the mean    *)

Mask(c) == [k \in Positions |-> IF k \in DOMAIN FinalMask(c) THEN FinalMask(c)[k] ELSE 0]

OutcomeMask(c) ==
    LET valid == {k \in Positions : Mask(c)[k] = 1}
    IN  IF valid = {} THEN {} ELSE {Max(valid)}

IgMask(c, r) ==
    {k \in Positions : Mask(c)[k] = 1 /\ k \notin OutcomeMask(c) /\ r[c][k] # 0}

Count(mask) == MapThenSumSet(LAMBDA c : Cardinality(mask[c]), Conversations)

GroupSum(mask, r) ==
    MapThenSumSet(LAMBDA c : MapThenSumSet(LAMBDA k : r[c][k], mask[c]), Conversations)

(* A common multiple of the counts, by which normalised rewards are kept.  *)
Scale(r) ==
    LET igs == Count([c \in Conversations |-> IgMask(c, r)])
        outs == Count([c \in Conversations |-> OutcomeMask(c)])
    IN  (IF igs = 0 THEN 1 ELSE igs) * (IF outs = 0 THEN 1 ELSE outs)

(* _group_normalise: a reward minus the mean of its kind in the group.     *)
Centred(mask, r, scale) ==
    LET mean == (scale \div Count(mask)) * GroupSum(mask, r)
    IN  [c \in Conversations |-> [k \in Positions |->
           IF k \in mask[c] THEN scale * r[c][k] - mean ELSE 0]]

Normalised(r) ==
    LET ig == Centred([c \in Conversations |-> IgMask(c, r)], r, Scale(r))
        out == Centred([c \in Conversations |-> OutcomeMask(c)], r, Scale(r))
    IN  [c \in Conversations |-> [k \in Positions |-> ig[c][k] + out[c][k]]]

Boundaries(r, c) == SetToSortSeq(IgMask(c, r) \cup OutcomeMask(c), <)

(* _compute_igpo_turn_level_returns with gamma 1: sums from the last       *)
(* boundary backwards, each given to the tokens of its span.               *)
TurnReturns(norm, ends) ==
    FoldRight(LAMBDA k, sums :
                <<norm[k] + (IF sums = <<>> THEN 0 ELSE Head(sums))>> \o sums,
              ends, <<>>)

(* Mutant: a span starts at the boundary before it.                        *)
SpanOverlaps(ends, t) == IF t = 1 THEN 1 ELSE ends[t - 1]

SpanStart(ends, t) == IF t = 1 THEN 1 ELSE ends[t - 1] + 1

Broadcast(c, norm, ends) ==
    LET sums == TurnReturns(norm, ends)
        turn(k) == {t \in DOMAIN ends : k \in SpanStart(ends, t)..ends[t]}
    IN  [k \in Positions |->
           IF Mask(c)[k] = 1 /\ turn(k) # {} THEN sums[Max(turn(k))] ELSE 0]

IgpoAdvantages(r) ==
    LET norm == Normalised(r)
    IN  [c \in Conversations |-> Broadcast(c, norm[c], Boundaries(r, c))]

---------------------------------------------------------------------------
Init ==
    /\ AgentInit
    /\ stage = "rollout"
    /\ streamed \in StreamedChoices
    /\ outcome = [c \in Conversations |-> 0]
    /\ logProbs = <<>>
    /\ igRewards = [c \in Conversations |-> <<>>]
    /\ rmScores = NoRewards
    /\ rewards = NoRewards
    /\ advantages = NoRewards
    /\ readAt = <<>>

Converse == AgentNext /\ stage = "rollout" /\ UNCHANGED driverVars

(* generate_sequences returns: the batch is assembled, with rm_scores if   *)
(* the agent loop had its samples scored.                                  *)
Gather ==
    /\ stage = "rollout"
    /\ \A c \in Conversations : agentState[c] = "terminated"
    /\ \E score \in [Conversations -> Scores] :
         /\ outcome' = score
         /\ rmScores' = [c \in Conversations |->
              IF streamed THEN StreamedRewards(c, score[c]) ELSE [k \in Positions |-> 0]]
    /\ stage' = "inject"
    /\ UNCHANGED <<agentVars, streamed, logProbs, igRewards, rewards, advantages, readAt>>

(* _inject_igpo_ig_rewards: gains, then the reward manager, which returns  *)
(* the rm_scores it finds.  A batch of single turns has no gains.          *)
Inject ==
    /\ stage = "inject"
    /\ IF NumTurns = 1
       THEN /\ igRewards' = [c \in Conversations |-> <<>>]
            /\ UNCHANGED <<logProbs, readAt>>
       ELSE /\ \E row \in [Conversations -> LogProbRows] :
                 logProbs' = [c \in Conversations |-> LogProbsOf(row[c], c)]
            /\ igRewards' = [c \in Conversations |-> Gains(logProbs'[c])]
            /\ readAt' = [p \in Pairs |-> <<AnswerAt(p), ReadFrom(p)>>]
    /\ rmScores' = IF streamed THEN rmScores
                   ELSE [c \in Conversations |->
                           TokenRewards(FinalResponse(c), igRewards'[c], outcome[c])]
    /\ stage' = "penalize"
    /\ UNCHANGED <<agentVars, streamed, outcome, rewards, advantages>>

(* apply_kl_penalty: the divergence is masked, then taken off the scores.  *)
Penalize ==
    /\ stage = "penalize"
    /\ \E penalty \in Penalties :
         rewards' = [c \in Conversations |-> [k \in Positions |->
                       rmScores[c][k] - penalty[k] * Mask(c)[k]]]
    /\ stage' = "advantage"
    /\ UNCHANGED <<agentVars, streamed, outcome, logProbs, igRewards, rmScores,
                   advantages, readAt>>

ComputeAdvantage ==
    /\ stage = "advantage"
    /\ advantages' = IgpoAdvantages(rewards)
    /\ stage' = "done"
    /\ UNCHANGED <<agentVars, streamed, outcome, logProbs, igRewards, rmScores,
                   rewards, readAt>>

Next == Converse \/ Gather \/ Inject \/ Penalize \/ ComputeAdvantage

Spec == Init /\ [][Next]_vars

(* The event loop of a worker runs every conversation it has.              *)
FairSpec == Spec /\ \A c \in Conversations : WF_vars(AgentStep(c) /\ Converse)

---------------------------------------------------------------------------
(* Outcome: whether it was streamed or placed by the manager, whatever the *)
(* gains, the estimator finds the outcome where it looks for it, at the    *)
(* last token of the loss mask (if no user message ended the dialogue).    *)
OutcomeSurvives ==
    ~interactive /\ stage \in {"penalize", "advantage", "done"} =>
       \A c \in Conversations :
          \A k \in OutcomeMask(c) : rmScores[c][k] = outcome[c]

(* Returns: each token of the model is given the sum of the normalised     *)
(* rewards at and after it, an observation nothing, in two passes that     *)
(* never look at a token twice, for any set of rewarded tokens.            *)
ReturnsAreSuffixSums ==
    stage = "done" =>
       LET norm == Normalised(rewards) IN
       \A c \in Conversations, k \in Positions :
          advantages[c][k] =
             IF Mask(c)[k] = 0 THEN 0
             ELSE MapThenSumSet(LAMBDA j : norm[c][j], k..ResponseLength)

(* Gains credited (not met): gain t is the reward of the last token of     *)
(* turn t, as the head of igpo.py says.                                    *)
LastGenerated(c, t) == Max({k \in 1..Seps(c)[t] : FinalResponse(c)[k] = "gen"})

GainsCredited ==
    stage \in {"penalize", "advantage", "done"} =>
       \A c \in Conversations : \A t \in DOMAIN igRewards[c] :
          rmScores[c][LastGenerated(c, t)] =
             IF igRewards[c][t] = 0 THEN Sentinel ELSE igRewards[c][t]

(* Turns without a log-prob (not met): their gain is 0, as the docstring   *)
(* of compute_all_ig_batched says; the code appends nothing for them, so   *)
(* the gain of a later turn comes to stand at the one that has none.       *)
MissingTurnsYieldZero ==
    \A c \in DOMAIN logProbs : \A t \in DOMAIN igRewards[c] :
       logProbs[c][t + 1] = Missing => igRewards[c][t] = 0

(* Answer read (not met): the log-probs taken for a turn are those of the  *)
(* answer, not of other columns of its row.                                *)
ReadsAnswer == \A p \in DOMAIN readAt : readAt[p][1] = readAt[p][2]

===========================================================================
