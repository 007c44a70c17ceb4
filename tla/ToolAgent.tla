------------------------------ MODULE ToolAgent ------------------------------
(***************************************************************************)
(* The tool agent loop of experimental/agent_loop/tool_agent_loop.py: a    *)
(* state machine per conversation that alternates between the model's      *)
(* tokens and the observations (tool responses, user messages) that are    *)
(* appended to its context, until a limit is reached or nothing is asked   *)
(* for.  A token is its kind: "gen" for the model's own, "obs" for an      *)
(* observation's, and "sep" for the assistant header the chat template     *)
(* ends an observation with.                                               *)
(***************************************************************************)
EXTENDS Integers, Sequences

CONSTANTS
    Conversations,       \* the trajectories of a batch
    ResponseLength,      \* rollout.response_length
    PromptSlack,         \* rollout.prompt_length minus the prompt's tokens
    GenerationLengths,   \* lengths a generation may have, besides all the room
    ObservationLengths,  \* lengths an observation may have, header included
    MaxAssistantTurns,   \* multi_turn.max_assistant_turns, 0 for no limit
    MaxUserTurns,        \* multi_turn.max_user_turns, 0 for no limit
    InteractionChoices   \* is interaction_config_file set?

ASSUME AgentAssumption ==
    /\ ResponseLength \in Nat \ {0}
    /\ PromptSlack \in Nat
    /\ GenerationLengths \subseteq Nat
    /\ ObservationLengths \subseteq Nat \ {0}
    /\ MaxAssistantTurns \in Nat /\ MaxUserTurns \in Nat
    /\ InteractionChoices \subseteq BOOLEAN

VARIABLES
    interactive,     \* bool(interaction_config_file), the same for all
    agentState,      \* [Conversations -> AgentState]; "raised" if run() raised
    response,        \* prompt_ids without the prompt
    responseMask,    \* response_mask
    assistantTurns,  \* assistant_turns
    userTurns        \* user_turns

agentVars == <<interactive, agentState, response, responseMask,
               assistantTurns, userTurns>>

AgentState == {"pending", "generating", "processing_tools", "interacting",
               "terminated", "raised"}

TokenKind == {"gen", "obs", "sep"}

AgentTypeOK ==
    /\ interactive \in BOOLEAN
    /\ agentState \in [Conversations -> AgentState]
    /\ response \in [Conversations -> Seq(TokenKind)]
    /\ ~interactive => \A c \in Conversations : Len(response[c]) <= ResponseLength + PromptSlack
    /\ responseMask \in [Conversations -> Seq({0, 1})]
    /\ assistantTurns \in [Conversations -> Nat]
    /\ userTurns \in [Conversations -> Nat]

AgentInit ==
    /\ interactive \in InteractionChoices
    /\ agentState = [c \in Conversations |-> "pending"]
    /\ response = [c \in Conversations |-> <<>>]
    /\ responseMask = [c \in Conversations |-> <<>>]
    /\ assistantTurns = [c \in Conversations |-> 0]
    /\ userTurns = [c \in Conversations |-> 0]

(* Mutant: the tokens the conversation already has are not taken off.      *)
RoomPerTurn(c) == ResponseLength

(* max_tokens of a generation: what the server leaves room for.            *)
Room(c) ==
    LET budget == ResponseLength + PromptSlack - Len(response[c])
    IN  IF budget < ResponseLength THEN budget ELSE ResponseLength

Generated(n) == [k \in 1..n |-> "gen"]

(* An observation rendered by the chat template: its last token stands for *)
(* the header that makes the model speak.                                  *)
Observation(n) == [k \in 1..n |-> IF k = n THEN "sep" ELSE "obs"]

Appended(c, tokens, bit) ==
    /\ response' = [response EXCEPT ![c] = @ \o tokens]
    /\ responseMask' =
         [responseMask EXCEPT ![c] = @ \o [k \in 1..Len(tokens) |-> bit]]

Becomes(c, next) == agentState' = [agentState EXCEPT ![c] = next]

---------------------------------------------------------------------------
(* _handle_pending_state: the prompt is rendered.                          *)
HandlePending(c) ==
    /\ agentState[c] = "pending"
    /\ Becomes(c, "generating")
    /\ UNCHANGED <<interactive, response, responseMask, assistantTurns, userTurns>>

(* One of the three limits is reached after a generation.                  *)
LimitReached(length, assistant, user) ==
    \/ length >= ResponseLength
    \/ MaxAssistantTurns # 0 /\ assistant >= MaxAssistantTurns
    \/ MaxUserTurns # 0 /\ user >= MaxUserTurns

(* _handle_generating_state: the model's tokens are appended; if no limit  *)
(* is reached, what they contain (a tool call or none) says what is next.  *)
HandleGenerating(c) ==
    /\ agentState[c] = "generating"
    /\ \E n \in (GenerationLengths \cup {Room(c)}) \cap 1..Room(c), calls \in BOOLEAN :
         LET after == Len(responseMask[c]) + n IN
         /\ Appended(c, Generated(n), 1)
         /\ Becomes(c,
              IF LimitReached(after, assistantTurns[c] + 1, userTurns[c])
                THEN "terminated"
              ELSE IF calls THEN "processing_tools"
              ELSE IF interactive THEN "interacting"
              ELSE "terminated")
    /\ assistantTurns' = [assistantTurns EXCEPT ![c] = @ + 1]
    /\ UNCHANGED <<interactive, userTurns>>

(* Mutant: only an overfull context is refused; a full one waits for ever. *)
RefusedWhenOver(c) ==
    /\ agentState[c] = "generating"
    /\ Room(c) < 0
    /\ Becomes(c, "raised")
    /\ UNCHANGED <<interactive, response, responseMask, assistantTurns, userTurns>>

(* The server refuses a generation that has no room for a token: the       *)
(* exception leaves run().                                                 *)
GenerationRefused(c) ==
    /\ agentState[c] = "generating"
    /\ Room(c) < 1
    /\ Becomes(c, "raised")
    /\ UNCHANGED <<interactive, response, responseMask, assistantTurns, userTurns>>

(* Mutant: a response may be filled to its last token.                     *)
ToolsOffByOne(c) ==
    /\ agentState[c] = "processing_tools"
    /\ \E n \in ObservationLengths :
         \/ /\ Len(responseMask[c]) + n > ResponseLength
            /\ Becomes(c, "terminated")
            /\ UNCHANGED <<response, responseMask, userTurns>>
         \/ /\ Len(responseMask[c]) + n <= ResponseLength
            /\ Appended(c, Observation(n), 0)
            /\ userTurns' = [userTurns EXCEPT ![c] = @ + 1]
            /\ Becomes(c, "generating")
    /\ UNCHANGED <<interactive, assistantTurns>>

(* Mutant: the responses are appended before the length is checked.        *)
ToolsAppendFirst(c) ==
    /\ agentState[c] = "processing_tools"
    /\ \E n \in ObservationLengths :
         /\ Appended(c, Observation(n), 0)
         /\ Becomes(c, IF Len(responseMask[c]) + n >= ResponseLength
                        THEN "terminated" ELSE "generating")
    /\ userTurns' = [userTurns EXCEPT ![c] = @ + 1]
    /\ UNCHANGED <<interactive, assistantTurns>>

(* _handle_processing_tools_state: all calls are awaited (a tool that      *)
(* raises answers with its error), and their responses are appended unless *)
(* they would fill the response.                                           *)
HandleProcessingTools(c) ==
    /\ agentState[c] = "processing_tools"
    /\ \E n \in ObservationLengths :
         \/ /\ Len(responseMask[c]) + n >= ResponseLength
            /\ Becomes(c, "terminated")
            /\ UNCHANGED <<response, responseMask, userTurns>>
         \/ /\ Len(responseMask[c]) + n < ResponseLength
            /\ Appended(c, Observation(n), 0)
            /\ userTurns' = [userTurns EXCEPT ![c] = @ + 1]
            /\ Becomes(c, "generating")
    /\ UNCHANGED <<interactive, assistantTurns>>

(* Mutant: the user's tokens enter the loss.                               *)
InteractingUnmasked(c) ==
    /\ agentState[c] = "interacting"
    /\ \E n \in ObservationLengths, stop \in BOOLEAN :
         /\ Appended(c, Observation(n), 1)
         /\ Becomes(c, IF stop THEN "terminated" ELSE "generating")
    /\ userTurns' = [userTurns EXCEPT ![c] = @ + 1]
    /\ UNCHANGED <<interactive, assistantTurns>>

(* _handle_interacting_state: the user's message is appended, whatever its *)
(* length.                                                                 *)
HandleInteracting(c) ==
    /\ agentState[c] = "interacting"
    /\ \E n \in ObservationLengths, stop \in BOOLEAN :
         /\ Appended(c, Observation(n), 0)
         /\ Becomes(c, IF stop THEN "terminated" ELSE "generating")
    /\ userTurns' = [userTurns EXCEPT ![c] = @ + 1]
    /\ UNCHANGED <<interactive, assistantTurns>>

AgentStep(c) ==
    \/ HandlePending(c)
    \/ HandleGenerating(c)
    \/ GenerationRefused(c)
    \/ HandleProcessingTools(c)
    \/ HandleInteracting(c)

Over(c) == agentState[c] \in {"terminated", "raised"}

(* The output of run(): cut to response_length.                            *)
Cut(seq) == SubSeq(seq, 1, IF Len(seq) < ResponseLength THEN Len(seq) ELSE ResponseLength)

FinalResponse(c) == Cut(response[c])
FinalMask(c) == Cut(responseMask[c])

AgentNext == \E c \in Conversations : AgentStep(c)

AgentSpec ==
    AgentInit /\ [][AgentNext]_agentVars

---------------------------------------------------------------------------
(* Loss mask: bit k of the mask says whether token k is the model's, in    *)
(* what is kept after the cut as well as during the conversation.          *)
MaskAligned ==
    \A c \in Conversations :
       /\ Len(responseMask[c]) = Len(response[c])
       /\ \A k \in DOMAIN response[c] :
            responseMask[c][k] = IF response[c][k] = "gen" THEN 1 ELSE 0

(* Tools leave room: without interactions a generation is never asked for  *)
(* when the context is full, so no conversation of a batch is lost to the  *)
(* server's refusal.                                                       *)
ToolsLeaveRoom ==
    ~interactive =>
       \A c \in Conversations :
          /\ agentState[c] # "raised"
          /\ agentState[c] = "generating" => Len(response[c]) < ResponseLength

(* Last word: without interactions a conversation ends, after the cut,     *)
(* with a token of the model; an observation at the end would carry the    *)
(* outcome reward outside the loss mask.                                   *)
LastWord ==
    ~interactive =>
       \A c \in Conversations :
          agentState[c] = "terminated" => FinalMask(c)[Len(FinalMask(c))] = 1

(* Every conversation ends, since each generation takes a token of a       *)
(* finite budget.                                                          *)
ConversationsEnd == \A c \in Conversations : <>Over(c)

===========================================================================
