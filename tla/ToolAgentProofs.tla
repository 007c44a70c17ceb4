-------------------------- MODULE ToolAgentProofs --------------------------
(***************************************************************************)
(* Theorems about the tool agent loop, for every response length, prompt,  *)
(* set of observation lengths and turn limits.                             *)
(***************************************************************************)
EXTENDS ToolAgent, TLAPS

(* Without interactions, a conversation starts empty, tools are called     *)
(* after a token of the model that left room, and nobody waits for a user. *)
CallsFromModel ==
    ~interactive =>
       \A c \in Conversations :
          /\ agentState[c] # "interacting"
          /\ agentState[c] = "pending" => Len(response[c]) = 0
          /\ agentState[c] = "processing_tools" =>
               /\ Len(responseMask[c]) \in 1..ResponseLength - 1
               /\ responseMask[c][Len(responseMask[c])] = 1

AInv == /\ AgentTypeOK
        /\ MaskAligned
        /\ ToolsLeaveRoom
        /\ LastWord
        /\ CallsFromModel

---------------------------------------------------------------------------
(* Lengths and elements of a concatenation.                                *)
LEMMA Concatenation ==
    ASSUME NEW S, NEW s \in Seq(S), NEW t \in Seq(S)
    PROVE  /\ s \o t \in Seq(S)
           /\ Len(s \o t) = Len(s) + Len(t)
           /\ \A k \in 1..Len(s) : (s \o t)[k] = s[k]
           /\ \A k \in 1..Len(t) : (s \o t)[Len(s) + k] = t[k]
OBVIOUS

(* What appending a block of one kind does to the two sequences.           *)
LEMMA AppendedTypes ==
    ASSUME AgentTypeOK, NEW c \in Conversations, NEW n \in Nat,
           NEW tokens \in [1..n -> TokenKind], NEW bit \in {0, 1},
           Appended(c, tokens, bit)
    PROVE  /\ response' \in [Conversations -> Seq(TokenKind)]
           /\ responseMask' \in [Conversations -> Seq({0, 1})]
           /\ \A d \in Conversations : d # c =>
                response'[d] = response[d] /\ responseMask'[d] = responseMask[d]
           /\ Len(response'[c]) = Len(response[c]) + n
           /\ Len(responseMask'[c]) = Len(responseMask[c]) + n
           /\ \A k \in 1..Len(response[c]) : response'[c][k] = response[c][k]
           /\ \A k \in 1..n : response'[c][Len(response[c]) + k] = tokens[k]
           /\ \A k \in 1..Len(responseMask[c]) : responseMask'[c][k] = responseMask[c][k]
           /\ \A k \in 1..n : responseMask'[c][Len(responseMask[c]) + k] = bit
<1>1. /\ response[c] \in Seq(TokenKind) /\ responseMask[c] \in Seq({0, 1})
      /\ response \in [Conversations -> Seq(TokenKind)]
      /\ responseMask \in [Conversations -> Seq({0, 1})]
  BY DEF AgentTypeOK
<1>2. tokens \in Seq(TokenKind) /\ Len(tokens) = n
  OBVIOUS
<1> DEFINE bits == [k \in 1..Len(tokens) |-> bit]
<1>3. bits \in Seq({0, 1}) /\ Len(bits) = n /\ \A k \in 1..n : bits[k] = bit
  BY <1>2
<1>4. /\ response' = [response EXCEPT ![c] = response[c] \o tokens]
      /\ responseMask' = [responseMask EXCEPT ![c] = responseMask[c] \o bits]
  BY DEF Appended
<1> HIDE DEF bits
<1>5. /\ response'[c] = response[c] \o tokens
      /\ responseMask'[c] = responseMask[c] \o bits
  BY <1>1, <1>4
<1>6. /\ response[c] \o tokens \in Seq(TokenKind)
      /\ Len(response[c] \o tokens) = Len(response[c]) + Len(tokens)
      /\ \A k \in 1..Len(response[c]) : (response[c] \o tokens)[k] = response[c][k]
      /\ \A k \in 1..Len(tokens) : (response[c] \o tokens)[Len(response[c]) + k] = tokens[k]
  <2>1. response[c] \in Seq(TokenKind) /\ tokens \in Seq(TokenKind)
    BY <1>1, <1>2
  <2>2. response[c] \o tokens \in Seq(TokenKind) /\ Len(response[c] \o tokens) = Len(response[c]) + Len(tokens)
    BY <2>1, Concatenation, Zenon
  <2>3. \A k \in 1..Len(response[c]) : (response[c] \o tokens)[k] = response[c][k]
    BY <2>1, Concatenation, Zenon
  <2>4. \A k \in 1..Len(tokens) : (response[c] \o tokens)[Len(response[c]) + k] = tokens[k]
    BY <2>1, Concatenation, SMT
  <2> QED
    BY <2>2, <2>3, <2>4
<1>6a. /\ responseMask[c] \o bits \in Seq({0, 1})
       /\ Len(responseMask[c] \o bits) = Len(responseMask[c]) + Len(bits)
       /\ \A k \in 1..Len(responseMask[c]) : (responseMask[c] \o bits)[k] = responseMask[c][k]
       /\ \A k \in 1..Len(bits) : (responseMask[c] \o bits)[Len(responseMask[c]) + k] = bits[k]
  <2>1. responseMask[c] \in Seq({0, 1}) /\ bits \in Seq({0, 1})
    BY <1>1, <1>3
  <2>2. responseMask[c] \o bits \in Seq({0, 1}) /\ Len(responseMask[c] \o bits) = Len(responseMask[c]) + Len(bits)
    BY <2>1, Concatenation, Zenon
  <2>3. \A k \in 1..Len(responseMask[c]) : (responseMask[c] \o bits)[k] = responseMask[c][k]
    BY <2>1, Concatenation, Zenon
  <2>4. \A k \in 1..Len(bits) : (responseMask[c] \o bits)[Len(responseMask[c]) + k] = bits[k]
    BY <2>1, Concatenation, SMT
  <2> QED
    BY <2>2, <2>3, <2>4
<1>7. /\ response' \in [Conversations -> Seq(TokenKind)]
      /\ responseMask' \in [Conversations -> Seq({0, 1})]
  BY <1>1, <1>4, <1>6, <1>6a
<1>8. \A d \in Conversations : d # c =>
         response'[d] = response[d] /\ responseMask'[d] = responseMask[d]
  BY <1>1, <1>4
<1>9. /\ Len(response'[c]) = Len(response[c]) + n
      /\ \A k \in 1..Len(response[c]) : response'[c][k] = response[c][k]
      /\ \A k \in 1..n : response'[c][Len(response[c]) + k] = tokens[k]
  BY <1>2, <1>5, <1>6
<1>10. /\ Len(responseMask'[c]) = Len(responseMask[c]) + n
       /\ \A k \in 1..Len(responseMask[c]) : responseMask'[c][k] = responseMask[c][k]
       /\ \A k \in 1..n : responseMask'[c][Len(responseMask[c]) + k] = bit
  <2>1. \A k \in 1..n : (responseMask[c] \o bits)[Len(responseMask[c]) + k] = bit
    BY <1>3, <1>6a
  <2>2. /\ Len(responseMask[c] \o bits) = Len(responseMask[c]) + n
        /\ \A k \in 1..Len(responseMask[c]) :
             (responseMask[c] \o bits)[k] = responseMask[c][k]
    BY <1>3, <1>6a
  <2> QED
    BY <1>5, <2>1, <2>2, Zenon
<1> QED
  BY <1>7, <1>8, <1>9, <1>10

(* A block whose tokens are all the model's, with bits 1, or none of them, *)
(* with bits 0, keeps the mask aligned.                                    *)
LEMMA AppendedAligned ==
    ASSUME AgentTypeOK, MaskAligned, NEW c \in Conversations, NEW n \in Nat,
           NEW tokens \in [1..n -> TokenKind], NEW bit \in {0, 1},
           \A k \in 1..n : bit = IF tokens[k] = "gen" THEN 1 ELSE 0,
           Appended(c, tokens, bit)
    PROVE  MaskAligned'
<1> SUFFICES ASSUME NEW d \in Conversations
             PROVE  /\ Len(responseMask'[d]) = Len(response'[d])
                    /\ \A k \in 1..Len(response'[d]) :
                         responseMask'[d][k] = IF response'[d][k] = "gen" THEN 1 ELSE 0
  <2>1. response' \in [Conversations -> Seq(TokenKind)]
    BY AppendedTypes
  <2>2. \A d \in Conversations : DOMAIN response'[d] = 1..Len(response'[d])
    BY <2>1
  <2> QED
    BY <2>2 DEF MaskAligned
<1>1. /\ Len(responseMask[d]) = Len(response[d])
      /\ \A k \in 1..Len(response[d]) :
           responseMask[d][k] = IF response[d][k] = "gen" THEN 1 ELSE 0
      /\ Len(response[d]) \in Nat
  <2>1. response[d] \in Seq(TokenKind)
    BY DEF AgentTypeOK
  <2> QED
    BY <2>1 DEF MaskAligned
<1>2. CASE d # c
  BY <1>1, <1>2, AppendedTypes
<1>3. CASE d = c
  <2> DEFINE L == Len(response[c])
  <2>1. /\ Len(response'[c]) = L + n /\ Len(responseMask'[c]) = L + n
        /\ \A k \in 1..L : response'[c][k] = response[c][k]
                           /\ responseMask'[c][k] = responseMask[c][k]
        /\ \A k \in 1..n : response'[c][L + k] = tokens[k]
                           /\ responseMask'[c][L + k] = bit
        /\ L \in Nat
    <3>1. Len(responseMask[c]) = L /\ L \in Nat
      BY <1>1, <1>3
    <3>2. /\ Len(response'[c]) = Len(response[c]) + n
          /\ Len(responseMask'[c]) = Len(responseMask[c]) + n
          /\ \A k \in 1..Len(response[c]) : response'[c][k] = response[c][k]
          /\ \A k \in 1..n : response'[c][Len(response[c]) + k] = tokens[k]
          /\ \A k \in 1..Len(responseMask[c]) : responseMask'[c][k] = responseMask[c][k]
          /\ \A k \in 1..n : responseMask'[c][Len(responseMask[c]) + k] = bit
      BY AppendedTypes
    <3> QED
      BY <3>1, <3>2
  <2> HIDE DEF L
  <2>2. ASSUME NEW k \in 1..(L + n), k > L
        PROVE  responseMask'[c][k] = IF response'[c][k] = "gen" THEN 1 ELSE 0
    <3>1. PICK j \in 1..n : k = L + j
      <4>1. k - L \in 1..n /\ k = L + (k - L)
        BY <2>1, <2>2
      <4> QED
        BY <4>1
    <3>2. response'[c][k] = tokens[j] /\ responseMask'[c][k] = bit
      BY <2>1, <3>1
    <3> QED
      BY <3>2
  <2>3. ASSUME NEW k \in 1..(L + n), k <= L
        PROVE  responseMask'[c][k] = IF response'[c][k] = "gen" THEN 1 ELSE 0
    <3>1. k \in 1..L
      BY <2>1, <2>3
    <3> QED
      BY <1>1, <1>3, <2>1, <3>1 DEF L
  <2> QED
    BY <1>3, <2>1, <2>2, <2>3
<1> QED
  BY <1>2, <1>3

(* The last token of what the cut keeps.                                   *)
LEMMA CutLast ==
    ASSUME NEW X, NEW s \in Seq(X), Len(s) >= 1
    PROVE  /\ Len(s) <= ResponseLength => Cut(s)[Len(Cut(s))] = s[Len(s)]
           /\ Len(s) > ResponseLength => Cut(s)[Len(Cut(s))] = s[ResponseLength]
<1>1. ResponseLength \in Nat /\ ResponseLength >= 1
  BY AgentAssumption
<1>2. ASSUME NEW m \in 1..Len(s)
      PROVE  SubSeq(s, 1, m)[Len(SubSeq(s, 1, m))] = s[m]
  OBVIOUS
<1>3. CASE Len(s) <= ResponseLength
  <2>1. Cut(s) = SubSeq(s, 1, Len(s)) /\ Len(s) \in 1..Len(s)
    BY <1>1, <1>3 DEF Cut
  <2>2. SubSeq(s, 1, Len(s))[Len(SubSeq(s, 1, Len(s)))] = s[Len(s)]
    BY <1>2, <2>1
  <2> QED
    BY <1>1, <1>3, <2>1, <2>2
<1>4. CASE Len(s) > ResponseLength
  <2>1. Cut(s) = SubSeq(s, 1, ResponseLength) /\ ResponseLength \in 1..Len(s)
    BY <1>1, <1>4 DEF Cut
  <2>2. SubSeq(s, 1, ResponseLength)[Len(SubSeq(s, 1, ResponseLength))] = s[ResponseLength]
    BY <1>2, <2>1
  <2> QED
    BY <1>1, <1>4, <2>1, <2>2
<1> QED
  BY <1>1, <1>3, <1>4

(* A context that is not full leaves room for a token.                     *)
LEMMA RoomLeft ==
    ASSUME AgentTypeOK, NEW c \in Conversations
    PROVE  /\ Len(response[c]) \in Nat
           /\ Room(c) <= ResponseLength + PromptSlack - Len(response[c])
           /\ Room(c) \in Int
           /\ Len(response[c]) < ResponseLength => Room(c) >= 1
<1> DEFINE L == Len(response[c])
<1>1. L \in Nat
  <2>1. response[c] \in Seq(TokenKind)
    BY DEF AgentTypeOK
  <2> QED
    BY <2>1
<1>2. Room(c) = IF ResponseLength + PromptSlack - L < ResponseLength
                THEN ResponseLength + PromptSlack - L ELSE ResponseLength
  BY DEF Room
<1> HIDE DEF L
<1>3. /\ Room(c) <= ResponseLength + PromptSlack - L
      /\ Room(c) \in Int
      /\ L < ResponseLength => Room(c) >= 1
  <2>1. ResponseLength \in Nat /\ ResponseLength >= 1 /\ PromptSlack \in Nat
    BY AgentAssumption
  <2> QED
    BY <1>1, <1>2, <2>1
<1> QED
  BY <1>1, <1>3 DEF L

LEMMA InvInit == AgentInit => AInv
<1> SUFFICES ASSUME AgentInit PROVE AInv
  OBVIOUS
<1>1. AgentTypeOK
  BY AgentAssumption DEF AgentInit, AgentTypeOK, AgentState
<1>2. MaskAligned /\ ToolsLeaveRoom /\ LastWord /\ CallsFromModel
  BY DEF AgentInit, MaskAligned, ToolsLeaveRoom, LastWord, CallsFromModel
<1> QED
  BY <1>1, <1>2 DEF AInv

(* A conversation whose sequences stay as they are may change its state to *)
(* one that asks nothing more of them.                                     *)
LEMMA PendingKeeps ==
    ASSUME AInv, NEW c \in Conversations, HandlePending(c)
    PROVE  AInv'
<1> USE DEF AInv, HandlePending, Becomes
<1>1. AgentTypeOK'
  BY DEF AgentTypeOK, AgentState
<1>2. MaskAligned'
  BY DEF MaskAligned
<1>3. ToolsLeaveRoom'
  BY AgentAssumption DEF ToolsLeaveRoom, CallsFromModel, AgentTypeOK
<1>4. LastWord'
  BY DEF LastWord, AgentTypeOK, FinalMask
<1>5. CallsFromModel'
  BY DEF CallsFromModel, AgentTypeOK
<1> QED
  BY <1>1, <1>2, <1>3, <1>4, <1>5

LEMMA RefusedKeeps ==
    ASSUME AInv, NEW c \in Conversations, GenerationRefused(c)
    PROVE  AInv'
<1> USE DEF AInv, GenerationRefused, Becomes
<1>1. AgentTypeOK'
  BY DEF AgentTypeOK, AgentState
<1>2. MaskAligned'
  BY DEF MaskAligned
<1>3. interactive
  <2> SUFFICES ASSUME ~interactive PROVE FALSE
    OBVIOUS
  <2>1. Len(response[c]) < ResponseLength /\ Room(c) < 1
    BY DEF ToolsLeaveRoom
  <2> HIDE DEF AInv, GenerationRefused
  <2>2. AgentTypeOK
    BY DEF AInv
  <2> QED
    BY <2>1, <2>2, RoomLeft
<1>4. ToolsLeaveRoom' /\ LastWord' /\ CallsFromModel'
  BY <1>3 DEF ToolsLeaveRoom, LastWord, CallsFromModel
<1> QED
  BY <1>1, <1>2, <1>4

(* A generation: the model's tokens begin where there was room.            *)
LEMMA GeneratingKeeps ==
    ASSUME AInv, NEW c \in Conversations, HandleGenerating(c)
    PROVE  AInv'
<1> DEFINE L == Len(response[c])
<1>0. AgentTypeOK /\ MaskAligned /\ ToolsLeaveRoom /\ LastWord /\ CallsFromModel
  BY DEF AInv
<1>1. PICK n \in 1..Room(c), calls \in BOOLEAN :
        /\ Appended(c, Generated(n), 1)
        /\ Becomes(c,
             IF LimitReached(Len(responseMask[c]) + n, assistantTurns[c] + 1, userTurns[c])
               THEN "terminated"
             ELSE IF calls THEN "processing_tools"
             ELSE IF interactive THEN "interacting"
             ELSE "terminated")
  BY DEF HandleGenerating
<1>2. /\ interactive' = interactive /\ userTurns' = userTurns
      /\ assistantTurns' = [assistantTurns EXCEPT ![c] = @ + 1]
      /\ agentState[c] = "generating"
  BY DEF HandleGenerating
<1>3. /\ L \in Nat /\ Len(responseMask[c]) = L /\ Room(c) \in Int
      /\ Room(c) <= ResponseLength + PromptSlack - L
  BY <1>0, RoomLeft DEF MaskAligned
<1>4. n \in Nat /\ n >= 1 /\ L + n <= ResponseLength + PromptSlack
  <2>1. ResponseLength \in Nat /\ PromptSlack \in Nat
    BY AgentAssumption
  <2> HIDE DEF L
  <2> QED
    BY <1>1, <1>3, <2>1
<1>5. /\ Generated(n) \in [1..n -> TokenKind]
      /\ \A k \in 1..n : 1 = IF Generated(n)[k] = "gen" THEN 1 ELSE 0
  BY DEF Generated, TokenKind
<1>6. /\ response' \in [Conversations -> Seq(TokenKind)]
      /\ responseMask' \in [Conversations -> Seq({0, 1})]
      /\ \A d \in Conversations : d # c =>
           response'[d] = response[d] /\ responseMask'[d] = responseMask[d]
      /\ Len(response'[c]) = L + n /\ Len(responseMask'[c]) = L + n
      /\ \A k \in 1..n : responseMask'[c][L + k] = 1
  <2>1. /\ response' \in [Conversations -> Seq(TokenKind)]
        /\ responseMask' \in [Conversations -> Seq({0, 1})]
        /\ \A d \in Conversations : d # c =>
             response'[d] = response[d] /\ responseMask'[d] = responseMask[d]
        /\ Len(response'[c]) = Len(response[c]) + n
        /\ Len(responseMask'[c]) = Len(responseMask[c]) + n
        /\ \A k \in 1..n : responseMask'[c][Len(responseMask[c]) + k] = 1
    BY <1>0, <1>1, <1>4, <1>5, 1 \in {0, 1}, AppendedTypes
  <2> QED
    BY <1>3, <2>1
<1>7. /\ agentState' \in [Conversations -> AgentState]
      /\ \A d \in Conversations : d # c => agentState'[d] = agentState[d]
      /\ agentState'[c] \in {"terminated", "processing_tools", "interacting"}
      /\ agentState'[c] = "interacting" => interactive
      /\ agentState'[c] = "processing_tools" => L + n < ResponseLength
  BY <1>0, <1>1, <1>3, <1>4, AgentAssumption
     DEF Becomes, AgentTypeOK, AgentState, LimitReached
<1>8. ASSUME ~interactive
      PROVE  /\ L < ResponseLength
             /\ FinalMask(c)'[Len(FinalMask(c)')] = 1
             /\ responseMask'[c][L + n] = 1
  <2>1. L < ResponseLength
    BY <1>0, <1>2, <1>8 DEF ToolsLeaveRoom
  <2>2. responseMask'[c] \in Seq({0, 1}) /\ Len(responseMask'[c]) >= 1
    BY <1>3, <1>4, <1>6
  <2>3. responseMask'[c][L + n] = 1
    <3>1. n \in 1..n
      BY <1>4
    <3> QED
      BY <1>6, <3>1
  <2>4. L + n > ResponseLength => responseMask'[c][ResponseLength] = 1
    <3>1. ASSUME L + n > ResponseLength
          PROVE  ResponseLength - L \in 1..n /\ L + (ResponseLength - L) = ResponseLength
      <4> HIDE DEF L
      <4> QED
        BY <1>3, <1>4, <2>1, <3>1, AgentAssumption
    <3>2. ASSUME NEW k \in 1..n, L + k = ResponseLength
          PROVE  responseMask'[c][ResponseLength] = 1
      <4>1. responseMask'[c][L + k] = 1
        BY <1>6
      <4> QED
        BY <3>2, <4>1
    <3> QED
      BY <3>1, <3>2
  <2>5. FinalMask(c)' = Cut(responseMask'[c])
    BY DEF FinalMask, Cut
  <2>6. /\ Len(responseMask'[c]) <= ResponseLength =>
             Cut(responseMask'[c])[Len(Cut(responseMask'[c]))]
               = responseMask'[c][Len(responseMask'[c])]
        /\ Len(responseMask'[c]) > ResponseLength =>
             Cut(responseMask'[c])[Len(Cut(responseMask'[c]))]
               = responseMask'[c][ResponseLength]
    BY <2>2, CutLast
  <2>7. L + n <= ResponseLength \/ L + n > ResponseLength
    <3> HIDE DEF L
    <3> QED
      BY <1>3, <1>4, AgentAssumption
  <2> QED
    BY <1>6, <2>1, <2>3, <2>4, <2>5, <2>6, <2>7
<1>9. AgentTypeOK'
  <2>1. assistantTurns' \in [Conversations -> Nat] /\ userTurns' \in [Conversations -> Nat]
    BY <1>0, <1>2 DEF AgentTypeOK
  <2>2. ~interactive => \A d \in Conversations :
                          Len(response'[d]) <= ResponseLength + PromptSlack
    BY <1>0, <1>4, <1>6 DEF AgentTypeOK
  <2> QED
    BY <1>0, <1>2, <1>6, <1>7, <2>1, <2>2 DEF AgentTypeOK
<1>10. MaskAligned'
  BY <1>0, <1>1, <1>4, <1>5, AppendedAligned
<1>11. ToolsLeaveRoom'
  BY <1>0, <1>2, <1>6, <1>7 DEF ToolsLeaveRoom
<1>12. LastWord'
  <2> SUFFICES ASSUME ~interactive', NEW d \in Conversations, agentState'[d] = "terminated"
               PROVE  FinalMask(d)'[Len(FinalMask(d)')] = 1
    BY DEF LastWord
  <2>1. CASE d = c
    BY <1>2, <1>8, <2>1
  <2>2. CASE d # c
    BY <1>0, <1>2, <1>6, <1>7, <2>2 DEF LastWord, FinalMask
  <2> QED
    BY <2>1, <2>2
<1>13. CallsFromModel'
  <2> SUFFICES ASSUME ~interactive', NEW d \in Conversations
               PROVE  /\ agentState'[d] # "interacting"
                      /\ agentState'[d] = "pending" => Len(response'[d]) = 0
                      /\ agentState'[d] = "processing_tools" =>
                           /\ Len(responseMask'[d]) \in 1..ResponseLength - 1
                           /\ responseMask'[d][Len(responseMask'[d])] = 1
    BY DEF CallsFromModel
  <2>1. CASE d = c
    <3>1. L + n < ResponseLength => L + n \in 1..ResponseLength - 1
      <4> HIDE DEF L
      <4> QED
        BY <1>3, <1>4, AgentAssumption
    <3> QED
      BY <1>2, <1>6, <1>7, <1>8, <2>1, <3>1
  <2>2. CASE d # c
    BY <1>0, <1>2, <1>6, <1>7, <2>2 DEF CallsFromModel
  <2> QED
    BY <2>1, <2>2
<1> QED
  BY <1>9, <1>10, <1>11, <1>12, <1>13 DEF AInv

(* An observation is a block of tokens that are not the model's.           *)
LEMMA ObservationAppended ==
    ASSUME AInv, NEW c \in Conversations, NEW n \in ObservationLengths,
           Appended(c, Observation(n), 0)
    PROVE  /\ MaskAligned'
           /\ n \in Nat
           /\ response' \in [Conversations -> Seq(TokenKind)]
           /\ responseMask' \in [Conversations -> Seq({0, 1})]
           /\ \A d \in Conversations : d # c =>
                response'[d] = response[d] /\ responseMask'[d] = responseMask[d]
           /\ Len(response'[c]) = Len(response[c]) + n
<1>1. AgentTypeOK /\ MaskAligned
  BY DEF AInv
<1>2. n \in Nat
  BY AgentAssumption
<1>3. /\ Observation(n) \in [1..n -> TokenKind]
      /\ \A k \in 1..n : 0 = IF Observation(n)[k] = "gen" THEN 1 ELSE 0
  BY DEF Observation, TokenKind
<1>4. MaskAligned'
  BY <1>1, <1>2, <1>3, 0 \in {0, 1}, AppendedAligned
<1>5. /\ response' \in [Conversations -> Seq(TokenKind)]
      /\ responseMask' \in [Conversations -> Seq({0, 1})]
      /\ \A d \in Conversations : d # c =>
           response'[d] = response[d] /\ responseMask'[d] = responseMask[d]
      /\ Len(response'[c]) = Len(response[c]) + n
  BY <1>1, <1>2, <1>3, 0 \in {0, 1}, AppendedTypes
<1> QED
  BY <1>2, <1>4, <1>5

(* Tool responses: appended where they leave room, or the end after the    *)
(* model's last token.                                                     *)
LEMMA ToolsKeep ==
    ASSUME AInv, NEW c \in Conversations, HandleProcessingTools(c)
    PROVE  AInv'
<1>0. AgentTypeOK /\ MaskAligned /\ ToolsLeaveRoom /\ LastWord /\ CallsFromModel
  BY DEF AInv
<1>1. /\ agentState[c] = "processing_tools"
      /\ interactive' = interactive /\ assistantTurns' = assistantTurns
  BY DEF HandleProcessingTools
<1>2. /\ Len(response[c]) \in Nat /\ Len(responseMask[c]) = Len(response[c])
  BY <1>0, RoomLeft DEF MaskAligned
<1>3. PICK n \in ObservationLengths :
         \/ /\ Len(responseMask[c]) + n >= ResponseLength
            /\ Becomes(c, "terminated")
            /\ UNCHANGED <<response, responseMask, userTurns>>
         \/ /\ Len(responseMask[c]) + n < ResponseLength
            /\ Appended(c, Observation(n), 0)
            /\ userTurns' = [userTurns EXCEPT ![c] = @ + 1]
            /\ Becomes(c, "generating")
  BY DEF HandleProcessingTools
<1>4. CASE /\ Becomes(c, "terminated")
           /\ UNCHANGED <<response, responseMask, userTurns>>
  <2>1. /\ agentState' \in [Conversations -> AgentState]
        /\ agentState'[c] = "terminated"
        /\ \A d \in Conversations : d # c => agentState'[d] = agentState[d]
    BY <1>0, <1>4 DEF Becomes, AgentTypeOK, AgentState
  <2>2. AgentTypeOK'
    BY <1>0, <1>1, <1>4, <2>1 DEF AgentTypeOK
  <2>3. MaskAligned' /\ ToolsLeaveRoom' /\ CallsFromModel'
    BY <1>0, <1>1, <1>4, <2>1 DEF MaskAligned, ToolsLeaveRoom, CallsFromModel
  <2>4. LastWord'
    <3> SUFFICES ASSUME ~interactive, NEW d \in Conversations, agentState'[d] = "terminated"
                 PROVE  FinalMask(d)'[Len(FinalMask(d)')] = 1
      BY <1>1 DEF LastWord
    <3>1. FinalMask(d)' = FinalMask(d)
      BY <1>4 DEF FinalMask
    <3>2. CASE d = c
      <4>1. /\ Len(responseMask[c]) \in 1..ResponseLength - 1
            /\ responseMask[c][Len(responseMask[c])] = 1
            /\ responseMask[c] \in Seq({0, 1})
        BY <1>0, <1>1 DEF CallsFromModel, AgentTypeOK
      <4>2. Len(responseMask[c]) >= 1 /\ Len(responseMask[c]) <= ResponseLength
        BY <4>1, AgentAssumption
      <4> QED
        BY <3>1, <3>2, <4>1, <4>2, CutLast DEF FinalMask
    <3>3. CASE d # c
      BY <1>0, <2>1, <3>1, <3>3 DEF LastWord
    <3> QED
      BY <3>2, <3>3
  <2> QED
    BY <2>2, <2>3, <2>4 DEF AInv
<1>5. CASE /\ Len(responseMask[c]) + n < ResponseLength
           /\ Appended(c, Observation(n), 0)
           /\ userTurns' = [userTurns EXCEPT ![c] = @ + 1]
           /\ Becomes(c, "generating")
  <2>1. /\ agentState' \in [Conversations -> AgentState]
        /\ agentState'[c] = "generating"
        /\ \A d \in Conversations : d # c => agentState'[d] = agentState[d]
    BY <1>0, <1>5 DEF Becomes, AgentTypeOK, AgentState
  <2>2. /\ MaskAligned' /\ n \in Nat
        /\ response' \in [Conversations -> Seq(TokenKind)]
        /\ responseMask' \in [Conversations -> Seq({0, 1})]
        /\ \A d \in Conversations : d # c =>
             response'[d] = response[d] /\ responseMask'[d] = responseMask[d]
        /\ Len(response'[c]) = Len(response[c]) + n
    BY <1>5, ObservationAppended
  <2>3. Len(response'[c]) < ResponseLength /\ Len(response'[c]) <= ResponseLength + PromptSlack
    BY <1>2, <1>5, <2>2, AgentAssumption
  <2>4. AgentTypeOK'
    <3>1. userTurns' \in [Conversations -> Nat]
      BY <1>0, <1>5 DEF AgentTypeOK
    <3> QED
      BY <1>0, <1>1, <2>1, <2>2, <2>3, <3>1 DEF AgentTypeOK
  <2>5. ToolsLeaveRoom'
    BY <1>0, <1>1, <2>1, <2>2, <2>3 DEF ToolsLeaveRoom
  <2>6. LastWord' /\ CallsFromModel'
    BY <1>0, <1>1, <2>1, <2>2 DEF LastWord, CallsFromModel, FinalMask
  <2> QED
    BY <2>2, <2>4, <2>5, <2>6 DEF AInv
<1> QED
  BY <1>3, <1>4, <1>5

LEMMA InteractingKeeps ==
    ASSUME AInv, NEW c \in Conversations, HandleInteracting(c)
    PROVE  AInv'
<1>0. AgentTypeOK /\ CallsFromModel
  BY DEF AInv
<1>1. /\ agentState[c] = "interacting"
      /\ interactive' = interactive /\ assistantTurns' = assistantTurns
      /\ userTurns' = [userTurns EXCEPT ![c] = @ + 1]
  BY DEF HandleInteracting
<1>2. interactive
  BY <1>0, <1>1 DEF CallsFromModel
<1>3. PICK n \in ObservationLengths, stop \in BOOLEAN :
        /\ Appended(c, Observation(n), 0)
        /\ Becomes(c, IF stop THEN "terminated" ELSE "generating")
  BY DEF HandleInteracting
<1>4. AgentTypeOK'
  <2>1. /\ userTurns' \in [Conversations -> Nat]
        /\ agentState' \in [Conversations -> AgentState]
    BY <1>0, <1>1, <1>3 DEF AgentTypeOK, Becomes, AgentState
  <2> QED
    BY <1>0, <1>1, <1>2, <1>3, <2>1, ObservationAppended DEF AgentTypeOK
<1>5. MaskAligned'
  BY <1>3, ObservationAppended
<1>6. ToolsLeaveRoom' /\ LastWord' /\ CallsFromModel'
  BY <1>1, <1>2 DEF ToolsLeaveRoom, LastWord, CallsFromModel
<1> QED
  BY <1>4, <1>5, <1>6 DEF AInv

---------------------------------------------------------------------------
LEMMA InvStep == AInv /\ [AgentNext]_agentVars => AInv'
<1> SUFFICES ASSUME AInv, [AgentNext]_agentVars PROVE AInv'
  OBVIOUS
<1>1. CASE UNCHANGED agentVars
  BY <1>1 DEF agentVars, AInv, AgentTypeOK, MaskAligned, ToolsLeaveRoom, LastWord,
              CallsFromModel, FinalMask
<1>2. ASSUME NEW c \in Conversations, AgentStep(c)
      PROVE  AInv'
  BY <1>2, PendingKeeps, GeneratingKeeps, RefusedKeeps, ToolsKeep, InteractingKeeps
     DEF AgentStep
<1> QED
  BY <1>1, <1>2 DEF AgentNext

LEMMA AgentInvariant == AgentSpec => []AInv
BY InvInit, InvStep, PTL DEF AgentSpec

(* No context outgrows the model's, and every value keeps its type.        *)
THEOREM AgentTypeCorrect == AgentSpec => []AgentTypeOK
<1>1. AInv => AgentTypeOK
  BY DEF AInv
<1> QED
  BY <1>1, AgentInvariant, PTL

(* The loss mask marks the model's tokens and no others.                   *)
THEOREM MaskIsAligned == AgentSpec => []MaskAligned
<1>1. AInv => MaskAligned
  BY DEF AInv
<1> QED
  BY <1>1, AgentInvariant, PTL

(* Without interactions the server never refuses a conversation.           *)
THEOREM RoomIsLeft == AgentSpec => []ToolsLeaveRoom
<1>1. AInv => ToolsLeaveRoom
  BY DEF AInv
<1> QED
  BY <1>1, AgentInvariant, PTL

(* Without interactions the model has the last word, after the cut too.    *)
THEOREM ModelHasLastWord == AgentSpec => []LastWord
<1>1. AInv => LastWord
  BY DEF AInv
<1> QED
  BY <1>1, AgentInvariant, PTL

===========================================================================
