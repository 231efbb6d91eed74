-------------------- MODULE UtteranceActionProposerProofs --------------------
(***************************************************************************)
(* The safety properties of UtteranceActionProposer, and that it           *)
(* implements AgentTurn, for any set of responses, any number of           *)
(* utterances, every bound on the queues and every combination of faults.  *)
(***************************************************************************)
EXTENDS UtteranceActionProposer, SequenceTheorems, TLAPS

(* An ID that was not given out yet is unknown to the player. *)
Fresh ==
    \A id \in Ids : id >= output_counter => stage[id] = "none" /\ triggered[id] = 0

(* What is prepared or being prepared has been given its ID. *)
Given ==
    \A h \in Hashes : preparing[h] < output_counter /\ prepared[h] < output_counter

(* An ID stands for one response, in one of the two lists. *)
OneOwner ==
    \A g, h \in Hashes :
        /\ preparing[g] # NoId =>
               /\ preparing[g] = preparing[h] => g = h
               /\ preparing[g] # prepared[h]
        /\ prepared[g] # NoId => (prepared[g] = prepared[h] => g = h)

(* What was not told to play is not played. *)
SilentUntilTriggered ==
    \A id \in Ids : triggered[id] = 0 => stage[id] \notin {"started", "ended"}

(* A ready callback on its way is true, or the callback that takes it back  *)
(* follows it.                                                              *)
ReadyReports ==
    \A id \in Ids : \A i \in 1 .. Len(channel) :
        channel[i] = <<"ready", id>> =>
            /\ stage[id] \notin {"none", "sent"}
            /\ stage[id] = "gone" =>
                   \E j \in 1 .. Len(channel) : i < j /\ channel[j] = <<"deleted", id>>

(* The two parts of PreparationTracked, for one response. *)
PreparedTracked(h) ==
    prepared[h] # NoId =>
        /\ triggered[prepared[h]] = 0
        /\ stage[prepared[h]] = "ready" \/ InChannel("deleted", prepared[h])

PreparingTracked(h) ==
    preparing[h] # NoId =>
        /\ triggered[preparing[h]] = 0
        /\ \/ stage[preparing[h]] = "sent"
           \/ InChannel("ready", preparing[h])
           \/ "lost" \in Faults /\ stage[preparing[h]] = "gone"

(* An agent that never took a turn waits for the end of no utterance. *)
NotYetSpoken == speakingState = "null" => feedbackId = NoId

(* Nothing is told to play, or heard to start, before the first turn. *)
HeardAfterTurn ==
    ~latestResponse => /\ \A id \in Ids : triggered[id] = 0
                       /\ \A i \in 1 .. Len(channel) : channel[i][1] # "start"

ResponseInv ==
    /\ Fresh /\ Given /\ OneOwner /\ SilentUntilTriggered /\ ReadyReports
    /\ TriggeredOnce /\ PreparationTracked

TurnInv == TurnStateAgrees /\ IntentionUsedUp /\ NotYetSpoken

ProposerInv == TypeOK /\ ResponseInv /\ TurnInv /\ HeardAfterTurn

------------------------------------------------------------------------------
(* Facts about the callbacks on their way.                                  *)

(* What a report of the player adds to the channel. *)
LEMMA Reported ==
    ASSUME TypeOK, NEW type \in Callbacks, NEW id \in Ids, Report(type, id)
    PROVE  /\ channel' \in Seq(Callbacks \X Ids)
           /\ Len(channel) \in Nat /\ Len(channel') = Len(channel) + 1
           /\ \A i \in 1 .. Len(channel) : channel'[i] = channel[i]
           /\ channel'[Len(channel')] = <<type, id>>
  <1>1. /\ channel \in Seq(Callbacks \X Ids)
        /\ <<type, id>> \in Callbacks \X Ids
        /\ channel' = Append(channel, <<type, id>>)
    BY DEF TypeOK, Report
  <1>2. Len(channel) \in Nat
    BY <1>1, LenProperties
  <1> QED
    BY <1>1, <1>2, AppendProperties

(* What taking a callback out leaves in the channel. *)
LEMMA Received ==
    ASSUME TypeOK, NEW type, NEW id, Receive(type, id)
    PROVE  /\ channel' \in Seq(Callbacks \X Ids)
           /\ Len(channel) \in Nat \ {0} /\ Len(channel') = Len(channel) - 1
           /\ \A i \in 1 .. Len(channel') : channel'[i] = channel[i + 1]
           /\ channel[1] = <<type, id>>
           /\ stage' = stage /\ triggered' = triggered
  <1>1. /\ channel \in Seq(Callbacks \X Ids) /\ channel # << >>
        /\ channel' = Tail(channel) /\ Head(channel) = <<type, id>>
        /\ stage' = stage /\ triggered' = triggered
    BY DEF TypeOK, Receive
  <1>2. Len(channel) \in Nat \ {0}
    BY <1>1, LenProperties, EmptySeq
  <1> QED
    BY <1>1, <1>2, HeadTailProperties

(* The callbacks that are not taken out stay on their way. *)
LEMMA StillOnItsWay ==
    ASSUME TypeOK, NEW type, NEW id, Receive(type, id)
    PROVE  \A t, i : InChannel(t, i) /\ <<t, i>> # <<type, id>> => InChannel(t, i)'
  <1>1. /\ Len(channel) \in Nat \ {0} /\ Len(channel') = Len(channel) - 1
        /\ \A n \in 1 .. Len(channel') : channel'[n] = channel[n + 1]
        /\ channel[1] = <<type, id>>
    BY Received
  <1> SUFFICES ASSUME NEW t, NEW i, InChannel(t, i), <<t, i>> # <<type, id>>
               PROVE  InChannel(t, i)'
    OBVIOUS
  <1>2. PICK n \in 1 .. Len(channel) : channel[n] = <<t, i>>
    BY DEF InChannel
  <1>3. n # 1
    BY <1>1, <1>2
  <1>4. n - 1 \in 1 .. Len(channel') /\ (n - 1) + 1 = n
    BY <1>1, <1>3
  <1>5. channel'[n - 1] = <<t, i>>
    BY <1>1, <1>2, <1>4
  <1> QED
    BY <1>4, <1>5 DEF InChannel

(* A callback that follows another still does when a third is taken out. *)
LEMMA ReadyReportsTaken ==
    ASSUME TypeOK, ReadyReports, NEW type, NEW id, Receive(type, id)
    PROVE  ReadyReports'
  <1>1. /\ Len(channel) \in Nat \ {0} /\ Len(channel') = Len(channel) - 1
        /\ \A n \in 1 .. Len(channel') : channel'[n] = channel[n + 1]
        /\ stage' = stage
    BY Received
  <1> SUFFICES ASSUME NEW u \in Ids, NEW n \in 1 .. Len(channel'),
                      channel'[n] = <<"ready", u>>
               PROVE  /\ stage'[u] \notin {"none", "sent"}
                      /\ stage'[u] = "gone" =>
                           \E m \in 1 .. Len(channel') :
                               n < m /\ channel'[m] = <<"deleted", u>>
    BY DEF ReadyReports
  <1>2. n + 1 \in 1 .. Len(channel) /\ channel[n + 1] = <<"ready", u>>
    BY <1>1
  <1>3. stage[u] \notin {"none", "sent"}
    BY <1>2 DEF ReadyReports
  <1>4. ASSUME stage[u] = "gone"
        PROVE  \E m \in 1 .. Len(channel') : n < m /\ channel'[m] = <<"deleted", u>>
    <2>1. PICK m \in 1 .. Len(channel) : n + 1 < m /\ channel[m] = <<"deleted", u>>
      BY <1>2, <1>4 DEF ReadyReports
    <2>2. m - 1 \in 1 .. Len(channel') /\ n < m - 1 /\ (m - 1) + 1 = m
      BY <1>1, <2>1
    <2>3. channel'[m - 1] = <<"deleted", u>>
      BY <1>1, <2>1, <2>2
    <2> QED
      BY <2>2, <2>3
  <1> QED
    BY <1>1, <1>3, <1>4

------------------------------------------------------------------------------
(* Types.                                                                   *)

LEMMA NothingType == Nothing \in [Hashes -> Ids \cup {NoId}]
  BY DEF Nothing

LEMMA WithoutType ==
    ASSUME NEW responses \in [Hashes -> Ids \cup {NoId}], NEW id
    PROVE  Without(id, responses) \in [Hashes -> Ids \cup {NoId}]
  BY DEF Without

(* The effects of a template respect the bound of dataSendQueue. *)
LEMMA EffectsType ==
    ASSUME TypeOK, Effects
    PROVE  dataSendQueue' \in Seq(Data) /\ Len(dataSendQueue') <= MaxData
  <1>1. dataSendQueue \in Seq(Data) /\ Len(dataSendQueue) <= MaxData
    BY DEF TypeOK
  <1>2. CASE UNCHANGED dataSendQueue
    BY <1>1, <1>2
  <1>3. ASSUME NEW d \in Data, Len(dataSendQueue) < MaxData,
               dataSendQueue' = Append(dataSendQueue, d)
        PROVE  dataSendQueue' \in Seq(Data) /\ Len(dataSendQueue') <= MaxData
    BY <1>1, <1>3, AppendProperties, LenProperties, MaxDataAssumption
  <1> QED
    BY <1>2, <1>3 DEF Effects

LEMMA CheckTemplatesType ==
    ASSUME TypeOK, CheckTemplates, present' \in BOOLEAN,
           UNCHANGED queueWaitingCounter
    PROVE  TypeOK'
  <1>0. dataSendQueue' \in Seq(Data) /\ Len(dataSendQueue') <= MaxData
    BY EffectsType DEF CheckTemplates
  <1>1. UNCHANGED <<userWaiting, turnState>>
    BY DEF CheckTemplates
  <1>2. ASSUME NEW h \in Hashes, TriggerPrepared(h)
        PROVE  TypeOK'
    <2>1. prepared[h] \in Ids
      BY <1>2 DEF TypeOK, TriggerPrepared
    <2>2. triggered' \in [Ids -> Nat] /\ prepared' \in [Hashes -> Ids \cup {NoId}]
      BY <1>2, <2>1 DEF TypeOK, TriggerPrepared
    <2> QED
      BY <1>0, <1>1, <1>2, <2>1, <2>2 DEF TypeOK, TriggerPrepared, SendSpeaking
  <1>3. ASSUME NEW h \in Hashes, SendDirectly(h)
        PROVE  TypeOK'
    <2>1. /\ triggered' \in [Ids -> Nat]
          /\ stage' \in [Ids -> {"none", "sent", "ready", "started", "ended", "gone"}]
          /\ output_counter' \in 1 .. MaxOutputs + 1
      BY <1>3, MaxOutputsAssumption DEF TypeOK, SendDirectly, Ids
    <2> QED
      BY <1>0, <1>1, <1>3, <2>1 DEF TypeOK, SendDirectly, SendSpeaking
  <1>4. ASSUME NEW h \in Hashes, ExecuteFails(h)
        PROVE  TypeOK'
    <2>1. output_counter' \in 1 .. MaxOutputs + 1
      BY <1>4, MaxOutputsAssumption DEF TypeOK, ExecuteFails, Ids
    <2> QED
      BY <1>0, <1>1, <1>4, <2>1 DEF TypeOK, ExecuteFails, SendSpeaking, playerVars
  <1>5. ASSUME NEW h \in Hashes, Prepare(h)
        PROVE  TypeOK'
    <2>1. /\ output_counter' \in 1 .. MaxOutputs + 1
          /\ stage' \in [Ids -> {"none", "sent", "ready", "started", "ended", "gone"}]
          /\ preparing' \in [Hashes -> Ids \cup {NoId}]
      <3>1. output_counter' = output_counter + 1 /\ output_counter \in Ids
        BY <1>5 DEF Prepare
      <3>2. output_counter' \in 1 .. MaxOutputs + 1
        BY <3>1, MaxOutputsAssumption DEF Ids
      <3>3. CASE /\ preparing' = [preparing EXCEPT ![h] = output_counter]
                 /\ stage' = [stage EXCEPT ![output_counter] = "sent"]
        BY <3>1, <3>2, <3>3 DEF TypeOK
      <3>4. CASE UNCHANGED <<preparing, stage>>
        BY <3>2, <3>4 DEF TypeOK
      <3> QED
        BY <1>5, <3>3, <3>4 DEF Prepare
    <2> QED
      BY <1>0, <1>1, <1>5, <2>1 DEF TypeOK, Prepare, agentVars
  <1>6. CASE NoResponse
    BY <1>0, <1>1, <1>6 DEF TypeOK, NoResponse, agentVars, responseVars, playerVars
  <1>7. CASE NoBehaviour
    BY <1>0, <1>1, <1>7 DEF TypeOK, NoBehaviour, agentVars, responseVars, playerVars
  <1> QED
    BY <1>2, <1>3, <1>4, <1>5, <1>6, <1>7 DEF CheckTemplates

LEMMA EndTurnType ==
    ASSUME TypeOK, EndTurn
    PROVE  /\ speakingState' = "listening"
           /\ overdue' \in BOOLEAN /\ userWaiting' \in BOOLEAN
           /\ dataSendQueue' \in Seq(Data) /\ Len(dataSendQueue') <= MaxData
           /\ turnState' \in {"listening", "expectingAnswer"}
  <1>1. << >> \in Seq(Data) /\ Len(<< >>) = 0
    BY EmptySeq
  <1>2. dataSendQueue' = << >>
    BY DEF EndTurn
  <1>3. dataSendQueue' \in Seq(Data) /\ Len(dataSendQueue') <= MaxData
    BY <1>1, <1>2, MaxDataAssumption
  <1> QED
    BY <1>3 DEF EndTurn, SetListening, SentWith

(* The turn ends, but not everyone is told. *)
LEMMA EndTurnFailsType ==
    ASSUME EndTurnFails
    PROVE  /\ speakingState' = "listening"
           /\ overdue' \in BOOLEAN /\ userWaiting' \in BOOLEAN
           /\ dataSendQueue' = dataSendQueue
           /\ turnState' \in {turnState, "listening", "expectingAnswer"}
           /\ failed' = TRUE
  BY DEF EndTurnFails, SetListening, SentWith

(* A step of the player, which adds a callback or none. *)
LEMMA PlayerType ==
    ASSUME TypeOK, NEW id \in Ids,
           \/ PlayerReady(id) \/ PlayerStart(id) \/ PlayerEnd(id)
           \/ PlayerDelete(id) \/ Lose(id) \/ PlayerGiveUp(id)
    PROVE  TypeOK'
  <1>1. /\ stage' \in [Ids -> {"none", "sent", "ready", "started", "ended", "gone"}]
        /\ UNCHANGED <<Proposer, triggered>>
    BY DEF TypeOK, PlayerReady, PlayerStart, PlayerEnd, PlayerDelete, Lose,
           PlayerGiveUp
  <1>2. channel' \in Seq(Callbacks \X Ids)
    BY Reported DEF TypeOK, PlayerReady, PlayerStart, PlayerEnd, PlayerDelete,
                    Lose, PlayerGiveUp, Callbacks
  <1> QED
    BY <1>1, <1>2 DEF TypeOK, Proposer, agentVars, turnVars, responseVars

LEMMA TypeStep ==
    ASSUME TypeOK, [Next]_vars
    PROVE  TypeOK'
  <1> USE DEF agentVars, turnVars, responseVars, playerVars
  <1>1. CASE ActTimeout
    <2>1. queueWaitingCounter' \in 0 .. QueueWait
      BY <1>1, QueueWaitAssumption DEF ActTimeout
    <2> QED
      BY <1>1, <2>1, EndTurnType DEF ActTimeout, TypeOK
  <1>2. CASE ActClockReset
    <2>1. queueWaitingCounter' \in 0 .. QueueWait
      BY <1>2, QueueWaitAssumption DEF ActClockReset, TypeOK
    <2> QED
      BY <1>2, <2>1, NothingType DEF ActClockReset, SetListening, TypeOK
  <1>3. CASE ActWait
    <2>1. queueWaitingCounter' \in 0 .. QueueWait
      BY <1>3, QueueWaitAssumption DEF ActWait, TypeOK
    <2> QED
      BY <1>3, <2>1 DEF ActWait, TypeOK
  <1>4. CASE ActOnTemplates
    BY <1>4, CheckTemplatesType DEF ActOnTemplates, TypeOK
  <1>5. ASSUME NEW id \in Ids, OnStart(id)
        PROVE  TypeOK'
    <2>1. /\ channel' \in Seq(Callbacks \X Ids)
          /\ stage' = stage /\ triggered' = triggered
      BY <1>5, Received DEF OnStart
    <2>2. /\ speakingState' \in {"null", "listening", "preparing", "speaking"}
          /\ overdue' \in BOOLEAN
          /\ turnState' \in {"none", "speaking", "listening", "expectingAnswer"}
      BY <1>5 DEF OnStart, TypeOK
    <2> QED
      BY <1>5, <2>1, <2>2 DEF OnStart, TypeOK
  <1>6. ASSUME NEW id \in Ids, OnEnd(id)
        PROVE  TypeOK'
    <2>1. /\ channel' \in Seq(Callbacks \X Ids)
          /\ stage' = stage /\ triggered' = triggered
      BY <1>6, Received DEF OnEnd
    <2>2. CASE SpeechReady /\ id = feedbackId
      <3>1. EndTurn /\ queueWaitingCounter' \in 0 .. QueueWait
        BY <1>6, <2>2, QueueWaitAssumption DEF OnEnd
      <3> QED
        BY <1>6, <2>1, <3>1, EndTurnType DEF OnEnd, TypeOK
    <2>3. CASE ~(SpeechReady /\ id = feedbackId)
      BY <1>6, <2>1, <2>3 DEF OnEnd, TypeOK
    <2> QED
      BY <2>2, <2>3
  <1>7. ASSUME NEW id \in Ids, OnReady(id)
        PROVE  TypeOK'
    <2>1. /\ channel' \in Seq(Callbacks \X Ids)
          /\ stage' = stage /\ triggered' = triggered
      BY <1>7, Received DEF OnReady
    <2>2. /\ prepared' \in [Hashes -> Ids \cup {NoId}]
          /\ preparing' \in [Hashes -> Ids \cup {NoId}]
      BY <1>7, WithoutType DEF OnReady, TypeOK
    <2> QED
      BY <1>7, <2>1, <2>2 DEF OnReady, TypeOK
  <1>8. ASSUME NEW id \in Ids, OnDeleted(id)
        PROVE  TypeOK'
    <2>1. /\ channel' \in Seq(Callbacks \X Ids)
          /\ stage' = stage /\ triggered' = triggered
      BY <1>8, Received DEF OnDeleted
    <2>2. /\ prepared' \in [Hashes -> Ids \cup {NoId}]
          /\ preparing' \in [Hashes -> Ids \cup {NoId}]
      BY <1>8, WithoutType DEF OnDeleted, TypeOK
    <2> QED
      BY <1>8, <2>1, <2>2 DEF OnDeleted, TypeOK
  <1>9. CASE OnUserPresent
    BY <1>9 DEF OnUserPresent, TypeOK
  <1>10. CASE OnUserAbsent
    BY <1>10, CheckTemplatesType DEF OnUserAbsent
  <1>11. CASE OnCharacter
    BY <1>11, NothingType DEF OnCharacter, TypeOK
  <1>12. CASE OnStartSpeaking
    BY <1>12 DEF OnStartSpeaking, TypeOK
  <1>13. CASE OnUserSpeaking
    BY <1>13 DEF OnUserSpeaking, TypeOK
  <1>14. CASE ActTimeoutFails \/ ActClockResetFails
    <2>1. CASE ActTimeoutFails
      BY <2>1, EndTurnFailsType DEF ActTimeoutFails, TypeOK
    <2>2. CASE ActClockResetFails
      BY <2>2 DEF ActClockResetFails, SetListening, TypeOK
    <2> QED
      BY <1>14, <2>1, <2>2
  <1>15. CASE Player
    BY <1>15, PlayerType DEF Player
  <1>16. CASE TimePasses
    BY <1>16 DEF TimePasses, TypeOK
  <1>17. CASE UNCHANGED vars
    BY <1>17 DEF vars, TypeOK
  <1>18. ASSUME NEW id \in Ids, OnStartFails(id) \/ OnEndFails(id)
         PROVE  TypeOK'
    <2>1. /\ channel' \in Seq(Callbacks \X Ids)
          /\ stage' = stage /\ triggered' = triggered
      BY <1>18, Received DEF OnStartFails, OnEndFails
    <2>2. CASE OnStartFails(id)
      BY <2>1, <2>2 DEF OnStartFails, TypeOK
    <2>3. CASE OnEndFails(id)
      BY <2>1, <2>3, EndTurnFailsType DEF OnEndFails, TypeOK
    <2> QED
      BY <1>18, <2>2, <2>3
  <1> QED
    BY <1>1, <1>2, <1>3, <1>4, <1>5, <1>6, <1>7, <1>8, <1>9, <1>10, <1>11,
       <1>12, <1>13, <1>14, <1>15, <1>16, <1>17, <1>18 DEF Next, Act, React

------------------------------------------------------------------------------
(* What is prepared, what is triggered.                                     *)

(* Nothing about the responses changes. *)
LEMMA ResponsesUnchanged ==
    ASSUME ResponseInv,
           UNCHANGED <<preparing, prepared, output_counter, playerVars>>
    PROVE  ResponseInv'
  BY DEF ResponseInv, Fresh, Given, OneOwner, SilentUntilTriggered, ReadyReports,
         TriggeredOnce, PreparationTracked, InChannel, playerVars

(* IDs are numbers, and so is the place where there is none. *)
LEMMA Numbers ==
    ASSUME TypeOK
    PROVE  /\ output_counter \in Nat
           /\ \A h \in Hashes : preparing[h] \in Nat /\ prepared[h] \in Nat
  BY DEF TypeOK, Ids, NoId

(* What was prepared and what is being prepared is forgotten. *)
LEMMA ResponsesForgotten ==
    ASSUME TypeOK, ResponseInv, preparing' = Nothing, prepared' = Nothing,
           UNCHANGED <<output_counter, playerVars>>
    PROVE  ResponseInv'
  <1>1. \A h \in Hashes : preparing'[h] = NoId /\ prepared'[h] = NoId
    BY DEF Nothing
  <1>2. Given'
    BY <1>1 DEF TypeOK, Given, NoId
  <1> QED
    BY <1>1, <1>2 DEF ResponseInv, Fresh, OneOwner, SilentUntilTriggered,
         ReadyReports, TriggeredOnce, PreparationTracked, InChannel, playerVars

(* A prepared response is triggered for the first time: it leaves the list, *)
(* and no other entry has its ID.                                           *)
LEMMA TriggerPreparedStep ==
    ASSUME TypeOK, ResponseInv, NEW h \in Hashes, TriggerPrepared(h)
    PROVE  ResponseInv'
  <1> DEFINE id == prepared[h]
  <1>1. id \in Ids /\ id # NoId /\ triggered[id] = 0 /\ id < output_counter
    BY DEF TypeOK, ResponseInv, TriggerPrepared, PreparationTracked, Given
  <1>2. /\ triggered' = [triggered EXCEPT ![id] = 1]
        /\ prepared' = [prepared EXCEPT ![h] = NoId]
        /\ UNCHANGED <<preparing, output_counter, channel, stage>>
    BY <1>1 DEF TypeOK, TriggerPrepared
  <1>3. \A g \in Hashes : prepared'[g] = IF g = h THEN NoId ELSE prepared[g]
    BY <1>2 DEF TypeOK
  <1>4. \A i \in Ids : triggered'[i] = IF i = id THEN 1 ELSE triggered[i]
    BY <1>2 DEF TypeOK
  <1>5. \A g \in Hashes : preparing[g] # id /\ prepared'[g] # id
    BY <1>1, <1>3 DEF ResponseInv, OneOwner
  <1> HIDE DEF id
  <1>6. Fresh' /\ SilentUntilTriggered' /\ TriggeredOnce'
    BY <1>1, <1>2, <1>4
       DEF TypeOK, ResponseInv, Fresh, SilentUntilTriggered, TriggeredOnce, Ids
  <1>7. Given' /\ OneOwner'
    BY <1>2, <1>3 DEF TypeOK, ResponseInv, Given, OneOwner, NoId
  <1>8. ReadyReports'
    BY <1>2 DEF ResponseInv, ReadyReports
  <1>9. PreparationTracked'
    BY <1>2, <1>3, <1>4, <1>5
       DEF TypeOK, ResponseInv, PreparationTracked, InChannel
  <1> QED
    BY <1>6, <1>7, <1>8, <1>9 DEF ResponseInv

(* A new ID is given to an utterance that is sent directly. *)
LEMMA SendDirectlyStep ==
    ASSUME TypeOK, ResponseInv, NEW h \in Hashes, SendDirectly(h)
    PROVE  ResponseInv'
  <1> DEFINE id == output_counter
  <1>1. id \in Ids /\ id \in Nat /\ stage[id] = "none" /\ triggered[id] = 0
    BY DEF TypeOK, ResponseInv, SendDirectly, Fresh, Ids
  <1>2. /\ triggered' = [triggered EXCEPT ![id] = 1]
        /\ stage' = [stage EXCEPT ![id] = "sent"]
        /\ output_counter' = id + 1
        /\ UNCHANGED <<preparing, prepared, channel>>
    BY <1>1 DEF TypeOK, SendDirectly
  <1>3. \A i \in Ids : /\ triggered'[i] = IF i = id THEN 1 ELSE triggered[i]
                       /\ stage'[i] = IF i = id THEN "sent" ELSE stage[i]
    BY <1>2 DEF TypeOK
  <1>4. \A g \in Hashes : preparing[g] # id /\ prepared[g] # id
    BY <1>1 DEF TypeOK, ResponseInv, Given, Ids, NoId
  <1>5. \A i \in 1 .. Len(channel) : channel[i] # <<"ready", id>>
    BY <1>1 DEF ResponseInv, ReadyReports
  <1>6. Fresh' /\ SilentUntilTriggered' /\ TriggeredOnce'
    BY <1>1, <1>2, <1>3
       DEF TypeOK, ResponseInv, Fresh, SilentUntilTriggered, TriggeredOnce, Ids
  <1>7. Given' /\ OneOwner'
    BY <1>2, Numbers DEF ResponseInv, Given, OneOwner
  <1>8. ReadyReports'
    BY <1>2, <1>3, <1>5 DEF ResponseInv, ReadyReports
  <1>9. PreparationTracked'
    BY <1>2, <1>3, <1>4
       DEF TypeOK, ResponseInv, PreparationTracked, InChannel
  <1> QED
    BY <1>6, <1>7, <1>8, <1>9 DEF ResponseInv

(* An ID is used up, or not, and nothing else happens. *)
LEMMA CounterStep ==
    ASSUME TypeOK, ResponseInv, output_counter' \in {output_counter, output_counter + 1},
           UNCHANGED <<preparing, prepared, playerVars>>
    PROVE  ResponseInv'
  <1>1. Fresh' /\ Given'
    BY Numbers DEF ResponseInv, Fresh, Given, playerVars, Ids
  <1> QED
    BY <1>1 DEF ResponseInv, OneOwner, SilentUntilTriggered, ReadyReports,
                TriggeredOnce, PreparationTracked, InChannel, playerVars

(* A new ID is given to a response that is sent to be prepared. *)
LEMMA PrepareStep ==
    ASSUME TypeOK, ResponseInv, NEW h \in Hashes, Prepare(h)
    PROVE  ResponseInv'
  <1> DEFINE id == output_counter
  <1>1. id \in Ids /\ id \in Nat /\ stage[id] = "none" /\ triggered[id] = 0
    BY DEF TypeOK, ResponseInv, Prepare, Fresh, Ids
  <1>2. /\ output_counter' = id + 1
        /\ UNCHANGED <<prepared, channel, triggered>>
    BY DEF Prepare
  <1>3. CASE /\ preparing' = [preparing EXCEPT ![h] = id]
             /\ stage' = [stage EXCEPT ![id] = "sent"]
    <2>1. \A g \in Hashes : preparing'[g] = IF g = h THEN id ELSE NoId
      <3>1. preparing = [g \in Hashes |-> NoId]
        BY DEF Prepare, Nothing
      <3> QED
        BY <1>3, <3>1
    <2>2. \A i \in Ids : stage'[i] = IF i = id THEN "sent" ELSE stage[i]
      BY <1>3 DEF TypeOK
    <2>3. \A g \in Hashes : prepared[g] # id
      BY <1>1 DEF TypeOK, ResponseInv, Given, Ids, NoId
    <2>4. \A i \in 1 .. Len(channel) : channel[i] # <<"ready", id>>
      BY <1>1 DEF ResponseInv, ReadyReports
    <2>5. Fresh' /\ SilentUntilTriggered' /\ TriggeredOnce'
      BY <1>1, <1>2, <2>2
         DEF TypeOK, ResponseInv, Fresh, SilentUntilTriggered, TriggeredOnce, Ids
    <2>6. Given'
      BY <1>1, <1>2, <2>1, Numbers DEF ResponseInv, Given, NoId
    <2>7. OneOwner'
      BY <1>2, <2>1, <2>3 DEF ResponseInv, OneOwner
    <2>8. ReadyReports'
      BY <1>2, <2>2, <2>4 DEF ResponseInv, ReadyReports
    <2>9. PreparationTracked'
      BY <1>1, <1>2, <2>1, <2>2, <2>3
         DEF TypeOK, ResponseInv, PreparationTracked, InChannel
    <2> QED
      BY <2>5, <2>6, <2>7, <2>8, <2>9 DEF ResponseInv
  <1>4. CASE UNCHANGED <<preparing, stage>>
    BY <1>2, <1>4, CounterStep DEF playerVars
  <1> QED
    BY <1>3, <1>4 DEF Prepare

LEMMA CheckTemplatesStep ==
    ASSUME TypeOK, ResponseInv, CheckTemplates
    PROVE  ResponseInv'
  <1>1. ASSUME NEW h \in Hashes, ExecuteFails(h)
        PROVE  ResponseInv'
    BY <1>1, CounterStep DEF ExecuteFails
  <1>2. CASE NoResponse \/ NoBehaviour
    BY <1>2, ResponsesUnchanged DEF NoResponse, NoBehaviour, responseVars
  <1> QED
    BY <1>1, <1>2, TriggerPreparedStep, SendDirectlyStep, PrepareStep
       DEF CheckTemplates

(* A callback that changes neither list is taken in. *)
LEMMA OtherCallbackStep ==
    ASSUME TypeOK, ResponseInv, NEW type \in {"start", "end"}, NEW id \in Ids,
           Receive(type, id), UNCHANGED <<preparing, prepared, output_counter>>
    PROVE  ResponseInv'
  <1>1. /\ Len(channel) \in Nat \ {0} /\ Len(channel') = Len(channel) - 1
        /\ \A i \in 1 .. Len(channel') : channel'[i] = channel[i + 1]
        /\ channel[1] = <<type, id>>
        /\ stage' = stage /\ triggered' = triggered
    BY Received
  <1>2. ReadyReports'
    BY <1>1, ReadyReportsTaken DEF ResponseInv
  <1>3. \A t \in {"ready", "deleted"}, i \in Ids : InChannel(t, i) => InChannel(t, i)'
    BY <1>1, StillOnItsWay
  <1>4. PreparationTracked'
    BY <1>1, <1>3 DEF TypeOK, ResponseInv, PreparationTracked
  <1> QED
    BY <1>1, <1>2, <1>4 DEF ResponseInv, Fresh, Given, OneOwner,
         SilentUntilTriggered, TriggeredOnce

(* What was being prepared is prepared now. *)
LEMMA OnReadyStep ==
    ASSUME TypeOK, ResponseInv, NEW id \in Ids, OnReady(id)
    PROVE  ResponseInv'
  <1>1. /\ Receive("ready", id)
        /\ stage' = stage /\ triggered' = triggered /\ output_counter' = output_counter
    BY DEF OnReady, Receive
  <1>2. ReadyReports'
    BY <1>1, ReadyReportsTaken DEF ResponseInv
  <1>3. \A t \in {"ready", "deleted"}, i \in Ids :
          InChannel(t, i) /\ <<t, i>> # <<"ready", id>> => InChannel(t, i)'
    BY <1>1, StillOnItsWay
  <1>4. \A h \in Hashes :
          /\ prepared'[h] = IF preparing[h] = id THEN id ELSE prepared[h]
          /\ preparing'[h] = IF preparing[h] = id THEN NoId ELSE preparing[h]
    BY DEF OnReady, Without
  <1>5. id # NoId /\ id \in Nat
    BY DEF Ids, NoId
  <1>6. OneOwner'
    BY <1>4, <1>5 DEF ResponseInv, OneOwner
  <1>7. Given'
    BY <1>1, <1>4, <1>5, Numbers DEF ResponseInv, Given, NoId
  <1>8. ASSUME NEW h \in Hashes, preparing[h] = id
        PROVE  /\ triggered[id] = 0
               /\ stage[id] = "ready" \/ InChannel("deleted", id)'
    <2>1. triggered[id] = 0
      BY <1>5, <1>8 DEF ResponseInv, PreparationTracked
    <2>2. stage[id] \notin {"started", "ended"}
      BY <2>1 DEF ResponseInv, SilentUntilTriggered
    <2>3. Len(channel) \in Nat \ {0} /\ channel[1] = <<"ready", id>>
      BY <1>1, Received
    <2>4. /\ stage[id] \notin {"none", "sent"}
          /\ stage[id] = "gone" => InChannel("deleted", id)
      <3>1. 1 \in 1 .. Len(channel)
        BY <2>3
      <3>2. /\ stage[id] \notin {"none", "sent"}
            /\ stage[id] = "gone" =>
                 \E j \in 1 .. Len(channel) : 1 < j /\ channel[j] = <<"deleted", id>>
        BY <2>3, <3>1 DEF ResponseInv, ReadyReports
      <3> QED
        BY <3>2 DEF InChannel
    <2>5. stage[id] \in {"none", "sent", "ready", "started", "ended", "gone"}
      BY DEF TypeOK
    <2> QED
      BY <1>3, <2>1, <2>2, <2>4, <2>5
  <1>9. PreparationTracked'
    <2> SUFFICES ASSUME NEW h \in Hashes
                 PROVE  PreparedTracked(h)' /\ PreparingTracked(h)'
      BY DEF PreparationTracked, PreparedTracked, PreparingTracked
    <2>1. CASE preparing[h] = id
      <3>1. prepared'[h] = id /\ preparing'[h] = NoId
        BY <1>4, <2>1
      <3>2. triggered[id] = 0 /\ (stage[id] = "ready" \/ InChannel("deleted", id)')
        BY <1>8, <2>1
      <3> QED
        BY <1>1, <3>1, <3>2 DEF PreparedTracked, PreparingTracked, InChannel
    <2>2. CASE preparing[h] # id
      <3>1. prepared'[h] = prepared[h] /\ preparing'[h] = preparing[h]
        BY <1>4, <2>2
      <3>2. prepared[h] \in Ids \cup {NoId} /\ preparing[h] \in Ids \cup {NoId}
        BY DEF TypeOK
      <3>3. PreparedTracked(h) /\ PreparingTracked(h)
        BY DEF ResponseInv, PreparationTracked, PreparedTracked, PreparingTracked
      <3>4. PreparedTracked(h)'
        <4>1. InChannel("deleted", prepared[h]) /\ prepared[h] # NoId
                => InChannel("deleted", prepared[h])'
          BY <1>3, <3>1, <3>2 DEF InChannel
        <4> QED
          BY <1>1, <3>1, <3>3, <4>1 DEF PreparedTracked, InChannel
      <3>5. PreparingTracked(h)'
        <4>1. InChannel("ready", preparing[h]) /\ preparing[h] # NoId
                => InChannel("ready", preparing[h])'
          BY <1>3, <2>2, <3>1, <3>2 DEF InChannel
        <4> QED
          BY <1>1, <3>1, <3>3, <4>1 DEF PreparingTracked, InChannel
      <3> QED
        BY <3>4, <3>5
    <2> QED
      BY <2>1, <2>2
  <1> QED
    BY <1>1, <1>2, <1>6, <1>7, <1>9 DEF ResponseInv, Fresh,
         SilentUntilTriggered, TriggeredOnce

(* What was deleted leaves both lists. *)
LEMMA OnDeletedStep ==
    ASSUME TypeOK, ResponseInv, NEW id \in Ids, OnDeleted(id)
    PROVE  ResponseInv'
  <1>1. /\ Receive("deleted", id)
        /\ stage' = stage /\ triggered' = triggered /\ output_counter' = output_counter
    BY DEF OnDeleted, Receive
  <1>2. ReadyReports'
    BY <1>1, ReadyReportsTaken DEF ResponseInv
  <1>3. \A t \in {"ready", "deleted"}, i \in Ids :
          InChannel(t, i) /\ <<t, i>> # <<"deleted", id>> => InChannel(t, i)'
    BY <1>1, StillOnItsWay
  <1>4. \A h \in Hashes :
          /\ prepared'[h] = IF prepared[h] = id THEN NoId ELSE prepared[h]
          /\ preparing'[h] = IF preparing[h] = id THEN NoId ELSE preparing[h]
    BY DEF OnDeleted, Without
  <1>5. OneOwner'
    BY <1>4 DEF ResponseInv, OneOwner
  <1>6. Given'
    <2>1. NoId < output_counter
      BY DEF TypeOK, NoId
    <2> QED
      BY <1>1, <1>4, <2>1 DEF ResponseInv, Given
  <1>7. PreparationTracked'
    <2>1. \A h \in Hashes : prepared[h] \in Ids \cup {NoId}
                            /\ preparing[h] \in Ids \cup {NoId}
      BY DEF TypeOK
    <2> QED
      BY <1>1, <1>3, <1>4, <2>1 DEF ResponseInv, PreparationTracked
  <1> QED
    BY <1>1, <1>2, <1>5, <1>6, <1>7 DEF ResponseInv, Fresh,
         SilentUntilTriggered, TriggeredOnce

------------------------------------------------------------------------------
(* Steps of the player.                                                     *)

(* A report leaves the callbacks before it on their way. *)
LEMMA OnItsWay ==
    ASSUME TypeOK, NEW type \in Callbacks, NEW id \in Ids, Report(type, id)
    PROVE  /\ InChannel(type, id)'
           /\ \A t, i : InChannel(t, i) => InChannel(t, i)'
  <1>1. /\ Len(channel) \in Nat /\ Len(channel') = Len(channel) + 1
        /\ \A n \in 1 .. Len(channel) : channel'[n] = channel[n]
        /\ channel'[Len(channel')] = <<type, id>>
    BY Reported
  <1>2. Len(channel') \in 1 .. Len(channel') /\ 1 .. Len(channel) \subseteq 1 .. Len(channel')
    BY <1>1
  <1> QED
    BY <1>1, <1>2 DEF InChannel

(* A report of another kind leaves the ready callbacks true. *)
LEMMA ReadyReportsKept ==
    ASSUME TypeOK, ReadyReports, NEW type \in Callbacks, NEW id \in Ids,
           Report(type, id), type # "ready",
           \A u \in Ids : stage[u] \notin {"none", "sent"} =>
               /\ stage'[u] \notin {"none", "sent"}
               /\ stage'[u] = "gone" =>
                      stage[u] = "gone" \/ (type = "deleted" /\ u = id)
    PROVE  ReadyReports'
  <1>1. /\ Len(channel) \in Nat /\ Len(channel') = Len(channel) + 1
        /\ \A n \in 1 .. Len(channel) : channel'[n] = channel[n]
        /\ channel'[Len(channel')] = <<type, id>>
    BY Reported
  <1> SUFFICES ASSUME NEW u \in Ids, NEW n \in 1 .. Len(channel'),
                      channel'[n] = <<"ready", u>>
               PROVE  /\ stage'[u] \notin {"none", "sent"}
                      /\ stage'[u] = "gone" =>
                           \E m \in 1 .. Len(channel') :
                               n < m /\ channel'[m] = <<"deleted", u>>
    BY DEF ReadyReports
  <1>2. n \in 1 .. Len(channel) /\ channel[n] = <<"ready", u>>
    BY <1>1
  <1>3. stage[u] \notin {"none", "sent"}
    BY <1>2 DEF ReadyReports
  <1>4. CASE stage[u] = "gone"
    <2>1. PICK m \in 1 .. Len(channel) : n < m /\ channel[m] = <<"deleted", u>>
      BY <1>2, <1>4 DEF ReadyReports
    <2>2. m \in 1 .. Len(channel') /\ channel'[m] = <<"deleted", u>>
      BY <1>1, <2>1
    <2> QED
      BY <1>3, <2>1, <2>2
  <1>5. CASE type = "deleted" /\ u = id
    <2>1. /\ Len(channel') \in 1 .. Len(channel') /\ n < Len(channel')
          /\ channel'[Len(channel')] = <<"deleted", u>>
      BY <1>1, <1>2, <1>5
    <2> QED
      BY <1>3, <2>1
  <1> QED
    BY <1>3, <1>4, <1>5

(* The parts of the invariant that a step of the player cannot disturb. *)
LEMMA ProposerUnchanged ==
    ASSUME ResponseInv, UNCHANGED <<Proposer, triggered>>
    PROVE  /\ UNCHANGED <<preparing, prepared, output_counter, triggered>>
           /\ Given' /\ OneOwner' /\ TriggeredOnce'
  <1>1. UNCHANGED <<preparing, prepared, output_counter, triggered>>
    BY DEF Proposer, responseVars
  <1> QED
    BY <1>1 DEF ResponseInv, Given, OneOwner, TriggeredOnce

LEMMA PlayerReadyStep ==
    ASSUME TypeOK, ResponseInv, NEW id \in Ids, PlayerReady(id)
    PROVE  ResponseInv'
  <1>1. /\ stage[id] = "sent" /\ Report("ready", id) /\ UNCHANGED <<Proposer, triggered>>
        /\ \A u \in Ids : stage'[u] = IF u = id THEN "ready" ELSE stage[u]
    BY DEF TypeOK, PlayerReady
  <1>2. /\ UNCHANGED <<preparing, prepared, output_counter, triggered>>
        /\ Given' /\ OneOwner' /\ TriggeredOnce'
    BY <1>1, ProposerUnchanged
  <1>3. Fresh' /\ SilentUntilTriggered'
    BY <1>1, <1>2 DEF ResponseInv, Fresh, SilentUntilTriggered
  <1>4. /\ InChannel("ready", id)'
        /\ \A t, i : InChannel(t, i) => InChannel(t, i)'
    BY <1>1, OnItsWay DEF Callbacks
  <1>5. ReadyReports'
    <2>1. /\ Len(channel) \in Nat /\ Len(channel') = Len(channel) + 1
          /\ \A n \in 1 .. Len(channel) : channel'[n] = channel[n]
          /\ channel'[Len(channel')] = <<"ready", id>>
      BY <1>1, Reported DEF Callbacks
    <2> SUFFICES ASSUME NEW u \in Ids, NEW n \in 1 .. Len(channel'),
                        channel'[n] = <<"ready", u>>
                 PROVE  /\ stage'[u] \notin {"none", "sent"}
                        /\ stage'[u] = "gone" =>
                             \E m \in 1 .. Len(channel') :
                                 n < m /\ channel'[m] = <<"deleted", u>>
      BY DEF ReadyReports
    <2>2. CASE u = id
      BY <1>1, <2>2
    <2>3. CASE u # id
      <3>1. n \in 1 .. Len(channel) /\ channel[n] = <<"ready", u>> /\ stage'[u] = stage[u]
        BY <1>1, <2>1, <2>3
      <3>2. /\ stage[u] \notin {"none", "sent"}
            /\ stage[u] = "gone" =>
                 \E m \in 1 .. Len(channel) : n < m /\ channel[m] = <<"deleted", u>>
        BY <3>1 DEF ResponseInv, ReadyReports
      <3>3. 1 .. Len(channel) \subseteq 1 .. Len(channel')
        BY <2>1
      <3> QED
        BY <2>1, <3>1, <3>2, <3>3
    <2> QED
      BY <2>2, <2>3
  <1>6. PreparationTracked'
    <2>1. \A h \in Hashes : prepared[h] \in Ids \cup {NoId}
                            /\ preparing[h] \in Ids \cup {NoId}
      BY DEF TypeOK
    <2> QED
      BY <1>1, <1>2, <1>4, <2>1 DEF ResponseInv, PreparationTracked
  <1> QED
    BY <1>2, <1>3, <1>5, <1>6 DEF ResponseInv

(* Only what was triggered starts, and only what has started ends. *)
LEMMA PlayerPlaysStep ==
    ASSUME TypeOK, ResponseInv, NEW id \in Ids, PlayerStart(id) \/ PlayerEnd(id)
    PROVE  ResponseInv'
  <1>1. PICK type \in {"start", "end"} :
          /\ Report(type, id) /\ UNCHANGED <<Proposer, triggered>>
          /\ stage[id] \in {"ready", "started"}
          /\ \A u \in Ids : stage'[u] = IF u # id THEN stage[u]
                            ELSE IF type = "start" THEN "started" ELSE "ended"
    BY DEF TypeOK, PlayerStart, PlayerEnd
  <1>2. triggered[id] # 0
    BY DEF TypeOK, ResponseInv, SilentUntilTriggered, PlayerStart, PlayerEnd
  <1>3. /\ UNCHANGED <<preparing, prepared, output_counter, triggered>>
        /\ Given' /\ OneOwner' /\ TriggeredOnce'
    BY <1>1, ProposerUnchanged
  <1>4. Fresh' /\ SilentUntilTriggered'
    BY <1>1, <1>2, <1>3 DEF ResponseInv, Fresh, SilentUntilTriggered
  <1>5. \A t, i : InChannel(t, i) => InChannel(t, i)'
    BY <1>1, OnItsWay DEF Callbacks
  <1>6. ReadyReports'
    <2>1. type \in Callbacks /\ type # "ready"
      BY DEF Callbacks
    <2>2. \A u \in Ids : stage[u] \notin {"none", "sent"} =>
              /\ stage'[u] \notin {"none", "sent"}
              /\ stage'[u] = "gone" =>
                     stage[u] = "gone" \/ (type = "deleted" /\ u = id)
      BY <1>1
    <2> QED
      BY <1>1, <2>1, <2>2, ReadyReportsKept DEF ResponseInv
  <1>7. PreparationTracked'
    <2>1. \A h \in Hashes : prepared[h] \in Ids \cup {NoId}
                            /\ preparing[h] \in Ids \cup {NoId}
      BY DEF TypeOK
    <2> QED
      BY <1>1, <1>2, <1>3, <1>5, <2>1 DEF ResponseInv, PreparationTracked
  <1> QED
    BY <1>3, <1>4, <1>6, <1>7 DEF ResponseInv

LEMMA PlayerDeleteStep ==
    ASSUME TypeOK, ResponseInv, NEW id \in Ids, PlayerDelete(id)
    PROVE  ResponseInv'
  <1>1. /\ stage[id] = "ready" /\ Report("deleted", id) /\ UNCHANGED <<Proposer, triggered>>
        /\ \A u \in Ids : stage'[u] = IF u = id THEN "gone" ELSE stage[u]
    BY DEF TypeOK, PlayerDelete
  <1>2. /\ UNCHANGED <<preparing, prepared, output_counter, triggered>>
        /\ Given' /\ OneOwner' /\ TriggeredOnce'
    BY <1>1, ProposerUnchanged
  <1>3. Fresh' /\ SilentUntilTriggered'
    BY <1>1, <1>2 DEF ResponseInv, Fresh, SilentUntilTriggered
  <1>4. /\ InChannel("deleted", id)'
        /\ \A t, i : InChannel(t, i) => InChannel(t, i)'
    BY <1>1, OnItsWay DEF Callbacks
  <1>5. ReadyReports'
    <2>1. "deleted" \in Callbacks
      BY DEF Callbacks
    <2>2. \A u \in Ids : stage[u] \notin {"none", "sent"} =>
              /\ stage'[u] \notin {"none", "sent"}
              /\ stage'[u] = "gone" =>
                     stage[u] = "gone" \/ ("deleted" = "deleted" /\ u = id)
      BY <1>1
    <2> QED
      BY <1>1, <2>1, <2>2, ReadyReportsKept DEF ResponseInv
  <1>6. PreparationTracked'
    <2>1. \A h \in Hashes : prepared[h] \in Ids \cup {NoId}
                            /\ preparing[h] \in Ids \cup {NoId}
      BY DEF TypeOK
    <2> QED
      BY <1>1, <1>2, <1>4, <2>1 DEF ResponseInv, PreparationTracked
  <1> QED
    BY <1>2, <1>3, <1>5, <1>6 DEF ResponseInv

(* An utterance that is lost was not announced. *)
LEMMA LoseStep ==
    ASSUME TypeOK, ResponseInv, NEW id \in Ids, Lose(id)
    PROVE  ResponseInv'
  <1>1. /\ stage[id] = "sent" /\ "lost" \in Faults /\ UNCHANGED <<Proposer, triggered>>
        /\ channel' = channel
        /\ \A u \in Ids : stage'[u] = IF u = id THEN "gone" ELSE stage[u]
    BY DEF TypeOK, Lose
  <1>2. /\ UNCHANGED <<preparing, prepared, output_counter, triggered>>
        /\ Given' /\ OneOwner' /\ TriggeredOnce'
    BY <1>1, ProposerUnchanged
  <1>3. Fresh' /\ SilentUntilTriggered'
    BY <1>1, <1>2 DEF ResponseInv, Fresh, SilentUntilTriggered
  <1>4. ReadyReports'
    BY <1>1 DEF ResponseInv, ReadyReports
  <1>5. PreparationTracked'
    <2>1. \A h \in Hashes : prepared[h] \in Ids \cup {NoId}
                            /\ preparing[h] \in Ids \cup {NoId}
      BY DEF TypeOK
    <2> QED
      BY <1>1, <1>2, <2>1 DEF ResponseInv, PreparationTracked, InChannel
  <1> QED
    BY <1>2, <1>3, <1>4, <1>5 DEF ResponseInv

LEMMA PlayerGiveUpStep ==
    ASSUME TypeOK, ResponseInv, NEW id \in Ids, PlayerGiveUp(id)
    PROVE  ResponseInv'
  <1>1. /\ stage[id] = "started" /\ UNCHANGED <<Proposer, triggered>>
        /\ channel' = channel
        /\ \A u \in Ids : stage'[u] = IF u = id THEN "ended" ELSE stage[u]
    BY DEF TypeOK, PlayerGiveUp
  <1>2. triggered[id] # 0
    BY <1>1 DEF ResponseInv, SilentUntilTriggered
  <1>3. /\ UNCHANGED <<preparing, prepared, output_counter, triggered>>
        /\ Given' /\ OneOwner' /\ TriggeredOnce'
    BY <1>1, ProposerUnchanged
  <1>4. Fresh' /\ SilentUntilTriggered'
    BY <1>1, <1>2, <1>3 DEF ResponseInv, Fresh, SilentUntilTriggered
  <1>5. ReadyReports'
    BY <1>1 DEF ResponseInv, ReadyReports
  <1>6. PreparationTracked'
    <2>1. \A h \in Hashes : prepared[h] \in Ids \cup {NoId}
                            /\ preparing[h] \in Ids \cup {NoId}
      BY DEF TypeOK
    <2> QED
      BY <1>1, <1>2, <1>3, <2>1 DEF ResponseInv, PreparationTracked, InChannel
  <1> QED
    BY <1>3, <1>4, <1>5, <1>6 DEF ResponseInv

LEMMA ResponseStep ==
    ASSUME TypeOK, ResponseInv, [Next]_vars
    PROVE  ResponseInv'
  <1>1. CASE ActTimeout \/ ActWait \/ OnUserPresent \/ OnStartSpeaking
             \/ OnUserSpeaking \/ ActTimeoutFails \/ ActClockResetFails
             \/ TimePasses \/ UNCHANGED vars
    <2>1. UNCHANGED <<responseVars, playerVars>>
      BY <1>1 DEF ActTimeout, ActWait, OnUserPresent, OnStartSpeaking,
           OnUserSpeaking, ActTimeoutFails, ActClockResetFails, TimePasses, vars
    <2> QED
      BY <2>1, ResponsesUnchanged DEF responseVars
  <1>2. CASE ActClockReset \/ OnCharacter
    BY <1>2, ResponsesForgotten DEF ActClockReset, OnCharacter
  <1>3. CASE ActOnTemplates \/ OnUserAbsent
    BY <1>3, CheckTemplatesStep DEF ActOnTemplates, OnUserAbsent
  <1>4. ASSUME NEW id \in Ids,
               OnStart(id) \/ OnEnd(id) \/ OnStartFails(id) \/ OnEndFails(id)
        PROVE  ResponseInv'
    <2>1. /\ Receive("start", id) \/ Receive("end", id)
          /\ UNCHANGED <<preparing, prepared, output_counter>>
      BY <1>4 DEF OnStart, OnEnd, OnStartFails, OnEndFails, responseVars
    <2> QED
      BY <2>1, OtherCallbackStep
  <1>5. CASE Player
    BY <1>5, PlayerReadyStep, PlayerPlaysStep, PlayerDeleteStep, LoseStep,
       PlayerGiveUpStep
       DEF Player
  <1> QED
    BY <1>1, <1>2, <1>3, <1>4, <1>5, OnReadyStep, OnDeletedStep
       DEF Next, Act, React

------------------------------------------------------------------------------
(* The agent's turns.                                                       *)

(* What the templates do to the turn: nothing, or the agent takes it. *)
LEMMA CheckTemplatesTurn ==
    ASSUME TypeOK, CheckTemplates, ~failed
    PROVE  /\ UNCHANGED turnState
           /\ \/ /\ UNCHANGED <<speakingState, speakingIntention, feedbackId,
                                latestResponse, channel, triggered>>
                 /\ UNCHANGED failed \/ failed' = TRUE
              \/ /\ speakingState' = "preparing" /\ speakingIntention' = "null"
                 /\ latestResponse' = TRUE
                 /\ UNCHANGED failed
  <1>1. UNCHANGED turnState
    BY DEF CheckTemplates
  <1>2. ASSUME NEW h \in Hashes,
               TriggerPrepared(h) \/ SendDirectly(h) \/ ExecuteFails(h)
        PROVE  /\ speakingState' = "preparing" /\ speakingIntention' = "null"
               /\ latestResponse' = TRUE
               /\ UNCHANGED failed
    BY <1>2 DEF TriggerPrepared, SendDirectly, ExecuteFails, SendSpeaking
  <1>3. ASSUME NEW h \in Hashes, Prepare(h)
        PROVE  UNCHANGED <<speakingState, speakingIntention, feedbackId, failed,
                           latestResponse, channel, triggered>>
    BY <1>3 DEF Prepare, agentVars
  <1>4. CASE NoResponse
    <2>1. /\ UNCHANGED <<speakingState, speakingIntention, feedbackId,
                         latestResponse, channel, triggered>>
          /\ failed' \in BOOLEAN
      BY <1>4 DEF NoResponse, agentVars, responseVars, playerVars, TypeOK
    <2>2. failed' = TRUE \/ failed' = FALSE
      BY <2>1
    <2>3. failed = FALSE
      BY DEF TypeOK
    <2> QED
      BY <1>1, <2>1, <2>2, <2>3
  <1>5. CASE NoBehaviour
    BY <1>1, <1>5 DEF NoBehaviour, agentVars, responseVars, playerVars
  <1> QED
    BY <1>1, <1>2, <1>3, <1>4, <1>5 DEF CheckTemplates

LEMMA TurnStep ==
    ASSUME TypeOK, TurnInv, [Next]_vars
    PROVE  TurnInv'
  <1> USE DEF TurnInv, TurnStateAgrees, IntentionUsedUp, NotYetSpoken
  <1>1. CASE ActTimeout
    BY <1>1, EndTurnType DEF ActTimeout
  <1>2. CASE ActClockReset
    BY <1>2 DEF ActClockReset, SetListening
  <1>3. CASE ActOnTemplates \/ OnUserAbsent
    <2>1. CheckTemplates /\ ~failed
      BY <1>3 DEF ActOnTemplates, OnUserAbsent, MayCheckTemplates
    <2> QED
      BY <2>1, CheckTemplatesTurn
  <1>4. ASSUME NEW id \in Ids, OnStart(id)
        PROVE  TurnInv'
    <2>1. CASE SpeechStarted
      BY <1>4, <2>1 DEF OnStart
    <2>2. CASE ~SpeechStarted
      BY <1>4, <2>2 DEF OnStart
    <2> QED
      BY <2>1, <2>2
  <1>5. ASSUME NEW id \in Ids, OnEnd(id)
        PROVE  TurnInv'
    <2>1. CASE SpeechReady /\ id = feedbackId
      <3>1. EndTurn
        BY <1>5, <2>1 DEF OnEnd
      <3> QED
        BY <1>5, <3>1, EndTurnType DEF OnEnd
    <2>2. CASE ~(SpeechReady /\ id = feedbackId)
      BY <1>5, <2>2 DEF OnEnd
    <2> QED
      BY <2>1, <2>2
  <1>6. CASE OnStartSpeaking
    BY <1>6 DEF OnStartSpeaking, agentVars
  <1>7. ASSUME UNCHANGED <<speakingState, speakingIntention, turnState, feedbackId,
                           failed>>
        PROVE  TurnInv'
    BY <1>7
  <1>8. ASSUME NEW id \in Ids, OnReady(id) \/ OnDeleted(id)
        PROVE  TurnInv'
    BY <1>7, <1>8 DEF OnReady, OnDeleted, agentVars, turnVars
  <1>9. CASE Player
    BY <1>7, <1>9 DEF Player, PlayerReady, PlayerStart, PlayerEnd, PlayerDelete,
         Lose, PlayerGiveUp, Proposer, agentVars, turnVars
  <1>10. CASE ActWait \/ OnUserPresent \/ OnCharacter \/ OnUserSpeaking
              \/ TimePasses \/ UNCHANGED vars
    BY <1>7, <1>10 DEF ActWait, OnUserPresent, OnCharacter, OnUserSpeaking,
         TimePasses, vars, agentVars, turnVars
  <1>11. ASSUME speakingState' \in {"listening", "speaking"}, failed' = TRUE
         PROVE  TurnInv'
    BY <1>11
  <1>12. CASE ActTimeoutFails \/ ActClockResetFails
    BY <1>11, <1>12, EndTurnFailsType
       DEF ActTimeoutFails, ActClockResetFails, SetListening
  <1>13. ASSUME NEW id \in Ids, OnStartFails(id) \/ OnEndFails(id)
         PROVE  TurnInv'
    BY <1>11, <1>13, EndTurnFailsType DEF OnStartFails, OnEndFails
  <1> QED
    BY <1>1, <1>2, <1>3, <1>4, <1>5, <1>6, <1>8, <1>9, <1>10, <1>12, <1>13
       DEF Next, Act, React

LEMMA HeardStep ==
    ASSUME TypeOK, HeardAfterTurn, [Next]_vars
    PROVE  HeardAfterTurn'
  <1>1. CASE ActOnTemplates \/ OnUserAbsent
    <2>1. CheckTemplates /\ ~failed
      BY <1>1 DEF ActOnTemplates, OnUserAbsent, MayCheckTemplates
    <2> QED
      BY <2>1, CheckTemplatesTurn DEF HeardAfterTurn
  <1>2. ASSUME UNCHANGED <<latestResponse, channel, triggered>>
        PROVE  HeardAfterTurn'
    BY <1>2 DEF HeardAfterTurn
  <1>3. CASE \/ ActTimeout \/ ActClockReset \/ ActWait \/ OnUserPresent
             \/ OnCharacter \/ OnStartSpeaking \/ OnUserSpeaking
             \/ ActTimeoutFails \/ ActClockResetFails \/ TimePasses
             \/ UNCHANGED vars
    BY <1>2, <1>3 DEF ActTimeout, ActClockReset, ActWait, OnUserPresent,
         OnCharacter, OnStartSpeaking, OnUserSpeaking, ActTimeoutFails,
         ActClockResetFails, TimePasses, vars, responseVars, playerVars
  <1>4. ASSUME NEW id \in Ids,
               \/ OnStart(id) \/ OnEnd(id) \/ OnReady(id) \/ OnDeleted(id)
               \/ OnStartFails(id) \/ OnEndFails(id)
        PROVE  HeardAfterTurn'
    <2>1. PICK type \in Callbacks : Receive(type, id)
      BY <1>4 DEF OnStart, OnEnd, OnReady, OnDeleted, OnStartFails,
           OnEndFails, Callbacks
    <2>2. latestResponse' = latestResponse
      BY <1>4 DEF OnStart, OnEnd, OnReady, OnDeleted, OnStartFails,
           OnEndFails, responseVars
    <2>3. /\ Len(channel) \in Nat \ {0} /\ Len(channel') = Len(channel) - 1
          /\ \A i \in 1 .. Len(channel') : channel'[i] = channel[i + 1]
          /\ triggered' = triggered
      BY <2>1, Received
    <2>4. \A i \in 1 .. Len(channel') : i + 1 \in 1 .. Len(channel)
      BY <2>3
    <2> QED
      BY <2>2, <2>3, <2>4 DEF HeardAfterTurn
  <1>5. ASSUME NEW id \in Ids, Lose(id) \/ PlayerGiveUp(id)
        PROVE  HeardAfterTurn'
    BY <1>2, <1>5 DEF Lose, PlayerGiveUp, Proposer, responseVars
  <1>6. ASSUME NEW id \in Ids,
               \/ PlayerReady(id) \/ PlayerStart(id)
               \/ PlayerEnd(id) \/ PlayerDelete(id)
        PROVE  HeardAfterTurn'
    <2>1. PICK type \in Callbacks :
            Report(type, id) /\ (type = "start" => triggered[id] > 0)
      BY <1>6 DEF PlayerReady, PlayerStart, PlayerEnd, PlayerDelete, Callbacks
    <2>2. latestResponse' = latestResponse /\ triggered' = triggered
      BY <1>6 DEF PlayerReady, PlayerStart, PlayerEnd, PlayerDelete, Proposer,
           responseVars
    <2>3. /\ Len(channel) \in Nat /\ Len(channel') = Len(channel) + 1
          /\ \A i \in 1 .. Len(channel) : channel'[i] = channel[i]
          /\ channel'[Len(channel')] = <<type, id>>
      BY <2>1, Reported
    <2>4. \A i \in 1 .. Len(channel') : i \in 1 .. Len(channel) \/ i = Len(channel')
      BY <2>3
    <2>5. <<type, id>>[1] = type
      OBVIOUS
    <2>6. ~latestResponse => type # "start"
      BY <2>1 DEF TypeOK, HeardAfterTurn
    <2> QED
      BY <2>2, <2>3, <2>4, <2>5, <2>6 DEF HeardAfterTurn
  <1> QED
    BY <1>1, <1>3, <1>4, <1>5, <1>6 DEF Next, Act, React, Player

(* A start callback that comes in is of an utterance that was triggered. *)
LEMMA StartHeardAfterTurn ==
    ASSUME TypeOK, HeardAfterTurn, NEW id \in Ids, Receive("start", id)
    PROVE  latestResponse
  <1>1. Len(channel) \in Nat \ {0} /\ channel[1] = <<"start", id>>
    BY Received
  <1>2. 1 \in 1 .. Len(channel) /\ channel[1][1] = "start"
    BY <1>1
  <1> QED
    BY <1>2 DEF HeardAfterTurn

------------------------------------------------------------------------------
(* The theorems.                                                            *)

LEMMA InitProposerInv == Init => ProposerInv
  <1> SUFFICES ASSUME Init PROVE ProposerInv
    OBVIOUS
  <1> USE DEF Init
  <1>1. /\ channel = << >> /\ dataSendQueue = << >>
        /\ \A S : << >> \in Seq(S)
        /\ Len(<< >>) = 0
    BY EmptySeq
  <1>2. \A h \in Hashes : preparing[h] = NoId /\ prepared[h] = NoId
    BY DEF Nothing
  <1>3. TypeOK
    <2>1. channel \in Seq(Callbacks \X Ids) /\ dataSendQueue \in Seq(Data)
      BY <1>1
    <2>2. Len(dataSendQueue) <= MaxData
      BY <1>1, MaxDataAssumption
    <2>3. output_counter \in 1 .. MaxOutputs + 1 /\ queueWaitingCounter \in 0 .. QueueWait
      BY MaxOutputsAssumption, QueueWaitAssumption
    <2> QED
      BY <2>1, <2>2, <2>3, NothingType DEF TypeOK
  <1>4. Fresh /\ SilentUntilTriggered /\ TriggeredOnce
    BY DEF Fresh, SilentUntilTriggered, TriggeredOnce
  <1>5. Given /\ OneOwner /\ PreparationTracked
    BY <1>2 DEF Given, OneOwner, PreparationTracked, NoId
  <1>6. ReadyReports
    BY <1>1 DEF ReadyReports
  <1>7. TurnInv
    BY DEF TurnInv, TurnStateAgrees, IntentionUsedUp, NotYetSpoken
  <1>8. HeardAfterTurn
    BY <1>1 DEF HeardAfterTurn
  <1> QED
    BY <1>3, <1>4, <1>5, <1>6, <1>7, <1>8 DEF ProposerInv, ResponseInv

LEMMA ProposerInvariant == Spec => []ProposerInv
  <1>1. ProposerInv /\ [Next]_vars => ProposerInv'
    BY TypeStep, ResponseStep, TurnStep, HeardStep DEF ProposerInv
  <1> QED
    BY <1>1, InitProposerInv, PTL DEF Spec

(* The variables of the proposer keep their types, whatever the templates   *)
(* select and whatever the player reports: in particular, the counter that  *)
(* keeps act() from the templates never passes below zero.                  *)
THEOREM ProposerTypeCorrect == Spec => []TypeOK
  <1>1. ProposerInv => TypeOK
    BY DEF ProposerInv
  <1> QED
    BY <1>1, ProposerInvariant, PTL

(* No utterance is told to play twice, whether it was prepared or sent      *)
(* directly, deleted, lost or forgotten in between.                         *)
THEOREM UtterancesAreTriggeredOnce == Spec => []TriggeredOnce
  <1>1. ProposerInv => TriggeredOnce
    BY DEF ProposerInv, ResponseInv
  <1> QED
    BY <1>1, ProposerInvariant, PTL

(* preparedResponses and preparingResponses say of the player what is true, *)
(* or what a callback on its way will correct.                              *)
THEOREM PreparationsAreTracked == Spec => []PreparationTracked
  <1>1. ProposerInv => PreparationTracked
    BY DEF ProposerInv, ResponseInv
  <1> QED
    BY <1>1, ProposerInvariant, PTL

(* The agentTurnState that the others have been told last is the            *)
(* proposer's, until it fails to tell.                                      *)
THEOREM TurnStatesAgree == Spec => []TurnStateAgrees
  <1>1. ProposerInv => TurnStateAgrees
    BY DEF ProposerInv, TurnInv
  <1> QED
    BY <1>1, ProposerInvariant, PTL

(* A response uses up the intention to speak. *)
THEOREM IntentionsAreUsedUp == Spec => []IntentionUsedUp
  <1>1. ProposerInv => IntentionUsedUp
    BY DEF ProposerInv, TurnInv
  <1> QED
    BY <1>1, ProposerInvariant, PTL

(* Every step of the proposer is one of AgentTurn, or leaves its turn as it *)
(* is: the safety part of AgentTurnSpec.  An end callback gives the turn    *)
(* back only to an agent that took one, since one that never did waits for  *)
(* no utterance; and nothing is heard to start before the first turn.       *)
THEOREM AgentTurnRefined == Spec => Turn!TurnSpec
  <1>1. Init => Turn!InitTurn
    BY DEF Init, Turn!InitTurn
  <1>2. ProposerInv /\ [Next]_vars => [Turn!NextTurn]_Turn!agentTurnVars
    <2> SUFFICES ASSUME ProposerInv, [Next]_vars
                 PROVE  [Turn!NextTurn]_Turn!agentTurnVars
      OBVIOUS
    <2> USE DEF Turn!NextTurn, Turn!agentTurnVars
    <2>0. TypeOK /\ TurnInv /\ HeardAfterTurn
      BY DEF ProposerInv
    <2>1. CASE ActTimeout
      <3>1. /\ EndTurn /\ ~failed
            /\ UNCHANGED <<speakingIntention, latestResponse, failed>>
            /\ speakingState \in {"preparing", "speaking"}
        BY <2>1 DEF ActTimeout, Overdue, responseVars
      <3>2. Turn!GiveTurn
        BY <2>0, <3>1, EndTurnType DEF Turn!GiveTurn, Turn!Listening
      <3> QED
        BY <3>2
    <2>2. CASE ActClockReset
      <3>1. Turn!ResetTurn
        BY <2>2 DEF ActClockReset, SetListening, Turn!ResetTurn
      <3> QED
        BY <3>1
    <2>3. CASE ActOnTemplates \/ OnUserAbsent
      <3>1. CheckTemplates /\ ~failed
        BY <2>3 DEF ActOnTemplates, OnUserAbsent, MayCheckTemplates
      <3> QED
        BY <2>0, <3>1, CheckTemplatesTurn DEF Turn!TakeTurn, Turn!FailTurn
    <2>4. ASSUME NEW id \in Ids, OnStart(id)
          PROVE  [Turn!NextTurn]_Turn!agentTurnVars
      <3>1. CASE SpeechStarted
        <4>1. latestResponse
          BY <2>0, <2>4, StartHeardAfterTurn DEF OnStart
        <4>2. Turn!StartTurn
          BY <2>4, <3>1, <4>1
             DEF OnStart, Receive, SpeechStarted, responseVars, Turn!StartTurn
        <4> QED
          BY <4>2
      <3>2. CASE ~SpeechStarted
        BY <2>4, <3>2 DEF OnStart, responseVars
      <3> QED
        BY <3>1, <3>2
    <2>5. ASSUME NEW id \in Ids, OnEnd(id)
          PROVE  [Turn!NextTurn]_Turn!agentTurnVars
      <3>1. CASE SpeechReady /\ id = feedbackId
        <4>1. speakingState \in {"preparing", "speaking"}
          BY <2>0, <3>1 DEF SpeechReady, TurnInv, NotYetSpoken, Ids, NoId
        <4>2. /\ EndTurn /\ ~failed
              /\ UNCHANGED <<speakingIntention, latestResponse, failed>>
          BY <2>5, <3>1 DEF OnEnd, Receive, responseVars
        <4>3. Turn!GiveTurn
          BY <2>0, <4>1, <4>2, EndTurnType DEF Turn!GiveTurn, Turn!Listening
        <4> QED
          BY <4>3
      <3>2. CASE ~(SpeechReady /\ id = feedbackId)
        BY <2>5, <3>2 DEF OnEnd, responseVars
      <3> QED
        BY <3>1, <3>2
    <2>6. CASE OnStartSpeaking
      <3>1. Turn!WantTurn
        BY <2>6 DEF OnStartSpeaking, agentVars, responseVars, Turn!WantTurn
      <3> QED
        BY <3>1
    <2>7. CASE ActTimeoutFails \/ ActClockResetFails
      <3>1. /\ ~failed /\ failed' = TRUE
            /\ speakingState' = "listening"
            /\ turnState' \in {turnState, "listening", "expectingAnswer"}
            /\ UNCHANGED <<speakingIntention, latestResponse>>
        BY <2>7, EndTurnFailsType
           DEF ActTimeoutFails, ActClockResetFails, SetListening, responseVars
      <3> QED
        BY <3>1 DEF Turn!FailTurn, Turn!Listening
    <2>11. ASSUME NEW id \in Ids, OnEndFails(id)
           PROVE  [Turn!NextTurn]_Turn!agentTurnVars
      <3>1. /\ ~failed /\ failed' = TRUE
            /\ speakingState' = "listening"
            /\ turnState' \in {turnState, "listening", "expectingAnswer"}
            /\ UNCHANGED <<speakingIntention, latestResponse>>
        BY <2>11, EndTurnFailsType DEF OnEndFails, Receive, responseVars
      <3> QED
        BY <3>1 DEF Turn!FailTurn, Turn!Listening
    <2>12. ASSUME NEW id \in Ids, OnStartFails(id)
           PROVE  [Turn!NextTurn]_Turn!agentTurnVars
      <3>1. latestResponse
        BY <2>0, <2>12, StartHeardAfterTurn DEF OnStartFails
      <3>2. Turn!FailTurn
        BY <2>12, <3>1 DEF OnStartFails, Receive, turnVars, responseVars,
             Turn!FailTurn
      <3> QED
        BY <3>2
    <2>8. ASSUME NEW id \in Ids, OnReady(id) \/ OnDeleted(id)
          PROVE  UNCHANGED Turn!agentTurnVars
      BY <2>8 DEF OnReady, OnDeleted, agentVars, turnVars
    <2>9. CASE Player
      BY <2>9 DEF Player, PlayerReady, PlayerStart, PlayerEnd, PlayerDelete,
           Lose, PlayerGiveUp, Proposer, agentVars, turnVars, responseVars
    <2>10. CASE ActWait \/ OnUserPresent \/ OnCharacter \/ OnUserSpeaking
                \/ TimePasses \/ UNCHANGED vars
      BY <2>10 DEF ActWait, OnUserPresent, OnCharacter, OnUserSpeaking,
           TimePasses, vars, agentVars, turnVars, responseVars
    <2> QED
      BY <2>1, <2>2, <2>3, <2>4, <2>5, <2>6, <2>7, <2>8, <2>9, <2>10, <2>11,
         <2>12 DEF Next, Act, React
  <1> QED
    BY <1>1, <1>2, ProposerInvariant, PTL DEF Spec, Turn!TurnSpec
==============================================================================
