-------------------------- MODULE DialogueTurnProofs --------------------------
(***************************************************************************)
(* The safety properties of DialogueTurn, for every length of the queues   *)
(* and any number of turns, user events and clock resets.                  *)
(***************************************************************************)
EXTENDS DialogueTurn, SequenceTheorems, TLAPS

(* What the interpreter will take the agent for when all has arrived. *)
WillTakeForSpeaking ==
    IF dialogQueue = << >> THEN agentSpeakingState = "SPEAKING"
    ELSE dialogQueue[Len(dialogQueue)] = "speaking"

SpeakingKnown == ~failed /\ WillTakeForSpeaking => speakingState # "listening"

Asked == \E i \in 1 .. Len(agentQueue) : agentQueue[i] = "startSpeaking"

(* The next decision of the interpreter can only be not to want the turn. *)
WillWithdraw ==
    /\ ~evaluated
    /\ agentSpeakingState # "SPEAKING" /\ agentAge <= Second
    /\ userSpeakingState # "SILENT"

(* A listening agent that does not know of a request has it under way, or   *)
(* the request will be withdrawn: now, or when the news that the agent      *)
(* listens has arrived; unless the interpreter is held up too long, or one  *)
(* of the two has failed.                                                   *)
RequestUnderWay ==
    (/\ agentSpeakingIntention = "SPEAKING" /\ speakingState = "listening"
     /\ speakingIntention = "null" /\ ~failed)
        => \/ dialogQueue # << >> \/ Asked \/ WillWithdraw
           \/ heldUp \/ interpreterFailed

TurnInv ==
    TurnTakingTypeOK /\ WaitingTogether /\ SpeakingKnown /\ RequestUnderWay

------------------------------------------------------------------------------
(* Facts about the queues and about a decision.                             *)

(* A topic to which a message is appended ends with that message. *)
LEMMA PublishedLast ==
    ASSUME NEW S, NEW q \in Seq(S), NEW e \in S
    PROVE  /\ Append(q, e) \in Seq(S) /\ Append(q, e) # << >>
           /\ Len(Append(q, e)) = Len(q) + 1
           /\ Append(q, e)[Len(Append(q, e))] = e
           /\ \A i \in 1 .. Len(q) : Append(q, e)[i] = q[i]
  BY AppendProperties

(* A topic of which a message is taken ends as before, or is empty and that *)
(* message was the last.                                                    *)
LEMMA TakenFirst ==
    ASSUME NEW S, NEW q \in Seq(S), q # << >>
    PROVE  /\ Tail(q) \in Seq(S) /\ Len(Tail(q)) = Len(q) - 1
           /\ Head(q) \in S /\ Head(q) = q[1]
           /\ \A i \in 1 .. Len(Tail(q)) : Tail(q)[i] = q[i + 1]
           /\ Tail(q) = << >> => q[Len(q)] = Head(q)
           /\ Tail(q) # << >> => Tail(q)[Len(Tail(q))] = q[Len(q)]
  <1>1. /\ Tail(q) \in Seq(S) /\ Head(q) \in S /\ Head(q) = q[1]
        /\ Len(Tail(q)) = Len(q) - 1
        /\ \A i \in 1 .. Len(Tail(q)) : Tail(q)[i] = q[i + 1]
    BY HeadTailProperties
  <1>2. Len(q) \in Nat \ {0}
    BY LenProperties, EmptySeq
  <1>3. Tail(q) = << >> => Len(Tail(q)) = 0
    BY EmptySeq
  <1>4. Tail(q) # << >> => Len(Tail(q)) \in Nat \ {0}
    BY <1>1, LenProperties, EmptySeq
  <1> QED
    BY <1>1, <1>2, <1>3, <1>4

(* What a publication of the proposer does to the queue. *)
LEMMA PublishedStates ==
    ASSUME TurnTakingTypeOK, NEW s \in Seq(TurnStates), s # << >>, Len(s) <= 2,
           PublishTurnState(s)
    PROVE  /\ dialogQueue' \in Seq(TurnStates) /\ dialogQueue' # << >>
           /\ Len(dialogQueue') <= MaxQueue + 1
           /\ dialogQueue'[Len(dialogQueue')] = s[Len(s)]
  <1>1. /\ dialogQueue' = dialogQueue \o s /\ Len(dialogQueue) < MaxQueue
        /\ dialogQueue \in Seq(TurnStates)
    BY DEF PublishTurnState, TurnTakingTypeOK
  <1>2. /\ dialogQueue' \in Seq(TurnStates)
        /\ Len(dialogQueue') = Len(dialogQueue) + Len(s)
        /\ \A i \in 1 .. Len(dialogQueue) + Len(s) :
              dialogQueue'[i] = IF i <= Len(dialogQueue) THEN dialogQueue[i]
                                ELSE s[i - Len(dialogQueue)]
    BY <1>1, ConcatProperties
  <1>3. Len(s) \in Nat \ {0} /\ Len(dialogQueue) \in Nat
    BY <1>1, LenProperties, EmptySeq
  <1>4. dialogQueue' # << >>
    BY <1>2, <1>3, EmptySeq
  <1> QED
    BY <1>1, <1>2, <1>3, <1>4, MaxQueueAssumption

(* A decision leaves things as they are only if the interpreter can want    *)
(* the turn, or did not before; otherwise it withdraws, or asks.            *)
LEMMA Decision ==
    ASSUME TurnTakingTypeOK, NEW throws \in BOOLEAN, determineAgentTurn(throws)
    PROVE  /\ evaluated' = TRUE /\ heldUp' \in BOOLEAN
           /\ agentSpeakingIntention' \in {"none", "SILENT", "SPEAKING"}
           /\ agentQueue' \in Seq({"startSpeaking", "stopSpeaking"})
           /\ Asked => Asked'
           /\ \/ /\ agentSpeakingIntention' = agentSpeakingIntention
                 /\ heldUp' = heldUp
                 /\ \/ agentSpeakingIntention # "SPEAKING"
                    \/ TRUE \in Wants(agentSpeakingState', userSpeakingState',
                                      agentAge', userAge', together')
              \/ agentSpeakingIntention' = "SILENT"
              \/ Asked' \/ throws
  <1>0. /\ agentSpeakingIntention \in {"none", "SILENT", "SPEAKING"}
        /\ agentQueue \in Seq({"startSpeaking", "stopSpeaking"})
        /\ Len(agentQueue) \in Nat /\ heldUp \in BOOLEAN
    BY LenProperties DEF TurnTakingTypeOK
  <1>1. PICK wants \in Wants(agentSpeakingState', userSpeakingState', agentAge',
                             userAge', together') :
          IF /\ wants /\ agentSpeakingIntention # "SPEAKING"
             /\ agentSpeakingState' # "SPEAKING"
          THEN SendTurnState("SPEAKING", throws)
          ELSE IF ~wants /\ agentSpeakingIntention # "SILENT"
          THEN SendTurnState("SILENT", throws)
          ELSE /\ ~throws
               /\ UNCHANGED <<agentSpeakingIntention, agentQueue, heldUp>>
    BY DEF determineAgentTurn
  <1>2. wants \in BOOLEAN
    BY <1>1 DEF Wants
  <1>3. evaluated' = TRUE
    BY DEF determineAgentTurn
  <1>4. CASE SendTurnState("SPEAKING", throws)
    <2>1. agentSpeakingIntention' = "SPEAKING" /\ heldUp' = FALSE
      BY <1>4 DEF SendTurnState
    <2>2. CASE throws
      <3>1. agentQueue' = agentQueue
        BY <1>4, <2>2 DEF SendTurnState
      <3> QED
        BY <1>0, <1>3, <2>1, <2>2, <3>1 DEF Asked
    <2>3. CASE ~throws
      <3>1. agentQueue' = Append(agentQueue, "startSpeaking")
        BY <1>4, <2>3 DEF SendTurnState
      <3>2. Asked' /\ agentQueue' \in Seq({"startSpeaking", "stopSpeaking"})
        BY <1>0, <3>1, PublishedLast DEF Asked
      <3> QED
        BY <1>3, <2>1, <3>2
    <2> QED
      BY <2>2, <2>3
  <1>5. CASE SendTurnState("SILENT", throws)
    <2>1. agentSpeakingIntention' = "SILENT" /\ heldUp' = FALSE
      BY <1>5 DEF SendTurnState
    <2>2. CASE throws
      <3>1. agentQueue' = agentQueue
        BY <1>5, <2>2 DEF SendTurnState
      <3> QED
        BY <1>0, <1>3, <2>1, <2>2, <3>1 DEF Asked
    <2>3. CASE ~throws
      <3>1. agentQueue' = Append(agentQueue, "stopSpeaking")
        BY <1>5, <2>3 DEF SendTurnState
      <3>2. /\ Asked => Asked'
            /\ agentQueue' \in Seq({"startSpeaking", "stopSpeaking"})
        BY <1>0, <3>1, PublishedLast DEF Asked
      <3> QED
        BY <1>3, <2>1, <3>2
    <2> QED
      BY <2>2, <2>3
  <1>6. CASE /\ UNCHANGED <<agentSpeakingIntention, agentQueue, heldUp>>
             /\ wants \/ agentSpeakingIntention # "SPEAKING"
    <2>1. Asked => Asked'
      BY <1>6 DEF Asked
    <2>2. wants => TRUE \in Wants(agentSpeakingState', userSpeakingState', agentAge',
                                  userAge', together')
      BY <1>1, <1>2
    <2> QED
      BY <1>0, <1>3, <1>6, <2>1, <2>2
  <1> QED
    BY <1>0, <1>1, <1>2, <1>4, <1>5, <1>6

(* In the first second of its silence the agent does not want the turn,     *)
(* unless the user has been silent for a while.                             *)
LEMMA NotAtOnce ==
    ASSUME NEW agent, NEW user, NEW aAge, NEW uAge, NEW tog,
           agent # "SPEAKING", aAge <= Second, user = "SILENT" => uAge = Now
    PROVE  TRUE \notin Wants(agent, user, aAge, uAge, tog)
  BY DEF Wants, Now, Second

(* A decision keeps RequestUnderWay: what was about to be withdrawn is      *)
(* withdrawn, and what remains asked for is under way, or could not be sent.*)
LEMMA DecisionKeepsRequest ==
    ASSUME TurnTakingTypeOK, RequestUnderWay,
           NEW throws \in BOOLEAN, determineAgentTurn(throws),
           throws => interpreterFailed', interpreterFailed => interpreterFailed',
           UNCHANGED <<speakingState, speakingIntention, failed>>,
           dialogQueue # << >> => dialogQueue' # << >>,
           \/ dialogQueue' # << >>
           \/ WillWithdraw => /\ agentSpeakingState' # "SPEAKING" /\ agentAge' <= Second
                              /\ userSpeakingState' = "SILENT" => userAge' = Now
    PROVE  RequestUnderWay'
  <1> SUFFICES ASSUME agentSpeakingIntention' = "SPEAKING", ~failed,
                      speakingState = "listening", speakingIntention = "null",
                      dialogQueue' = << >>, ~Asked', ~heldUp', ~interpreterFailed'
               PROVE  FALSE
    BY DEF RequestUnderWay
  <1>1. /\ agentSpeakingIntention = "SPEAKING" /\ ~heldUp
        /\ TRUE \in Wants(agentSpeakingState', userSpeakingState', agentAge',
                          userAge', together')
    BY Decision
  <1>2. ~Asked
    BY Decision
  <1>3. WillWithdraw
    BY <1>1, <1>2 DEF RequestUnderWay
  <1> QED
    BY <1>1, <1>3, NotAtOnce

------------------------------------------------------------------------------
(* One lemma for each step of the interpreter.                              *)

LEMMA ActStep ==
    ASSUME TurnInv, ActTurnTaking, UNCHANGED agentTurnVars
    PROVE  TurnInv'
  <1> USE DEF TurnInv
  <1>1. /\ UNCHANGED <<agentSpeakingState, userSpeakingState, agentAge, userAge,
                       together, userEvents, speakingState, speakingIntention, failed>>
        /\ interpreterFailed' \in BOOLEAN /\ ~interpreterFailed
    BY DEF ActTurnTaking, FailIf, agentTurnVars
  <1>0. PICK throws \in BOOLEAN : /\ determineAgentTurn(throws)
                                  /\ throws => interpreterFailed'
    BY DEF ActTurnTaking, FailIf
  <1>2. /\ dialogQueue \in Seq(TurnStates) /\ Len(dialogQueue) <= MaxQueue + 1
        /\ Len(dialogQueue) \in Nat /\ "listening" \in TurnStates
    BY LenProperties DEF TurnTakingTypeOK, TurnStates
  <1>3. \/ dialogQueue' = dialogQueue
        \/ /\ dialogQueue' \in Seq(TurnStates) /\ dialogQueue' # << >>
           /\ Len(dialogQueue') <= MaxQueue + 1
           /\ dialogQueue'[Len(dialogQueue')] = "listening"
    <2>1. CASE /\ Len(dialogQueue) < MaxQueue
               /\ dialogQueue' = Append(dialogQueue, "listening")
      BY <1>2, <2>1, PublishedLast, MaxQueueAssumption
    <2> QED
      BY <2>1 DEF ActTurnTaking
  <1>4. TurnTakingTypeOK'
    BY <1>0, <1>1, <1>2, <1>3, Decision DEF TurnTakingTypeOK
  <1>5. WaitingTogether'
    BY <1>1 DEF WaitingTogether
  <1>6. SpeakingKnown'
    BY <1>1, <1>3 DEF SpeakingKnown, WillTakeForSpeaking
  <1>7. RequestUnderWay'
    BY <1>0, <1>1, <1>3, DecisionKeepsRequest DEF WillWithdraw
  <1> QED
    BY <1>4, <1>5, <1>6, <1>7

LEMMA ClockResetStep ==
    ASSUME TurnInv, TurnTakingClockReset, UNCHANGED agentTurnVars
    PROVE  TurnInv'
  <1> USE DEF TurnInv
  <1>1. /\ UNCHANGED <<agentSpeakingState, userSpeakingState, userEvents,
                       dialogQueue, speakingState, speakingIntention, failed>>
        /\ agentAge' = Now /\ userAge' = Now /\ together' = TRUE
    BY DEF TurnTakingClockReset, agentTurnVars
  <1>0. PICK throws \in BOOLEAN : /\ determineAgentTurn(throws) /\ ~interpreterFailed
                                  /\ interpreterFailed' = throws
    BY DEF TurnTakingClockReset, FailIf
  <1>2. TurnTakingTypeOK'
    <2>1. /\ evaluated' \in BOOLEAN /\ heldUp' \in BOOLEAN
          /\ interpreterFailed' \in BOOLEAN
          /\ agentSpeakingIntention' \in {"none", "SILENT", "SPEAKING"}
          /\ agentQueue' \in Seq({"startSpeaking", "stopSpeaking"})
      BY <1>0, <1>1, Decision
    <2>2. together' \in BOOLEAN /\ agentAge' \in Now .. Long /\ userAge' \in Now .. Long
      BY <1>1 DEF Now, Long
    <2> QED
      BY <1>1, <2>1, <2>2 DEF TurnTakingTypeOK
  <1>3. WaitingTogether'
    BY <1>1 DEF WaitingTogether
  <1>4. SpeakingKnown'
    BY <1>1 DEF SpeakingKnown, WillTakeForSpeaking
  <1>5. RequestUnderWay'
    BY <1>0, <1>1, DecisionKeepsRequest DEF WillWithdraw, Now, Second
  <1> QED
    BY <1>2, <1>3, <1>4, <1>5

LEMMA DialogStateStep ==
    ASSUME TurnInv, OnDialogState, UNCHANGED agentTurnVars
    PROVE  TurnInv'
  <1> USE DEF TurnInv
  <1>1. /\ UNCHANGED <<agentSpeakingIntention, agentQueue, userEvents, heldUp,
                       interpreterFailed, speakingState, speakingIntention, failed>>
        /\ dialogQueue' = Tail(dialogQueue) /\ evaluated' = FALSE
        /\ dialogQueue # << >> /\ dialogQueue \in Seq(TurnStates)
        /\ setAgentSpeakingState(Head(dialogQueue))
    BY DEF OnDialogState, FailIf, agentTurnVars, TurnTakingTypeOK
  <1>2. /\ dialogQueue' \in Seq(TurnStates)
        /\ Len(dialogQueue') = Len(dialogQueue) - 1 /\ Len(dialogQueue) \in Nat
        /\ Head(dialogQueue) \in TurnStates
        /\ dialogQueue' = << >> => dialogQueue[Len(dialogQueue)] = Head(dialogQueue)
        /\ dialogQueue' # << >> =>
              dialogQueue'[Len(dialogQueue')] = dialogQueue[Len(dialogQueue)]
    BY <1>1, TakenFirst, LenProperties
  <1>3. /\ agentAge' = Now
        /\ agentSpeakingState' \in {"WAITING", "SILENT", "SPEAKING"}
        /\ agentSpeakingState' = "SPEAKING" <=> Head(dialogQueue) = "speaking"
        /\ \/ /\ Head(dialogQueue) # "speaking" /\ userSpeakingState # "SPEAKING"
              /\ userSpeakingState' = "WAITING" /\ userAge' = Now /\ together' = TRUE
           \/ /\ Head(dialogQueue) = "speaking" \/ userSpeakingState = "SPEAKING"
              /\ together' = FALSE /\ UNCHANGED <<userSpeakingState, userAge>>
    BY <1>1, <1>2 DEF setAgentSpeakingState, TurnStates
  <1>4. TurnTakingTypeOK'
    <2>1. together' \in BOOLEAN /\ evaluated' \in BOOLEAN
      BY <1>1, <1>3 DEF TurnTakingTypeOK
    <2>2. agentAge' \in Now .. Long /\ userAge' \in Now .. Long
      BY <1>3 DEF TurnTakingTypeOK, Now, Long
    <2>3. userSpeakingState' \in {"WAITING", "SILENT", "SPEAKING"}
      BY <1>3 DEF TurnTakingTypeOK
    <2>4. Len(dialogQueue') <= MaxQueue + 1
      BY <1>2, MaxQueueAssumption DEF TurnTakingTypeOK
    <2> QED
      BY <1>1, <1>2, <1>3, <2>1, <2>2, <2>3, <2>4 DEF TurnTakingTypeOK
  <1>5. WaitingTogether'
    BY <1>3 DEF WaitingTogether
  <1>6. SpeakingKnown'
    BY <1>1, <1>2, <1>3 DEF SpeakingKnown, WillTakeForSpeaking
  <1>7. RequestUnderWay'
    <2> SUFFICES ASSUME speakingState = "listening", dialogQueue' = << >>, ~failed
                 PROVE  WillWithdraw'
      BY <1>1 DEF RequestUnderWay
    <2>1. Head(dialogQueue) # "speaking"
      BY <1>1, <1>2 DEF SpeakingKnown, WillTakeForSpeaking
    <2> QED
      BY <1>1, <1>3, <2>1 DEF WillWithdraw, TurnTakingTypeOK, Now, Second
  <1> QED
    BY <1>4, <1>5, <1>6, <1>7

LEMMA UserStateStep ==
    ASSUME TurnInv, OnUserState, UNCHANGED agentTurnVars
    PROVE  TurnInv'
  <1> USE DEF TurnInv
  <1>1. /\ UNCHANGED <<agentSpeakingState, agentAge, dialogQueue, speakingState,
                       speakingIntention, failed>>
        /\ userEvents < MaxUserEvents /\ userEvents' = userEvents + 1
    BY DEF OnUserState, agentTurnVars
  <1>0. PICK throws \in BOOLEAN : /\ determineAgentTurn(throws) /\ ~interpreterFailed
                                  /\ interpreterFailed' = throws
    BY DEF OnUserState, FailIf
  <1>2. \/ /\ userSpeakingState' \in {"SILENT", "SPEAKING"}
           /\ userAge' = Now /\ together' = FALSE
        \/ UNCHANGED <<userSpeakingState, userAge, together>>
    BY DEF OnUserState
  <1>3. TurnTakingTypeOK'
    <2>1. /\ evaluated' \in BOOLEAN /\ heldUp' \in BOOLEAN
          /\ interpreterFailed' \in BOOLEAN
          /\ agentSpeakingIntention' \in {"none", "SILENT", "SPEAKING"}
          /\ agentQueue' \in Seq({"startSpeaking", "stopSpeaking"})
      BY <1>0, <1>1, Decision
    <2>2. together' \in BOOLEAN
      BY <1>2 DEF TurnTakingTypeOK
    <2>3. /\ userAge' \in Now .. Long
          /\ userSpeakingState' \in {"WAITING", "SILENT", "SPEAKING"}
      BY <1>2 DEF TurnTakingTypeOK, Now, Long
    <2>4. userEvents' \in 0 .. MaxUserEvents
      BY <1>1, MaxUserEventsAssumption DEF TurnTakingTypeOK
    <2> QED
      BY <1>1, <2>1, <2>2, <2>3, <2>4 DEF TurnTakingTypeOK
  <1>4. WaitingTogether'
    BY <1>1, <1>2 DEF WaitingTogether
  <1>5. SpeakingKnown'
    BY <1>1 DEF SpeakingKnown, WillTakeForSpeaking
  <1>6. RequestUnderWay'
    BY <1>0, <1>1, <1>2, DecisionKeepsRequest DEF WillWithdraw
  <1> QED
    BY <1>3, <1>4, <1>5, <1>6

LEMMA TimeStep ==
    ASSUME TurnInv, TurnTakingTime, UNCHANGED agentTurnVars
    PROVE  TurnInv'
  <1> USE DEF TurnInv
  <1>1. TurnTakingTypeOK'
    BY DEF TurnTakingTypeOK, TurnTakingTime, Now, Long
  <1>2. WaitingTogether'
    BY DEF WaitingTogether, TurnTakingTime
  <1>3. SpeakingKnown'
    BY DEF SpeakingKnown, WillTakeForSpeaking, TurnTakingTime, agentTurnVars
  <1>4. RequestUnderWay'
    <2>1. agentAge' \in Now .. Long /\ evaluated \in BOOLEAN /\ heldUp \in BOOLEAN
      BY <1>1 DEF TurnTakingTypeOK
    <2>2. /\ UNCHANGED <<agentSpeakingState, userSpeakingState, evaluated, dialogQueue,
                         agentSpeakingIntention, interpreterFailed, agentQueue,
                         speakingState, speakingIntention, failed>>
          /\ heldUp => heldUp'
          /\ ~evaluated /\ agentAge' > Second /\ agentSpeakingIntention = "SPEAKING"
                => heldUp'
      BY <2>1 DEF TurnTakingTime, agentTurnVars
    <2>3. agentSpeakingIntention = "SPEAKING" /\ WillWithdraw => heldUp' \/ WillWithdraw'
      BY <2>1, <2>2 DEF WillWithdraw, Now, Second, Long
    <2> QED
      BY <2>2, <2>3 DEF RequestUnderWay, Asked
  <1> QED
    BY <1>1, <1>2, <1>3, <1>4

------------------------------------------------------------------------------
(* The steps of the proposer.                                               *)

LEMMA PublishStep ==
    ASSUME TurnInv, NEW s \in Seq(TurnStates), s # << >>, Len(s) <= 2,
           PublishTurnState(s), s[Len(s)] = "speaking" => speakingState' # "listening"
    PROVE  TurnInv'
  <1> USE DEF TurnInv
  <1>1. UNCHANGED <<agentSpeakingState, userSpeakingState, agentSpeakingIntention,
                    agentAge, userAge, together, evaluated, heldUp, interpreterFailed,
                    userEvents, agentQueue>>
    BY DEF PublishTurnState, interpreterVars
  <1>2. /\ dialogQueue' \in Seq(TurnStates) /\ dialogQueue' # << >>
        /\ Len(dialogQueue') <= MaxQueue + 1
        /\ dialogQueue'[Len(dialogQueue')] = s[Len(s)]
    BY PublishedStates
  <1>3. TurnTakingTypeOK'
    BY <1>1, <1>2 DEF TurnTakingTypeOK
  <1>4. WaitingTogether'
    BY <1>1 DEF WaitingTogether
  <1>5. SpeakingKnown' /\ RequestUnderWay'
    BY <1>2 DEF SpeakingKnown, WillTakeForSpeaking, RequestUnderWay
  <1> QED
    BY <1>3, <1>4, <1>5

LEMMA PublishOne ==
    ASSUME TurnInv,
           \/ PublishTurnState(<<"speaking">>) /\ speakingState' # "listening"
           \/ PublishTurnState(<<"listening">>)
    PROVE  TurnInv'
  <1>1. ASSUME NEW state \in TurnStates, PublishTurnState(<<state>>),
               state = "speaking" => speakingState' # "listening"
        PROVE  TurnInv'
    <2> DEFINE s == <<state>>
    <2>1. s \in Seq(TurnStates) /\ s # << >> /\ Len(s) <= 2 /\ s[Len(s)] = state
      OBVIOUS
    <2>2. PublishTurnState(s)
      BY <1>1
    <2> HIDE DEF s
    <2> QED
      BY <1>1, <2>1, <2>2, PublishStep
  <1> QED
    BY <1>1 DEF TurnStates

LEMMA PublishTwo ==
    ASSUME TurnInv, PublishTurnState(<<"listening", "expectingAnswer">>)
    PROVE  TurnInv'
  <1> DEFINE s == <<"listening", "expectingAnswer">>
  <1>1. s \in Seq(TurnStates) /\ s # << >> /\ Len(s) <= 2
        /\ s[Len(s)] # "speaking"
    BY DEF TurnStates
  <1>2. PublishTurnState(s)
    OBVIOUS
  <1> HIDE DEF s
  <1> QED
    BY <1>1, <1>2, PublishStep

LEMMA IntentionStep ==
    ASSUME TurnInv, ReceiveIntention
    PROVE  TurnInv'
  <1> USE DEF TurnInv
  <1>1. /\ UNCHANGED interpreterVars /\ UNCHANGED <<dialogQueue, speakingState, failed>>
        /\ agentQueue # << >> /\ agentQueue' = Tail(agentQueue)
        /\ agentQueue \in Seq({"startSpeaking", "stopSpeaking"})
    BY DEF ReceiveIntention, WantTurn, agentTurnVars, TurnTakingTypeOK
  <1>2. /\ agentQueue' \in Seq({"startSpeaking", "stopSpeaking"})
        /\ Head(agentQueue) = agentQueue[1]
        /\ Len(agentQueue) \in Nat /\ Len(agentQueue') = Len(agentQueue) - 1
        /\ \A i \in 1 .. Len(agentQueue') : agentQueue'[i] = agentQueue[i + 1]
    BY <1>1, TakenFirst, LenProperties
  <1>3. TurnTakingTypeOK'
    BY <1>1, <1>2 DEF TurnTakingTypeOK, interpreterVars
  <1>4. WaitingTogether' /\ SpeakingKnown'
    BY <1>1 DEF WaitingTogether, SpeakingKnown, WillTakeForSpeaking, interpreterVars
  <1>5. RequestUnderWay'
    <2> SUFFICES ASSUME agentSpeakingIntention = "SPEAKING",
                        speakingState = "listening", speakingIntention' = "null",
                        dialogQueue = << >>, ~WillWithdraw', ~failed,
                        ~heldUp, ~interpreterFailed
                 PROVE  Asked'
      BY <1>1 DEF RequestUnderWay, interpreterVars
    <2>1. Head(agentQueue) # "startSpeaking" /\ speakingIntention = "null"
      BY DEF ReceiveIntention, WantTurn, agentTurnVars
    <2>2. ~WillWithdraw
      BY <1>1 DEF WillWithdraw, interpreterVars
    <2>3. PICK i \in 1 .. Len(agentQueue) : agentQueue[i] = "startSpeaking"
      BY <2>1, <2>2 DEF RequestUnderWay, Asked
    <2>4. i - 1 \in 1 .. Len(agentQueue') /\ (i - 1) + 1 = i
      BY <1>2, <2>1, <2>3
    <2>5. agentQueue'[i - 1] = "startSpeaking"
      BY <1>2, <2>3, <2>4
    <2> QED
      BY <2>4, <2>5 DEF Asked
  <1> QED
    BY <1>3, <1>4, <1>5

(* Steps of the proposer that the interpreter is not told of. *)
LEMMA SilentStep ==
    ASSUME TurnInv, UNCHANGED turnTakingVars,
           \/ speakingState' # "listening" \/ failed'
           \/ UNCHANGED <<speakingState, speakingIntention, failed>>
    PROVE  TurnInv'
  <1> USE DEF TurnInv, turnTakingVars
  <1>1. TurnTakingTypeOK' /\ WaitingTogether'
    BY DEF TurnTakingTypeOK, WaitingTogether
  <1>2. SpeakingKnown'
    BY DEF SpeakingKnown, WillTakeForSpeaking
  <1>3. RequestUnderWay'
    BY DEF RequestUnderWay, Asked, WillWithdraw
  <1> QED
    BY <1>1, <1>2, <1>3

LEMMA TurnInvInit == Init => TurnInv
  <1> SUFFICES ASSUME Init PROVE TurnInv
    OBVIOUS
  <1> USE DEF Init, InitTurnTaking, InitTurn
  <1>1. dialogQueue = << >> /\ agentQueue = << >> /\ Len(dialogQueue) = 0
    BY EmptySeq
  <1>2. TurnTakingTypeOK
    <2>1. dialogQueue \in Seq(TurnStates)
      BY <1>1, EmptySeq
    <2>2. agentQueue \in Seq({"startSpeaking", "stopSpeaking"})
      BY <1>1, EmptySeq
    <2>3. /\ together \in BOOLEAN /\ evaluated \in BOOLEAN /\ heldUp \in BOOLEAN
          /\ interpreterFailed \in BOOLEAN
      OBVIOUS
    <2>4. /\ agentAge \in Now .. Long /\ userAge \in Now .. Long
          /\ userEvents \in 0 .. MaxUserEvents /\ Len(dialogQueue) <= MaxQueue + 1
      BY <1>1, MaxQueueAssumption, MaxUserEventsAssumption DEF Now, Long
    <2> QED
      BY <2>1, <2>2, <2>3, <2>4 DEF TurnTakingTypeOK
  <1>3. WaitingTogether /\ SpeakingKnown /\ RequestUnderWay
    BY <1>1 DEF WaitingTogether, SpeakingKnown, WillTakeForSpeaking, RequestUnderWay
  <1> QED
    BY <1>2, <1>3 DEF TurnInv

LEMMA TurnInvNext == TurnInv /\ [Next]_vars => TurnInv'
  <1> SUFFICES ASSUME TurnInv, [Next]_vars PROVE TurnInv'
    OBVIOUS
  <1>1. CASE ReceiveIntention
    BY <1>1, IntentionStep
  <1>2. CASE AgentTakes
    BY <1>2, SilentStep DEF AgentTakes, TakeTurn
  <1>3. CASE AgentStarts
    BY <1>3, PublishOne DEF AgentStarts, StartTurn
  <1>4. CASE AgentGives
    <2>1. CASE PublishTurnState(<<"listening">>)
      BY <2>1, PublishOne
    <2>2. CASE PublishTurnState(<<"listening", "expectingAnswer">>)
      BY <2>2, PublishTwo
    <2> QED
      BY <1>4, <2>1, <2>2 DEF AgentGives
  <1>5. CASE AgentResets
    BY <1>5, PublishOne DEF AgentResets
  <1>6. CASE AgentFails
    <2>1. CASE UNCHANGED turnTakingVars
      BY <1>6, <2>1, SilentStep DEF AgentFails, FailTurn
    <2>2. CASE PublishTurnState(<<"listening">>)
      BY <2>2, PublishOne
    <2>3. CASE PublishTurnState(<<"listening", "expectingAnswer">>)
      BY <2>3, PublishTwo
    <2> QED
      BY <1>6, <2>1, <2>2, <2>3 DEF AgentFails
  <1>7. CASE ActTurnTaking /\ Quiet
    BY <1>7, ActStep DEF Quiet
  <1>8. CASE OnDialogState /\ Quiet
    BY <1>8, DialogStateStep DEF Quiet
  <1>9. CASE OnUserState /\ Quiet
    BY <1>9, UserStateStep DEF Quiet
  <1>10. CASE TurnTakingTime /\ Quiet
    BY <1>10, TimeStep DEF Quiet
  <1>11. CASE InterpreterResets
    BY <1>11, ClockResetStep DEF InterpreterResets
  <1>12. CASE UNCHANGED vars
    BY <1>12, SilentStep DEF vars, agentTurnVars
  <1> QED
    BY <1>1, <1>2, <1>3, <1>4, <1>5, <1>6, <1>7, <1>8, <1>9, <1>10, <1>11, <1>12
       DEF Next, Agent, Interpreter

LEMMA TurnInvAlways == Spec => []TurnInv
  BY TurnInvInit, TurnInvNext, PTL DEF Spec

------------------------------------------------------------------------------
(* The theorems.                                                            *)

(* Every variable of the turn-taking interpreter keeps its type, and no     *)
(* topic carries more than the bound allows.                                *)
THEOREM TurnTakingTypeCorrect == Spec => []TurnTakingTypeOK
  BY TurnInvAlways, PTL DEF TurnInv

(* setAgentSpeakingState, setUserSpeakingState and the clock reset keep the *)
(* two times together while the user is waited for, so that the term for a  *)
(* user who does not respond counts.                                        *)
THEOREM TimesAreSetTogether == Spec => []WaitingTogether
  BY TurnInvAlways, PTL DEF TurnInv

(* The interpreter never takes an agent that listens for one that speaks    *)
(* once all messages have arrived, its own time-out messages included; only *)
(* a proposer that has failed can leave it in error.                        *)
THEOREM ListeningIsNoticed == Spec => []NotTakenForSpeaking
  <1>1. TurnInv => NotTakenForSpeaking
    BY DEF TurnInv, SpeakingKnown, WillTakeForSpeaking, NotTakenForSpeaking
  <1> QED
    BY <1>1, TurnInvAlways, PTL

(* A startSpeaking that the proposer dropped is withdrawn, so that it can   *)
(* be sent again, as soon as the interpreter has heard that the agent       *)
(* listens; unless it is held up for more than a second just then, as the   *)
(* component loop may be while the system is not ready, or one of the two   *)
(* components has failed.                                                   *)
THEOREM RequestsAreKept == Spec => []RequestKept
  <1>1. TurnInv => RequestKept
    BY EmptySeq DEF TurnInv, RequestUnderWay, RequestKept, Asked, WillWithdraw
  <1> QED
    BY <1>1, TurnInvAlways, PTL
==============================================================================
